-------------------------- MODULE CheckpointProofs --------------------------
(***************************************************************************)
(* The queues of MoveThreads stay right through checkpoints and restarts,  *)
(* for any number of restarts and any set of restored threads.             *)
(***************************************************************************)
EXTENDS Checkpoint, MoveThreadsProofs

\* A loaded thread has a number and a saved record of the right type.
LEMMA ImageRecords ==
    ASSUME ImageOK, NEW t \in DOMAIN image
    PROVE  /\ t \in Threads /\ t \in Nat /\ t <= MaxThreads /\ t >= 1
           /\ image[t].state \in {"quota", "daemon"} /\ image[t].acc \in {"value", "yield"}
           /\ image[t].trap \in BOOLEAN /\ image[t].locked \in Objects \cup {Null}
           /\ image[t].count \in 0..MaxDepth
BY ThreadsAssumption DEF ImageOK, Threads

\* Linking a new thread at the head of run_q keeps the queues right.
LEMMA Registered ==
    ASSUME TypeOK, TypeOK', QueuesRight, NEW t \in Threads, t \notin threadtab,
           threadtab' = threadtab \cup {t}, numActive' = numActive + 1,
           q' = [q EXCEPT !["run"] = PushFront(@, t)],
           queue' = [queue EXCEPT ![t] = "run"],
           \A u \in Threads \ {t} : acc'[u] = acc[u],
           threadtab' \subseteq 1..(nextNumber' - 1)
    PROVE  QueuesRight'
<1>1. /\ q \in [Queues -> Seq(Threads)] /\ queue \in [Threads -> Queues \cup {"none"}]
      /\ threadtab \subseteq Threads /\ "run" \in Queues /\ IsFiniteSet(threadtab)
  BY ThreadNumbers, FS_Subset DEF TypeOK, Queues
<1>2. queue[t] = "none"
  BY DEF QueuesRight, QueuesPartition
<1>3. /\ \A k \in Queues : NoRepeats(q[k]) /\ InQueue(q[k]) = {u \in threadtab : queue[u] = k}
      /\ numActive = Cardinality(threadtab)
      /\ \A u \in Threads : queue[u] = "none" <=> u \notin threadtab
  BY DEF QueuesRight, QueuesPartition
<1>4. ASSUME NEW k \in Queues
      PROVE  NoRepeats(q'[k]) /\ InQueue(q'[k]) = {u \in threadtab' : queue'[u] = k}
  <2>1. CASE k = "run"
    <3>1. q'[k] = PushFront(q[k], t) /\ t \notin InQueue(q[k])
      BY <1>1, <1>3, <2>1
    <3>2. NoRepeats(q'[k]) /\ InQueue(q'[k]) = InQueue(q[k]) \cup {t}
      BY <1>1, <1>3, <3>1, PushFrontLemma
    <3>3. {u \in threadtab' : queue'[u] = k} = {u \in threadtab : queue[u] = k} \cup {t}
      BY <1>1, <2>1
    <3> QED BY <1>3, <3>2, <3>3
  <2>2. CASE k # "run"
    <3>1. q'[k] = q[k]
      BY <1>1, <2>2
    <3>2. {u \in threadtab' : queue'[u] = k} = {u \in threadtab : queue[u] = k}
      BY <1>1, <2>2
    <3> QED BY <1>3, <3>1, <3>2
  <2> QED BY <2>1, <2>2
<1>5. numActive' = Cardinality(threadtab')
  BY <1>1, <1>3, FS_AddElement
<1>6. \A u \in Threads : queue'[u] = "none" <=> u \notin threadtab'
  BY <1>1, <1>3 DEF Queues
<1>7. QueuesPartition'
  BY <1>4, <1>5, <1>6 DEF QueuesPartition
<1>8. \A u \in Threads : queue'[u] \in {"block", "sleep"} => acc'[u] = "yield"
  BY <1>1 DEF QueuesRight
<1> QED BY <1>7, <1>8 DEF QueuesRight

\* main starts on an empty thread table.
LEMMA StartInv ==
    ASSUME CheckpointInv, Start
    PROVE  CheckpointInv'
<1>1. TypeOK'
  <2>1. mutex' \in [Objects -> [counter : Nat, owner : Threads \cup {NoThread}]]
    BY DEF Start, FreshMutexes, Unheld
  <2>2. /\ q' \in [Queues -> Seq(Threads)] /\ queue' \in [Threads -> Queues \cup {"none"}]
        /\ ctx' \in [Threads -> Contexts] /\ acc' \in [Threads -> {"value", "yield"}]
        /\ vmState' \in [Threads -> QuotaKinds \cup {"dying"}] /\ trap' \in [Threads -> BOOLEAN]
    BY DEF Start, NoContext, Contexts, ContextKinds
  <2>3. /\ locked' \in [Threads -> Objects \cup {Null}]
        /\ lockedCount' \in [Threads -> 0..MaxDepth]
        /\ conn' \in [Conns -> {"idle", "ready", "closed"}]
    BY ThreadsAssumption DEF Start
  <2>4. /\ threadtab' \subseteq Threads /\ numActive' \in Int /\ nextNumber' \in 1..(MaxThreads + 1)
        /\ due' \subseteq Threads
        /\ phase' \in {"loop", "sleepers", "blocked", "run", "select", "exit", "crash"}
        /\ cur' \in Threads \cup {0} /\ next' \in Threads \cup {0}
        /\ ticks' \in 0..Slice /\ expiring' \in BOOLEAN /\ idle' \in 0..(IdleLimit - 1)
    <3>1. MaxThreads \in Nat \ {0} /\ Slice \in Nat \ {0} /\ IdleLimit \in Nat \ {0}
      BY ThreadsAssumption
    <3>2. 0 \in Int /\ 1 \in 1..(MaxThreads + 1) /\ 0 \in 0..Slice /\ 0 \in 0..(IdleLimit - 1)
      BY <3>1
    <3>3. /\ threadtab' = {} /\ numActive' = 0 /\ nextNumber' = 1 /\ due' = {}
          /\ phase' = "loop" /\ cur' = 0 /\ next' = 0
          /\ ticks' = 0 /\ expiring' = FALSE /\ idle' = 0
      BY DEF Start
    <3> QED BY <3>2, <3>3
  <2> QED BY <2>1, <2>2, <2>3, <2>4 DEF TypeOK
<1>2. ImageOK'
  <2>1. /\ image' = image /\ pending' = FALSE /\ booting' = TRUE
        /\ toLoad' \in {DOMAIN image, {}} /\ restarts < MaxRestarts /\ restarts' = restarts + 1
    BY DEF Start
  <2>2. restarts' \in 0..MaxRestarts
    BY <2>1, RestartsAssumption DEF CheckpointInv, ImageOK
  <2> QED BY <2>1, <2>2 DEF CheckpointInv, ImageOK
<1>3. QueuesPartition'
  <2>1. NoRepeats(<< >>) /\ InQueue(<< >>) = {}
    BY DEF NoRepeats, InQueue
  <2>2. Cardinality({}) = 0
    BY FS_EmptySet
  <2> QED BY <2>1, <2>2 DEF Start, QueuesPartition
<1>4. QueueInv' /\ BootInv'
  BY <1>3 DEF Start, QueueInv, SavedNextLive, SweptQueue, BootInv
<1> QED BY <1>1, <1>2, <1>4 DEF CheckpointInv

\* Typing of what LoadThread and ScriptForks change.
LEMMA LoadTypes ==
    ASSUME CheckpointInv, NEW t \in Threads, LoadThread(t)
    PROVE  TypeOK' /\ ImageOK'
<1> USE DEF CheckpointInv
<1>1. t \in DOMAIN image
  BY DEF LoadThread, ImageOK
<1> DEFINE r == image[t]
<1>2. /\ t \in Nat /\ t <= MaxThreads /\ t >= 1
      /\ r.state \in {"quota", "daemon"} /\ r.acc \in {"value", "yield"}
      /\ r.trap \in BOOLEAN /\ r.locked \in Objects \cup {Null} /\ r.count \in 0..MaxDepth
  BY <1>1, ImageRecords
<1>3. mutex' \in [Objects -> [counter : Nat, owner : Threads \cup {NoThread}]]
  <2>1. mutex \in [Objects -> [counter : Nat, owner : Threads \cup {NoThread}]] /\ r.count \in Nat
    BY <1>2, ThreadsAssumption DEF TypeOK
  <2>2. CASE r.locked = Null
    BY <2>1, <2>2 DEF LoadThread
  <2>3. CASE r.locked \in Objects
    <3>1. LockedAgain(mutex[r.locked], r.count) \in [counter : Nat, owner : Threads \cup {NoThread}]
      BY <2>1, <2>3 DEF LockedAgain
    <3>2. r.locked # Null
      BY <2>3, ThreadsAssumption
    <3> QED BY <2>1, <2>3, <3>1, <3>2 DEF LoadThread
  <2> QED BY <1>2, <2>2, <2>3
<1>4. /\ vmState' \in [Threads -> QuotaKinds \cup {"dying"}] /\ trap' \in [Threads -> BOOLEAN]
      /\ acc' \in [Threads -> {"value", "yield"}]
      /\ locked' \in [Threads -> Objects \cup {Null}] /\ lockedCount' \in [Threads -> 0..MaxDepth]
  BY <1>2 DEF LoadThread, LoadedAcc, TypeOK, QuotaKinds
<1>5. q' \in [Queues -> Seq(Threads)] /\ queue' \in [Threads -> Queues \cup {"none"}]
  BY DEF LoadThread, TypeOK, Queues, PushFront
<1>6. /\ threadtab' \subseteq Threads /\ numActive' \in Int
      /\ nextNumber' \in 1..(MaxThreads + 1)
  BY <1>2, ThreadsAssumption DEF LoadThread, NumberAfter, TypeOK
<1>7. TypeOK'
  BY <1>3, <1>4, <1>5, <1>6 DEF LoadThread, TypeOK, sweep
<1>8. ImageOK'
  BY DEF LoadThread, ImageOK
<1> QED BY <1>7, <1>8

\* Loading a thread keeps the invariant: its number is not in use yet.
LEMMA LoadInv ==
    ASSUME CheckpointInv, NEW t \in Threads, LoadThread(t)
    PROVE  CheckpointInv'
<1>1. TypeOK /\ QueueInv /\ BootInv /\ TypeOK' /\ ImageOK'
  BY LoadTypes DEF CheckpointInv
<1>2. t \notin threadtab
  BY <1>1 DEF LoadThread, BootInv
<1>3. threadtab' \subseteq 1..(nextNumber' - 1)
  <2>1. threadtab \subseteq 1..(nextNumber - 1) /\ nextNumber \in Nat /\ t \in Nat /\ t >= 1
    BY <1>1, ThreadsAssumption DEF QueueInv, TypeOK, Threads
  <2>2. threadtab' = threadtab \cup {t} /\ nextNumber' = NumberAfter(t)
    BY DEF LoadThread
  <2> QED BY <2>1, <2>2 DEF NumberAfter
<1>4. QueuesRight'
  <2>1. QueuesRight /\ \A u \in Threads \ {t} : acc'[u] = acc[u]
    BY <1>1, QueueInvParts DEF LoadThread, TypeOK
  <2> QED BY <1>1, <1>2, <1>3, <2>1, Registered DEF LoadThread
<1>5. BootInv' /\ SavedNextLive'
  BY <1>1 DEF LoadThread, BootInv, SavedNextLive, SweptQueue, sweep
<1> QED BY <1>1, <1>4, <1>5, QueueInvParts DEF CheckpointInv

\* So does a boot script that starts a thread.
LEMMA ScriptInv ==
    ASSUME CheckpointInv, NEW s \in Quotas, NEW b \in BOOLEAN, ScriptForks(s, b)
    PROVE  CheckpointInv'
<1> DEFINE t == nextNumber
<1>1. TypeOK /\ ImageOK /\ QueueInv /\ BootInv /\ t \in Threads
  BY DEF CheckpointInv, ScriptForks
<1>2. TypeOK'
  <2>1. s \in QuotaKinds \cup {"dying"} /\ t \in Nat /\ t + 1 \in 1..(MaxThreads + 1)
    BY <1>1, ThreadsAssumption DEF Threads
  <2>2. q' \in [Queues -> Seq(Threads)] /\ queue' \in [Threads -> Queues \cup {"none"}]
    BY <1>1, SMTT(30) DEF ScriptForks, TypeOK, Queues, PushFront
  <2>3. /\ vmState' \in [Threads -> QuotaKinds \cup {"dying"}] /\ trap' \in [Threads -> BOOLEAN]
        /\ threadtab' \subseteq Threads /\ numActive' \in Int /\ nextNumber' \in 1..(MaxThreads + 1)
    BY <1>1, <2>1 DEF ScriptForks, TypeOK
  <2>4. /\ UNCHANGED <<ctx, due, acc, locked, lockedCount, mutex, conn, phase, cur, next>>
        /\ UNCHANGED <<ticks, expiring, idle>>
    BY DEF ScriptForks, sweep, locks
  <2> QED BY <1>1, <2>2, <2>3, <2>4 DEF TypeOK
<1>3. ImageOK'
  BY <1>1 DEF ScriptForks, ImageOK
<1>4. t \notin threadtab /\ threadtab' \subseteq 1..(nextNumber' - 1)
  BY <1>1, ThreadsAssumption DEF ScriptForks, QueueInv, Threads
<1>5. QueuesRight'
  <2>1. QueuesRight /\ \A u \in Threads \ {t} : acc'[u] = acc[u]
    BY <1>1, QueueInvParts DEF ScriptForks
  <2> QED BY <1>1, <1>2, <1>4, <2>1, Registered DEF ScriptForks
<1>6. BootInv' /\ SavedNextLive'
  BY <1>1 DEF ScriptForks, BootInv, SavedNextLive, SweptQueue, sweep
<1> QED BY <1>2, <1>3, <1>5, <1>6, QueueInvParts DEF CheckpointInv

\* What a checkpoint writes is well-formed; in particular it holds no thread
\* that is dying or was to be discarded.
LEMMA SnapshotOK ==
    ASSUME CheckpointInv, TakeCheckpoint, booting' = booting, toLoad' = {}
    PROVE  ImageOK'
<1>1. TypeOK /\ image' = Snapshot /\ pending' = FALSE /\ restarts' = restarts
  BY DEF CheckpointInv, TakeCheckpoint
<1>2. DOMAIN Snapshot \subseteq Threads
  BY <1>1 DEF TypeOK, Snapshot
<1>3. ASSUME NEW t \in DOMAIN Snapshot
      PROVE  Snapshot[t] \in [state : {"quota", "daemon"}, acc : {"value", "yield"},
                 trap : BOOLEAN, locked : Objects \cup {Null}, count : 0..MaxDepth]
  <2>1. t \in threadtab /\ t \in Threads /\ Restartable(t)
    BY <1>1 DEF Snapshot, TypeOK
  <2>2. vmState[t] \in {"quota", "daemon"}
    BY <1>1, <2>1 DEF Restartable, TypeOK, QuotaKinds
  <2> QED BY <1>1, <2>1, <2>2 DEF Snapshot, TypeOK
<1>4. DOMAIN image' = DOMAIN Snapshot
  BY <1>1
<1>5. \A t \in DOMAIN image' : image'[t] = Snapshot[t]
  BY <1>1
<1>6. pending' \in BOOLEAN /\ booting' \in BOOLEAN /\ restarts' \in 0..MaxRestarts
  BY <1>1 DEF CheckpointInv, ImageOK
<1> HIDE DEF Snapshot
<1> QED BY <1>2, <1>3, <1>4, <1>5, <1>6 DEF ImageOK

\* Asking for a checkpoint is an instruction like any other to MoveThreads, and
\* taking one nothing at all.
LEMMA ServerStep ==
    ASSUME Server \/ World
    PROVE  [Next]_vars
<1>1. CASE CheckpointFun
  <2>1. Compute
    BY <1>1 DEF CheckpointFun, Compute
  <2> QED BY <2>1 DEF Next, Process, Instruction
<1>2. CASE ~CheckpointFun
  BY <1>2 DEF Server, World, Work, Next, Process, Instruction, TakeCheckpoint
<1> QED BY <1>1, <1>2

\* A step of the running server is one of MoveThreads, or changes no queue.
LEMMA ServerInv ==
    ASSUME CheckpointInv, Server \/ World
    PROVE  CheckpointInv'
<1>1. TypeOK /\ ImageOK /\ QueueInv /\ BootInv /\ ~booting /\ UNCHANGED <<booting, toLoad>>
  BY DEF CheckpointInv, Server, World
<1>3. TypeOK' /\ QueueInv'
  BY <1>1, ServerStep, TypeStep, QueueStep
<1>4. ImageOK'
  <2>1. CASE TakeCheckpoint /\ UNCHANGED <<booting, toLoad>>
    <3>1. toLoad' = {}
      BY <1>1 DEF BootInv
    <3> QED BY <2>1, <3>1, SnapshotOK
  <2>2. CASE CheckpointFun
    BY <1>1, <2>2 DEF CheckpointFun, ImageOK
  <2>3. CASE UNCHANGED <<pending, image, restarts, booting, toLoad>>
    BY <1>1, <2>3 DEF ImageOK
  <2> QED BY <1>1, <2>1, <2>2, <2>3 DEF Server, World
<1>5. BootInv'
  BY <1>1 DEF BootInv
<1> QED BY <1>3, <1>4, <1>5 DEF CheckpointInv

\* The invariant of the system with restarts.
THEOREM CheckpointInvariance == CheckpointSpec => []CheckpointInv
<1>1. CheckpointInit => CheckpointInv
  <2> SUFFICES ASSUME CheckpointInit PROVE CheckpointInv
    OBVIOUS
  <2>1. TypeOK /\ QueueInv
    BY TypeInit, QueueInit DEF CheckpointInit
  <2>2. ImageOK /\ BootInv
    <3>1. DOMAIN image = {}
      BY DEF CheckpointInit, NoThreads
    <3>2. pending = FALSE /\ restarts = 0 /\ booting = FALSE /\ toLoad = {}
      BY DEF CheckpointInit
    <3>3. 0 \in 0..MaxRestarts
      BY RestartsAssumption
    <3>4. ImageOK
      BY <3>1, <3>2, <3>3 DEF ImageOK
    <3> QED BY <3>2, <3>4 DEF BootInv
  <2> QED BY <2>1, <2>2 DEF CheckpointInv
<1>2. CheckpointInv /\ [CheckpointNext]_ckvars => CheckpointInv'
  <2> SUFFICES ASSUME CheckpointInv, [CheckpointNext]_ckvars PROVE CheckpointInv'
    OBVIOUS
  <2>1. CASE Server \/ World
    BY <2>1, ServerInv
  <2>2. CASE Start
    BY <2>2, StartInv
  <2>3. CASE Booted \/ UNCHANGED ckvars
    <3>1. UNCHANGED vars /\ UNCHANGED <<pending, image, restarts, toLoad>>
      BY <2>3 DEF Booted, ckvars
    <3>2. TypeOK' /\ QueueInv'
      BY <3>1, TypeStep, QueueStep DEF CheckpointInv
    <3>3. ImageOK' /\ BootInv'
      <4>1. phase' = phase /\ threadtab' = threadtab
        BY <3>1 DEF vars, registry, sweep
      <4>2. booting' \in BOOLEAN /\ (booting' = booting \/ (booting' = FALSE /\ toLoad = {}))
        BY <2>3 DEF Booted, ckvars, CheckpointInv, ImageOK
      <4>3. pending' = pending /\ image' = image /\ restarts' = restarts /\ toLoad' = toLoad
        BY <3>1
      <4>4. ImageOK'
        BY <4>2, <4>3 DEF CheckpointInv, ImageOK
      <4>5. BootInv'
        BY <4>1, <4>2, <4>3 DEF CheckpointInv, BootInv
      <4> QED BY <4>4, <4>5
    <3> QED BY <3>2, <3>3 DEF CheckpointInv
  <2>4. CASE \E t \in Threads : LoadThread(t)
    BY <2>4, LoadInv
  <2>5. CASE \E s \in Quotas, b \in BOOLEAN : ScriptForks(s, b)
    BY <2>5, ScriptInv
  <2> QED BY <2>1, <2>2, <2>3, <2>4, <2>5 DEF CheckpointNext, Boot
<1> QED BY <1>1, <1>2, PTL DEF CheckpointSpec

\* Restarts with any set of restored threads, at any moment and however
\* often, leave every thread in one queue, numbers unique and new numbers
\* unused, and every pass on live threads.
THEOREM QueuesSurviveRestarts == CheckpointSpec => []QueueInv
<1>1. CheckpointInv => QueueInv
  BY DEF CheckpointInv
<1> QED BY <1>1, CheckpointInvariance, PTL

\* A checkpoint never holds a thread that was dying or, with the quota
\* VM_STATE_NOQUOTA, was to be discarded.
THEOREM OnlyRestartableSaved == CheckpointSpec => []ImageOK
<1>1. CheckpointInv => ImageOK
  BY DEF CheckpointInv
<1> QED BY <1>1, CheckpointInvariance, PTL

-----------------------------------------------------------------------------
(* The object locks through restarts: LockInv, GrantInv, LocksAccounted.   *)

\* Apart from steps of MoveThreads there are the three that start the server.
LEMMA StepCases ==
    ASSUME [CheckpointNext]_ckvars
    PROVE  \/ [Next]_vars \/ Start
           \/ \E t \in Threads : LoadThread(t)
           \/ \E s \in Quotas, b \in BOOLEAN : ScriptForks(s, b)
<1>1. CASE Booted \/ UNCHANGED ckvars
  BY <1>1 DEF Booted, ckvars
<1>2. CASE ~Booted /\ CheckpointNext
  BY <1>2, ServerStep DEF CheckpointNext, Boot
<1> QED BY <1>1, <1>2

\* A loaded thread is new, and no lock with a named owner is locked for it: the
\* locking is done for nobody, which only a lock that nobody is named for grants.
LEMMA LoadedLocks ==
    ASSUME CheckpointInv, LockInv, NEW t \in Threads, LoadThread(t)
    PROVE  /\ t \in DOMAIN image /\ t \notin threadtab
           /\ \A o \in Objects : mutex[o].owner # NoThread => mutex'[o] = mutex[o]
           /\ \A o \in Objects : mutex'[o].owner # NoThread => mutex'[o] = mutex[o]
<1>1. t \in DOMAIN image /\ t \notin threadtab
  BY DEF LoadThread, BootInv, ImageOK, CheckpointInv
<1>2. /\ mutex \in [Objects -> Mutexes] /\ Null \notin Objects
      /\ image[t].locked \in Objects \cup {Null} /\ image[t].count \in Nat
  BY <1>1, ImageRecords, ThreadsAssumption DEF CheckpointInv, TypeOK, Mutexes
<1>3. ASSUME NEW o \in Objects
      PROVE  mutex'[o] = IF image[t].locked = o THEN LockedAgain(mutex[o], image[t].count) ELSE mutex[o]
  BY <1>2 DEF LoadThread
<1>4. ASSUME NEW o \in Objects, mutex[o].owner # NoThread
      PROVE  LockedAgain(mutex[o], image[t].count) = mutex[o]
  <2>1. mutex[o].counter # 0
    BY <1>4 DEF LockInv, NamedOwnersLive
  <2> QED BY <1>4, <2>1 DEF LockedAgain, Lockable
<1>5. ASSUME NEW o \in Objects, LockedAgain(mutex[o], image[t].count).owner # NoThread
      PROVE  LockedAgain(mutex[o], image[t].count) = mutex[o]
  BY <1>5 DEF LockedAgain
<1> QED BY <1>1, <1>3, <1>4, <1>5

\* Loading threads keeps the owners of locks and those who wait for them.
LEMMA LoadLocks ==
    ASSUME CheckpointInv, LockInv, NEW t \in Threads, LoadThread(t)
    PROVE  LockInv'
<1>1. /\ threadtab' = threadtab \cup {t} /\ t \notin threadtab /\ threadtab \subseteq Threads
      /\ queue' = [queue EXCEPT ![t] = "run"] /\ ctx' = ctx
      /\ queue \in [Threads -> Queues \cup {"none"}]
  BY LoadedLocks DEF LoadThread, CheckpointInv, TypeOK
<1>2. \A u \in Threads : u # t => locked'[u] = locked[u] /\ lockedCount'[u] = lockedCount[u]
  BY DEF LoadThread, CheckpointInv, TypeOK
<1>3. \A u \in Threads : WaitsForLock(u)' => WaitsForLock(u) /\ u # t
  BY <1>1 DEF WaitsForLock
<1>4. NamedOwnersLive'
  <2> SUFFICES ASSUME NEW o \in Objects, mutex'[o].owner # NoThread
               PROVE  LET u == mutex'[o].owner IN
                        u \in threadtab' /\ locked'[u] = o /\ mutex'[o].counter \in 1..lockedCount'[u]
    BY DEF NamedOwnersLive
  <2>1. mutex'[o] = mutex[o]
    BY LoadedLocks
  <2>2. LET u == mutex[o].owner IN
          u \in threadtab /\ locked[u] = o /\ mutex[o].counter \in 1..lockedCount[u]
    BY <2>1 DEF LockInv, NamedOwnersLive
  <2> QED BY <1>1, <1>2, <2>1, <2>2
<1>5. WaitersHoldNothing'
  <2>1. ASSUME NEW u \in threadtab', WaitsForLock(u)', NEW o \in Objects PROVE mutex'[o].owner # u
    <3>1. u \in threadtab /\ WaitsForLock(u) /\ u # NoThread
      BY <1>1, <1>3, <2>1, ThreadNumbers DEF NoThread
    <3>2. mutex[o].owner # u
      BY <3>1 DEF LockInv, WaitersHoldNothing
    <3> QED BY <3>1, <3>2, LoadedLocks
  <2> QED BY <2>1 DEF WaitersHoldNothing
<1>6. \A u \in Threads : WaitsForLock(u)' =>
        ctx'[u].on \in Objects /\ locked'[u] = ctx'[u].on /\ lockedCount'[u] > 0
  BY <1>1, <1>2, <1>3 DEF LockInv
<1> QED BY <1>4, <1>5, <1>6 DEF LockInv

\* In the heap that main has loaded no lock is held.
LEMMA StartLocks ==
    ASSUME Start
    PROVE  LockInv'
<1>1. /\ mutex' = [o \in Objects |-> Unheld] /\ ctx' = [t \in Threads |-> NoContext]
      /\ threadtab' = {}
  BY DEF Start, FreshMutexes
<1>2. \A t \in Threads : ~WaitsForLock(t)'
  BY <1>1 DEF WaitsForLock, NoContext
<1> QED BY <1>1, <1>2 DEF LockInv, NamedOwnersLive, WaitersHoldNothing, Unheld

\* A boot script starts threads that wait for nothing.
LEMMA ScriptLocks ==
    ASSUME CheckpointInv, LockInv, NEW s \in Quotas, NEW b \in BOOLEAN, ScriptForks(s, b)
    PROVE  LockInv'
<1>1. /\ nextNumber \in Threads /\ threadtab \subseteq Threads
      /\ threadtab' = threadtab \cup {nextNumber} /\ UNCHANGED locks
      /\ queue' = [queue EXCEPT ![nextNumber] = "run"] /\ ctx' = ctx
      /\ queue \in [Threads -> Queues \cup {"none"}]
  BY DEF ScriptForks, CheckpointInv, TypeOK
<1>2. \A t \in Threads : WaitsForLock(t)' => t # nextNumber /\ WaitsForLock(t)
  BY <1>1 DEF WaitsForLock
<1>3. \A t \in threadtab' : WaitsForLock(t)' => t \in threadtab
  BY <1>1, <1>2
<1> QED BY <1>1, <1>2, <1>3, LockFrame

\* So the owners of locks and those who wait for them survive restarts.
LEMMA RestartLocks ==
    ASSUME CheckpointInv, LockInv, [CheckpointNext]_ckvars
    PROVE  LockInv'
BY StepCases, LockStep, StartLocks, LoadLocks, ScriptLocks DEF CheckpointInv

\* Steps that move no thread and lock nothing for a thread that has yielded.
LEMMA GrantFrame ==
    ASSUME TypeOK, GrantInv, UNCHANGED <<threadtab, queue, ctx, acc>>,
           \A t \in threadtab : acc[t] = "yield" => locked'[t] = locked[t]
    PROVE  GrantInv'
BY DEF GrantInv, TypeOK

\* Moving a thread: in run_q it has a value, and elsewhere it may yield.
LEMMA GrantMove ==
    ASSUME TypeOK, GrantInv, NEW t \in threadtab, UNCHANGED threadtab,
           \A u \in Threads : u # t => locked'[u] = locked[u],
           \/ UnblockThread(t) \/ SleepThread(t)
           \/ \E kind, x : BlockThread(t, kind, x)
    PROVE  GrantInv'
<1>1. /\ t \in Threads /\ threadtab \subseteq Threads
      /\ queue \in [Threads -> Queues \cup {"none"}] /\ ctx \in [Threads -> Contexts]
      /\ acc \in [Threads -> {"value", "yield"}]
  BY DEF TypeOK
<1>2. \A u \in Threads : u # t => queue'[u] = queue[u] /\ ctx'[u] = ctx[u] /\ acc'[u] = acc[u]
  BY <1>1 DEF UnblockThread, SleepThread, BlockThread, Enqueued
<1>3. queue'[t] = "run" => acc'[t] = "value"
  BY <1>1 DEF UnblockThread, SleepThread, BlockThread, Enqueued
<1>4. \A u \in Threads : u \notin threadtab' => acc'[u] = "value"
  BY <1>2 DEF GrantInv
<1>5. ASSUME NEW u \in threadtab', queue'[u] = "run", acc'[u] = "yield"
      PROVE  ctx'[u].kind = "locking" /\ locked'[u] = ctx'[u].on
  BY <1>1, <1>2, <1>3, <1>5 DEF GrantInv
<1> QED BY <1>4, <1>5 DEF GrantInv

\* Steps of the loop: the lock a thread is granted is the one it waits for.
LEMMA GrantLoop ==
    ASSUME TypeOK, QueueInv, LockInv, GrantInv, Loop
    PROVE  GrantInv'
<1>1. CASE StartRound \/ SleepersDone \/ BlockedDone \/ RunDone \/ WakeFromSelect \/ SliceOver
  BY <1>1, GrantFrame DEF StartRound, SleepersDone, BlockedDone, RunDone, WakeFromSelect,
     SliceOver, queues, registry, vm, locks
<1>2. CASE ResumeSleeper
  <2>1. cur \in threadtab /\ UNCHANGED <<threadtab, locked>>
        /\ (UnblockThread(cur) \/ UNCHANGED <<queue, ctx, acc>>)
    BY <1>2, CurrentLive DEF ResumeSleeper, registry, queues, locks
  <2> QED BY <2>1, GrantMove, GrantFrame
<1>3. CASE RetryIo
  <2>1. cur \in threadtab /\ UNCHANGED <<threadtab, locked>>
    BY <1>3, CurrentLive DEF RetryIo, registry, locks
  <2>2. UnblockThread(cur) \/ \E kind, x : BlockThread(cur, kind, x)
    BY <1>3 DEF RetryIo, TryIo
  <2> QED BY <2>1, <2>2, GrantMove
<1>4. CASE RetryLock
  <2>1. /\ cur \in threadtab /\ WaitsForLock(cur) /\ threadtab \subseteq Threads
        /\ UNCHANGED <<threadtab, ctx, acc, locked>>
        /\ queue \in [Threads -> Queues \cup {"none"}]
        /\ queue' = queue \/ queue' = [queue EXCEPT ![cur] = "run"]
    BY <1>4, CurrentLive
       DEF RetryLock, Enqueued, QueueInv, SavedNextLive, SweptQueue, WaitsForLock, TypeOK,
           registry, vm
  <2>2. ctx[cur].kind = "locking" /\ locked[cur] = ctx[cur].on
    BY <2>1 DEF LockInv, WaitsForLock
  <2> QED BY <2>1, <2>2 DEF GrantInv
<1>5. CASE Reap
  <2>1. /\ cur \in Threads /\ threadtab \subseteq Threads /\ threadtab' = threadtab \ {cur}
        /\ queue \in [Threads -> Queues \cup {"none"}] /\ ctx \in [Threads -> Contexts]
        /\ acc \in [Threads -> {"value", "yield"}] /\ locked \in [Threads -> Objects \cup {Null}]
    BY <1>5, CurrentLive DEF Reap, TypeOK
  <2>2. \A t \in Threads : t # cur => /\ queue'[t] = queue[t] /\ ctx'[t] = ctx[t]
                                      /\ acc'[t] = acc[t] /\ locked'[t] = locked[t]
    BY <1>5, <2>1 DEF Reap
  <2>3. acc'[cur] = "value"
    BY <1>5, <2>1 DEF Reap
  <2>4. \A t \in Threads : t \notin threadtab' => acc'[t] = "value"
    BY <2>1, <2>2, <2>3 DEF GrantInv
  <2>5. ASSUME NEW t \in threadtab', queue'[t] = "run", acc'[t] = "yield"
        PROVE  ctx'[t].kind = "locking" /\ locked'[t] = ctx'[t].on
    BY <2>1, <2>2, <2>5 DEF GrantInv
  <2> QED BY <2>4, <2>5 DEF GrantInv
<1> QED BY <1>1, <1>2, <1>3, <1>4, <1>5 DEF Loop

\* Instructions: they are executed by threads that have not yielded.
LEMMA GrantInstruction ==
    ASSUME TypeOK, QueueInv, LockInv, GrantInv, Instruction
    PROVE  GrantInv'
<1>0. cur \in threadtab /\ cur \in Threads /\ acc[cur] = "value"
  <2>1. Running
    BY DEF Instruction, Compute, QuotaExpires, Raise, Return, Sleep, Shutdown,
       SetQuotaOfGoneThread, SetHandler, LockRefused, LockObj, UnlockObj, Fork, Kill,
       ForceKill, SetThreadQuota, ReadFrom, AcceptConnection, CloseConnection, Instr
  <2> QED BY <2>1, RunningThread, RunnerWaitsNot
<1>1. CASE Compute \/ QuotaExpires \/ Raise \/ Return \/ Shutdown \/ SetQuotaOfGoneThread
  BY <1>1, GrantFrame DEF Compute, QuotaExpires, Raise, Return, Shutdown,
     SetQuotaOfGoneThread, queues, registry, vm, locks
<1>2. CASE \/ \E b \in BOOLEAN : SetHandler(b)
           \/ \E o \in Objects : LockRefused(o)
           \/ \E t \in threadtab, s \in Quotas \cup {"dying"} : SetThreadQuota(t, s)
           \/ \E c \in Conns : CloseConnection(c)
  BY <1>2, GrantFrame DEF SetHandler, LockRefused, SetThreadQuota, CloseConnection,
     queues, registry, vm, locks
<1>3. CASE Sleep
  BY <1>0, <1>3, GrantMove DEF Sleep, registry, locks
<1>4. ASSUME NEW t \in threadtab, Kill(t) \/ ForceKill(t) PROVE GrantInv'
  BY <1>4, GrantMove, GrantFrame DEF Kill, ForceKill, WakeVictim, queues, registry, locks
<1>5. ASSUME NEW c \in Conns, ReadFrom(c) \/ AcceptConnection(c) PROVE GrantInv'
  <2>1. UnblockThread(cur) \/ \E kind, x : BlockThread(cur, kind, x)
    BY <1>5 DEF ReadFrom, AcceptConnection, TryIo
  <2>2. UNCHANGED <<threadtab, locked>>
    BY <1>5 DEF ReadFrom, AcceptConnection, registry, locks
  <2> QED BY <1>0, <2>1, <2>2, GrantMove
<1>6. ASSUME NEW o \in Objects, LockObj(o) \/ UnlockObj(o) PROVE GrantInv'
  <2>1. UNCHANGED threadtab /\ \A t \in Threads : t # cur => locked'[t] = locked[t]
    BY <1>6 DEF LockObj, UnlockObj, registry, TypeOK
  <2>2. BlockThread(cur, "locking", o) \/ UNCHANGED <<queue, ctx, acc>>
    BY <1>6 DEF LockObj, UnlockObj, queues, vm
  <2>3. CASE BlockThread(cur, "locking", o)
    BY <1>0, <2>1, <2>3, GrantMove
  <2>4. CASE UNCHANGED <<queue, ctx, acc>>
    BY <1>0, <2>1, <2>4, GrantFrame DEF TypeOK
  <2> QED BY <2>2, <2>3, <2>4
<1>7. ASSUME NEW s \in Quotas \cup {"dying"}, Fork(s) PROVE GrantInv'
  <2>1. /\ threadtab' = threadtab \cup {nextNumber} /\ nextNumber \in Threads
        /\ nextNumber \notin threadtab
        /\ UNCHANGED <<ctx, acc, locked>> /\ queue' = [queue EXCEPT ![nextNumber] = "run"]
    BY <1>7, ThreadsAssumption DEF Fork, QueueInv, locks, Threads
  <2> QED BY <2>1 DEF GrantInv, TypeOK
<1> QED
  BY <1>1, <1>2, <1>3, <1>4, <1>5, <1>6, <1>7, ThreadsAssumption DEF Instruction

\* Starting the server: whatever a thread was saved with, it is loaded with a value.
LEMMA GrantBoot ==
    ASSUME CheckpointInv, GrantInv,
           \/ Start \/ \E t \in Threads : LoadThread(t)
           \/ \E s \in Quotas, b \in BOOLEAN : ScriptForks(s, b)
    PROVE  GrantInv'
<1>1. CASE Start
  BY <1>1 DEF Start, GrantInv
<1>2. ASSUME NEW t \in Threads, LoadThread(t) PROVE GrantInv'
  <2>1. /\ threadtab \subseteq Threads /\ threadtab' = threadtab \cup {t} /\ ctx' = ctx
        /\ queue \in [Threads -> Queues \cup {"none"}] /\ acc \in [Threads -> {"value", "yield"}]
        /\ locked \in [Threads -> Objects \cup {Null}]
    BY <1>2 DEF LoadThread, CheckpointInv, TypeOK
  <2>2. \A u \in Threads : u # t => /\ queue'[u] = queue[u] /\ acc'[u] = acc[u]
                                    /\ locked'[u] = locked[u]
    BY <1>2, <2>1 DEF LoadThread
  <2>3. acc'[t] = "value"
    <3>1. t \in DOMAIN image
      BY <1>2 DEF LoadThread, CheckpointInv, ImageOK
    <3> QED BY <1>2, <2>1, <3>1, ImageRecords DEF LoadThread, LoadedAcc, CheckpointInv
  <2>4. \A u \in Threads : u \notin threadtab' => acc'[u] = "value"
    BY <2>1, <2>2 DEF GrantInv
  <2>5. ASSUME NEW u \in threadtab', queue'[u] = "run", acc'[u] = "yield"
        PROVE  ctx'[u].kind = "locking" /\ locked'[u] = ctx'[u].on
    BY <2>1, <2>2, <2>3, <2>5 DEF GrantInv
  <2> QED BY <2>4, <2>5 DEF GrantInv
<1>3. ASSUME NEW s \in Quotas, NEW b \in BOOLEAN, ScriptForks(s, b) PROVE GrantInv'
  <2>1. /\ threadtab' = threadtab \cup {nextNumber} /\ nextNumber \in Threads
        /\ nextNumber \notin threadtab
        /\ UNCHANGED <<ctx, acc, locked>> /\ queue' = [queue EXCEPT ![nextNumber] = "run"]
    BY <1>3, ThreadsAssumption DEF ScriptForks, CheckpointInv, QueueInv, locks, Threads
  <2> QED BY <2>1 DEF GrantInv, CheckpointInv, TypeOK
<1> QED BY <1>1, <1>2, <1>3

\* So a thread that will not run though it is in run_q has been granted a lock,
\* before a restart and after it.
LEMMA GrantStep ==
    ASSUME CheckpointInv, LockInv, GrantInv, [CheckpointNext]_ckvars
    PROVE  GrantInv'
<1>1. CASE [Next]_vars
  <2>1. TypeOK /\ QueueInv
    BY DEF CheckpointInv
  <2>2. CASE Environment \/ UNCHANGED vars
    BY <2>1, <2>2, GrantFrame DEF Environment, Alarm, InputArrives, vars, queues, vm, registry, locks
  <2> QED BY <1>1, <2>1, <2>2, GrantLoop, GrantInstruction DEF Next, Process, Done
<1>2. CASE ~[Next]_vars
  BY <1>2, StepCases, GrantBoot
<1> QED BY <1>1, <1>2

\* Locks counted by finitely many threads, up to a depth, are finitely many.
LEMMA FiniteClaims ==
    ASSUME NEW T, IsFiniteSet(T), NEW n \in Nat, NEW C \in SUBSET (T \X (1..n))
    PROVE  IsFiniteSet(C) /\ Cardinality(C) \in Nat
<1>1. IsFiniteSet(1..n)
  BY FS_Interval
<1>2. IsFiniteSet(T \X (1..n))
  BY <1>1, FS_Product
<1>3. IsFiniteSet(C)
  BY <1>2, FS_Subset
<1> QED BY <1>3, FS_CardinalityType

\* What is claimed of an object can be counted, before a step and after it.
LEMMA ClaimsCounted ==
    ASSUME NEW o
    PROVE  /\ TypeOK => IsFiniteSet(Claims(o)) /\ Cardinality(Claims(o)) \in Nat
           /\ TypeOK' => IsFiniteSet(Claims(o)') /\ Cardinality(Claims(o)') \in Nat
<1>0. MaxDepth \in Nat /\ IsFiniteSet(Threads)
  BY ThreadsAssumption, ThreadNumbers
<1>1. ASSUME TypeOK PROVE IsFiniteSet(Claims(o)) /\ Cardinality(Claims(o)) \in Nat
  <2>1. IsFiniteSet(threadtab) /\ Claims(o) \in SUBSET (threadtab \X (1..MaxDepth))
    BY <1>0, <1>1, FS_Subset DEF TypeOK, Claims
  <2> QED BY <1>0, <2>1, FiniteClaims
<1>2. ASSUME TypeOK' PROVE IsFiniteSet(Claims(o)') /\ Cardinality(Claims(o)') \in Nat
  <2>1. IsFiniteSet(threadtab') /\ Claims(o)' \in SUBSET (threadtab' \X (1..MaxDepth))
    BY <1>0, <1>2, FS_Subset DEF TypeOK, Claims
  <2> QED BY <1>0, <2>1, FiniteClaims
<1> QED BY <1>1, <1>2

\* A thread that has counted its lock n times claims it as often.
LEMMA ClaimsOfOne ==
    ASSUME NEW t, NEW n \in Nat
    PROVE  IsFiniteSet({t} \X (1..n)) /\ Cardinality({t} \X (1..n)) = n
<1>1. /\ IsFiniteSet({t}) /\ Cardinality({t}) = 1
      /\ IsFiniteSet(1..n) /\ Cardinality(1..n) = n
  <2>1. IsFiniteSet(1..n) /\ Cardinality(1..n) = IF 1 > n THEN 0 ELSE n - 1 + 1
    BY FS_Interval
  <2>2. (IF 1 > n THEN 0 ELSE n - 1 + 1) = n
    OBVIOUS
  <2> QED BY <2>1, <2>2, FS_Singleton
<1>2. /\ IsFiniteSet({t} \X (1..n))
      /\ Cardinality({t} \X (1..n)) = Cardinality({t}) * Cardinality(1..n)
  BY <1>1, FS_Product
<1> QED BY <1>1, <1>2

\* A lock that is held more often by n, with n new claims on it, is accounted for;
LEMMA AccountMore ==
    ASSUME TypeOK, TypeOK', LocksAccounted, NEW o \in Objects,
           NEW n \in Nat, NEW D, IsFiniteSet(D), Cardinality(D) = n,
           D \cap Claims(o) = {}, Claims(o) \cup D \subseteq Claims(o)',
           mutex'[o].counter <= mutex[o].counter + n
    PROVE  mutex'[o].counter <= Cardinality(Claims(o)')
<1>1. /\ IsFiniteSet(Claims(o)) /\ Cardinality(Claims(o)) \in Nat
      /\ IsFiniteSet(Claims(o)') /\ Cardinality(Claims(o)') \in Nat
      /\ mutex[o].counter \in Nat /\ mutex'[o].counter \in Nat
      /\ mutex[o].counter <= Cardinality(Claims(o))
  BY ClaimsCounted DEF TypeOK, LocksAccounted
<1>2. Cardinality(Claims(o) \cup D) = Cardinality(Claims(o)) + n
  <2>1. Cardinality(Claims(o) \cap D) = 0
    BY FS_EmptySet
  <2>2. Cardinality(Claims(o) \cup D)
          = Cardinality(Claims(o)) + Cardinality(D) - Cardinality(Claims(o) \cap D)
    BY <1>1, FS_Union
  <2> QED BY <1>1, <2>1, <2>2
<1>3. Cardinality(Claims(o) \cup D) <= Cardinality(Claims(o)')
  BY <1>1, FS_Subset
<1> QED BY <1>1, <1>2, <1>3

\* one that n claims are dropped of is, if it is held less often by n, or free;
LEMMA AccountLess ==
    ASSUME TypeOK, TypeOK', LocksAccounted, NEW o \in Objects,
           NEW n \in Nat, NEW D, IsFiniteSet(D), Cardinality(D) = n,
           Claims(o) \ D \subseteq Claims(o)',
           mutex'[o].counter = 0 \/ mutex'[o].counter <= mutex[o].counter - n
    PROVE  mutex'[o].counter <= Cardinality(Claims(o)')
<1>1. /\ IsFiniteSet(Claims(o)) /\ Cardinality(Claims(o)) \in Nat
      /\ IsFiniteSet(Claims(o)') /\ Cardinality(Claims(o)') \in Nat
      /\ mutex[o].counter \in Nat /\ mutex'[o].counter \in Nat
      /\ mutex[o].counter <= Cardinality(Claims(o))
  BY ClaimsCounted DEF TypeOK, LocksAccounted
<1>2. Cardinality(Claims(o) \ D) >= Cardinality(Claims(o)) - n
  <2>1. /\ Cardinality(Claims(o) \ D) = Cardinality(Claims(o)) - Cardinality(Claims(o) \cap D)
        /\ Claims(o) \cap D \in SUBSET D
    BY <1>1, FS_Difference
  <2>2. Cardinality(Claims(o) \cap D) <= n /\ Cardinality(Claims(o) \cap D) \in Nat
    BY <2>1, FS_Subset, FS_CardinalityType
  <2> QED BY <1>1, <2>1, <2>2
<1>3. /\ Cardinality(Claims(o) \ D) <= Cardinality(Claims(o)')
      /\ Cardinality(Claims(o) \ D) \in Nat
  BY <1>1, FS_Subset, FS_CardinalityType
<1> QED BY <1>1, <1>2, <1>3

\* and so is one that is not held more often, with no claim dropped.
LEMMA AccountSame ==
    ASSUME TypeOK, TypeOK', LocksAccounted, NEW o \in Objects,
           Claims(o) \subseteq Claims(o)', mutex'[o] = mutex[o]
    PROVE  mutex'[o].counter <= Cardinality(Claims(o)')
<1>1. IsFiniteSet({}) /\ Cardinality({}) = 0
  BY FS_EmptySet
<1>2. mutex[o].counter \in Nat
  BY DEF TypeOK
<1> QED BY <1>1, <1>2, AccountMore

\* The threads whose locks a step leaves alone keep their claims; so nothing is
\* lost if the others had none.
LEMMA ClaimsKept ==
    ASSUME NEW o, NEW S, threadtab \ S \subseteq threadtab',
           \A t \in threadtab \ S : locked'[t] = locked[t] /\ lockedCount'[t] = lockedCount[t],
           \A t \in threadtab \cap S : locked[t] # o \/ lockedCount[t] = 0
    PROVE  Claims(o) \subseteq Claims(o)'
<1> SUFFICES ASSUME NEW c \in Claims(o) PROVE c \in Claims(o)'
  OBVIOUS
<1>1. /\ c \in threadtab \X (1..MaxDepth) /\ c[1] \in threadtab /\ c[2] \in 1..MaxDepth
      /\ locked[c[1]] = o /\ c[2] <= lockedCount[c[1]]
  BY DEF Claims
<1>2. c[1] \notin S
  <2>1. lockedCount[c[1]] # 0
    BY <1>1, ThreadsAssumption
  <2> QED BY <1>1, <2>1
<1>3. c[1] \in threadtab' /\ locked'[c[1]] = o /\ c[2] <= lockedCount'[c[1]]
  BY <1>1, <1>2
<1>4. c \in threadtab' \X (1..MaxDepth)
  BY <1>1, <1>3
<1> QED BY <1>3, <1>4 DEF Claims

\* Locking: the thread claims the lock once more, granted or not.
LEMMA LockObjAccounted ==
    ASSUME TypeOK, TypeOK', QueueInv, LocksAccounted, NEW o \in Objects, LockObj(o)
    PROVE  LocksAccounted'
<1> DEFINE k == lockedCount[cur]
           D == {<<cur, k + 1>>}
<1>1. /\ cur \in Threads /\ cur \in threadtab /\ threadtab \subseteq Threads
      /\ threadtab' = threadtab /\ MaxDepth \in Nat /\ k \in 0..MaxDepth /\ k < MaxDepth
      /\ locked \in [Threads -> Objects \cup {Null}] /\ mutex \in [Objects -> Mutexes]
      /\ lockedCount \in [Threads -> 0..MaxDepth]
  BY RunnerWaitsNot, ThreadsAssumption DEF LockObj, Instr, TypeOK, registry, Mutexes
<1>2. /\ \A t \in Threads : t # cur => locked'[t] = locked[t] /\ lockedCount'[t] = lockedCount[t]
      /\ locked'[cur] = o /\ lockedCount'[cur] = k + 1 /\ (k > 0 => locked[cur] = o)
  BY <1>1 DEF LockObj, HoldsAnother
<1>3. /\ mutex'[o].counter <= mutex[o].counter + 1
      /\ \A p \in Objects : p # o => mutex'[p] = mutex[p]
  <2>1. mutex[o].counter \in Nat
    BY <1>1 DEF Mutexes
  <2> QED BY <1>1, <2>1 DEF LockObj, Locked
<1>4. mutex'[o].counter <= Cardinality(Claims(o)')
  <2>1. IsFiniteSet(D) /\ Cardinality(D) = 1
    BY FS_Singleton
  <2>2. D \cap Claims(o) = {}
    BY <1>1 DEF Claims
  <2>3. D \subseteq Claims(o)'
    BY <1>1, <1>2 DEF Claims
  <2>4. Claims(o) \subseteq Claims(o)'
    <3> SUFFICES ASSUME NEW c \in Claims(o) PROVE c \in Claims(o)'
      OBVIOUS
    <3>1. /\ c \in threadtab \X (1..MaxDepth) /\ c[1] \in threadtab /\ c[2] \in 1..MaxDepth
          /\ locked[c[1]] = o /\ c[2] <= lockedCount[c[1]]
      BY DEF Claims
    <3>2. locked'[c[1]] = o /\ c[2] <= lockedCount'[c[1]]
      BY <1>1, <1>2, <3>1
    <3> QED BY <1>1, <3>1, <3>2 DEF Claims
  <2> HIDE DEF D
  <2> QED BY <1>3, <2>1, <2>2, <2>3, <2>4, AccountMore
<1>5. ASSUME NEW p \in Objects, p # o PROVE mutex'[p].counter <= Cardinality(Claims(p)')
  <2>1. locked[cur] # p \/ lockedCount[cur] = 0
    BY <1>1, <1>2, <1>5
  <2>2. Claims(p) \subseteq Claims(p)'
    <3> DEFINE S == {cur}
    <3>1. /\ threadtab \ S \subseteq threadtab'
          /\ \A t \in threadtab \ S : locked'[t] = locked[t] /\ lockedCount'[t] = lockedCount[t]
          /\ \A t \in threadtab \cap S : locked[t] # p \/ lockedCount[t] = 0
      BY <1>1, <1>2, <2>1
    <3> HIDE DEF S
    <3> QED BY <3>1, ClaimsKept
  <2> QED BY <1>3, <1>5, <2>2, AccountSame
<1> QED BY <1>4, <1>5 DEF LocksAccounted

\* Unlocking: the thread drops one claim at most, and the mutex is counted down.
LEMMA UnlockObjAccounted ==
    ASSUME TypeOK, TypeOK', QueueInv, LocksAccounted, NEW o \in Objects, UnlockObj(o)
    PROVE  LocksAccounted'
<1> DEFINE k == lockedCount[cur]
           D == {<<cur, k>>}
<1>1. /\ cur \in Threads /\ cur \in threadtab /\ threadtab \subseteq Threads
      /\ threadtab' = threadtab /\ MaxDepth \in Nat /\ k \in 0..MaxDepth
      /\ locked \in [Threads -> Objects \cup {Null}] /\ mutex \in [Objects -> Mutexes]
      /\ lockedCount \in [Threads -> 0..MaxDepth] /\ locked[cur] = o
  BY RunnerWaitsNot, ThreadsAssumption DEF UnlockObj, Instr, TypeOK, registry, Mutexes
<1>2. /\ \A t \in Threads : t # cur => locked'[t] = locked[t] /\ lockedCount'[t] = lockedCount[t]
      /\ k > 1 => locked'[cur] = o /\ lockedCount'[cur] = k - 1
  BY <1>1 DEF UnlockObj
<1>3. /\ mutex'[o].counter = 0 \/ mutex'[o].counter <= mutex[o].counter - 1
      /\ \A p \in Objects : p # o => mutex'[p] = mutex[p]
  <2>1. mutex[o] \in Mutexes
    BY <1>1
  <2> QED BY <1>1, <2>1 DEF UnlockObj, Unlocked, Unheld, Mutexes
<1>4. mutex'[o].counter <= Cardinality(Claims(o)')
  <2>1. IsFiniteSet(D) /\ Cardinality(D) = 1
    BY FS_Singleton
  <2>2. ASSUME NEW c \in Claims(o), c \notin D PROVE c \in Claims(o)'
    <3>1. /\ c \in threadtab \X (1..MaxDepth) /\ c = <<c[1], c[2]>>
          /\ c[1] \in threadtab /\ c[2] \in 1..MaxDepth
          /\ locked[c[1]] = o /\ c[2] <= lockedCount[c[1]]
      BY DEF Claims
    <3>2. c[1] = cur => c[2] < k /\ k > 1
      BY <1>1, <2>2, <3>1
    <3>3. locked'[c[1]] = o /\ c[2] <= lockedCount'[c[1]]
      BY <1>1, <1>2, <3>1, <3>2
    <3> QED BY <1>1, <3>1, <3>3 DEF Claims
  <2>3. Claims(o) \ D \subseteq Claims(o)'
    BY <2>2
  <2> HIDE DEF D
  <2> QED BY <1>3, <2>1, <2>3, AccountLess
<1>5. ASSUME NEW p \in Objects, p # o PROVE mutex'[p].counter <= Cardinality(Claims(p)')
  <2>1. Claims(p) \subseteq Claims(p)'
    <3> DEFINE S == {cur}
    <3>1. /\ threadtab \ S \subseteq threadtab'
          /\ \A t \in threadtab \ S : locked'[t] = locked[t] /\ lockedCount'[t] = lockedCount[t]
          /\ \A t \in threadtab \cap S : locked[t] # p \/ lockedCount[t] = 0
      BY <1>1, <1>2, <1>5
    <3> HIDE DEF S
    <3> QED BY <3>1, ClaimsKept
  <2> QED BY <1>3, <1>5, <2>1, AccountSame
<1> QED BY <1>4, <1>5 DEF LocksAccounted

\* The end of a thread: the mutex is counted down as often as it has claims on it.
LEMMA ReapAccounted ==
    ASSUME TypeOK, TypeOK', QueueInv, LocksAccounted, Reap
    PROVE  LocksAccounted'
<1> DEFINE k == lockedCount[cur]
           D == {cur} \X (1..k)
<1>1. /\ cur \in Threads /\ threadtab \subseteq Threads /\ threadtab' = threadtab \ {cur}
      /\ MaxDepth \in Nat /\ k \in 0..MaxDepth /\ k \in Nat
      /\ locked \in [Threads -> Objects \cup {Null}] /\ mutex \in [Objects -> Mutexes]
      /\ lockedCount \in [Threads -> 0..MaxDepth]
  BY CurrentLive, ThreadsAssumption DEF Reap, TypeOK, Mutexes
<1>2. \A t \in Threads : t # cur => locked'[t] = locked[t] /\ lockedCount'[t] = lockedCount[t]
  BY <1>1 DEF Reap
<1>3. ASSUME NEW p \in Objects
      PROVE  /\ locked[cur] = p => mutex'[p].counter = 0 \/ mutex'[p].counter <= mutex[p].counter - k
             /\ locked[cur] # p => mutex'[p] = mutex[p]
  <2>1. mutex[p].counter \in Nat /\ p # Null
    BY <1>1, ThreadsAssumption DEF Mutexes
  <2>2. mutex' = LocksGivenUp(cur)
    BY DEF Reap
  <2>3. locked[cur] = p => mutex'[p] = UnlockedTimes(mutex[p], k)
    BY <1>1, <2>1, <2>2 DEF LocksGivenUp
  <2>4. locked[cur] # p => mutex'[p] = mutex[p]
    BY <1>1, <2>2 DEF LocksGivenUp
  <2>5. LET r == UnlockedTimes(mutex[p], k) IN r.counter = 0 \/ r.counter <= mutex[p].counter - k
    <3>1. mutex[p] \in Mutexes
      BY <1>1
    <3> HIDE DEF k
    <3> QED BY <1>1, <3>1 DEF UnlockedTimes, Unheld, Mutexes
  <2> QED BY <2>3, <2>4, <2>5
<1>4. ASSUME NEW p \in Objects, locked[cur] = p PROVE mutex'[p].counter <= Cardinality(Claims(p)')
  <2>1. IsFiniteSet(D) /\ Cardinality(D) = k
    BY <1>1, ClaimsOfOne
  <2>2. ASSUME NEW c \in Claims(p), c \notin D PROVE c \in Claims(p)'
    <3>1. /\ c \in threadtab \X (1..MaxDepth) /\ c = <<c[1], c[2]>>
          /\ c[1] \in threadtab /\ c[2] \in 1..MaxDepth
          /\ locked[c[1]] = p /\ c[2] <= lockedCount[c[1]]
      BY DEF Claims
    <3>2. c[1] # cur
      BY <1>1, <2>2, <3>1
    <3>3. c[1] \in threadtab' /\ locked'[c[1]] = p /\ c[2] <= lockedCount'[c[1]]
      BY <1>1, <1>2, <3>1, <3>2
    <3>4. c \in threadtab' \X (1..MaxDepth)
      BY <3>1, <3>3
    <3> QED BY <3>3, <3>4 DEF Claims
  <2>3. Claims(p) \ D \subseteq Claims(p)'
    BY <2>2
  <2> HIDE DEF D
  <2> QED BY <1>1, <1>3, <1>4, <2>1, <2>3, AccountLess
<1>5. ASSUME NEW p \in Objects, locked[cur] # p PROVE mutex'[p].counter <= Cardinality(Claims(p)')
  <2>1. Claims(p) \subseteq Claims(p)'
    <3> DEFINE S == {cur}
    <3>1. /\ threadtab \ S \subseteq threadtab'
          /\ \A t \in threadtab \ S : locked'[t] = locked[t] /\ lockedCount'[t] = lockedCount[t]
          /\ \A t \in threadtab \cap S : locked[t] # p \/ lockedCount[t] = 0
      BY <1>1, <1>2, <1>5
    <3> HIDE DEF S
    <3> QED BY <3>1, ClaimsKept
  <2> QED BY <1>3, <1>5, <2>1, AccountSame
<1> QED BY <1>4, <1>5 DEF LocksAccounted

\* A waiter that is granted its lock has claimed it since it asked for it.
LEMMA RetryLockAccounted ==
    ASSUME TypeOK, TypeOK', QueueInv, LockInv, LocksAccounted, RetryLock
    PROVE  LocksAccounted'
<1> DEFINE o == ctx[cur].on
<1>1. /\ cur \in threadtab /\ cur \in Threads /\ UNCHANGED <<threadtab, locked, lockedCount>>
      /\ mutex \in [Objects -> Mutexes] /\ lockedCount \in [Threads -> 0..MaxDepth] /\ MaxDepth \in Nat
  BY CurrentLive, ThreadsAssumption DEF RetryLock, TypeOK, registry, Mutexes
<1>2. WaitsForLock(cur)
  BY DEF RetryLock, QueueInv, SavedNextLive, SweptQueue, WaitsForLock
<1>3. o \in Objects /\ locked[cur] = o /\ lockedCount[cur] > 0 /\ mutex[o].owner # cur
  BY <1>1, <1>2 DEF LockInv, WaitersHoldNothing
<1>4. \A p \in Objects : Claims(p)' = Claims(p)
  BY <1>1 DEF Claims
<1>5. \A p \in Objects : p # o => mutex'[p] = mutex[p]
  BY <1>1 DEF RetryLock
<1>6. CASE Lockable(mutex[o], cur)
  <2>1. mutex'[o].counter = 1
    BY <1>1, <1>3, <1>6 DEF RetryLock, Lockable, Locked, Mutexes
  <2>2. {<<cur, 1>>} \in SUBSET Claims(o)
    BY <1>1, <1>3 DEF Claims
  <2>3. /\ IsFiniteSet(Claims(o)) /\ Cardinality({<<cur, 1>>}) = 1
    BY ClaimsCounted, FS_Singleton
  <2> HIDE DEF o
  <2>4. 1 <= Cardinality(Claims(o))
    BY <2>2, <2>3, FS_Subset
  <2> QED BY <1>4, <1>5, <2>1, <2>4 DEF LocksAccounted
<1>7. CASE ~Lockable(mutex[o], cur)
  BY <1>4, <1>7 DEF RetryLock, LocksAccounted
<1> QED BY <1>6, <1>7

\* A loaded thread claims its lock as often as it was saved with; the mutex is
\* locked that often, or not at all.
LEMMA LoadAccounted ==
    ASSUME CheckpointInv, TypeOK', LockInv, LocksAccounted, NEW t \in Threads, LoadThread(t)
    PROVE  LocksAccounted'
<1> DEFINE n == image[t].count
           D == {t} \X (1..n)
<1>1. /\ t \in DOMAIN image /\ t \notin threadtab /\ threadtab' = threadtab \cup {t}
      /\ threadtab \subseteq Threads /\ TypeOK
      /\ n \in 0..MaxDepth /\ n \in Nat /\ MaxDepth \in Nat
      /\ mutex \in [Objects -> Mutexes] /\ Null \notin Objects
      /\ image[t].locked \in Objects \cup {Null}
  <2>1. t \in DOMAIN image /\ t \notin threadtab /\ ImageOK
    BY LoadedLocks DEF CheckpointInv
  <2>2. n \in 0..MaxDepth /\ image[t].locked \in Objects \cup {Null}
    BY <2>1, ImageRecords
  <2> HIDE DEF n
  <2>3. TypeOK /\ threadtab' = threadtab \cup {t}
    BY DEF CheckpointInv, LoadThread
  <2>4. MaxDepth \in Nat /\ Null \notin Objects /\ n \in Nat
    BY <2>2, ThreadsAssumption
  <2>5. threadtab \subseteq Threads /\ mutex \in [Objects -> Mutexes]
    BY <2>3 DEF TypeOK, Mutexes
  <2> QED BY <2>1, <2>2, <2>3, <2>4, <2>5
<1>2. /\ \A u \in Threads : u # t => locked'[u] = locked[u] /\ lockedCount'[u] = lockedCount[u]
      /\ locked'[t] = image[t].locked /\ lockedCount'[t] = n
  BY <1>1 DEF LoadThread, TypeOK
<1>3. ASSUME NEW p \in Objects PROVE Claims(p) \subseteq Claims(p)'
  <2> DEFINE S == {t}
  <2>1. /\ threadtab \ S \subseteq threadtab'
        /\ \A u \in threadtab \ S : locked'[u] = locked[u] /\ lockedCount'[u] = lockedCount[u]
        /\ \A u \in threadtab \cap S : locked[u] # p \/ lockedCount[u] = 0
    BY <1>1, <1>2
  <2> HIDE DEF S
  <2> QED BY <2>1, ClaimsKept
<1>4. ASSUME NEW p \in Objects, image[t].locked = p
      PROVE  mutex'[p].counter <= Cardinality(Claims(p)')
  <2>1. IsFiniteSet(D) /\ Cardinality(D) = n
    BY <1>1, ClaimsOfOne
  <2>2. D \cap Claims(p) = {}
    BY <1>1 DEF Claims
  <2>3. D \subseteq Claims(p)'
    BY <1>1, <1>2, <1>4 DEF Claims
  <2>4. mutex'[p].counter <= mutex[p].counter + n
    <3>1. mutex'[p] = LockedAgain(mutex[p], n) /\ mutex[p].counter \in Nat
      BY <1>1, <1>4 DEF LoadThread, Mutexes
    <3> HIDE DEF n
    <3> QED BY <1>1, <3>1 DEF LockedAgain
  <2> HIDE DEF D, n
  <2> QED BY <1>1, <1>3, <2>1, <2>2, <2>3, <2>4, AccountMore
<1>5. ASSUME NEW p \in Objects, image[t].locked # p
      PROVE  mutex'[p].counter <= Cardinality(Claims(p)')
  <2>1. mutex'[p] = mutex[p]
    BY <1>1, <1>5 DEF LoadThread
  <2> QED BY <1>1, <1>3, <2>1, AccountSame
<1> QED BY <1>4, <1>5 DEF LocksAccounted

\* Steps that leave the locks alone and end no thread.
LEMMA AccountFrame ==
    ASSUME TypeOK, TypeOK', LocksAccounted, UNCHANGED locks, threadtab \subseteq threadtab'
    PROVE  LocksAccounted'
<1>1. UNCHANGED <<locked, lockedCount, mutex>>
  BY DEF locks
<1>2. ASSUME NEW p \in Objects PROVE mutex'[p].counter <= Cardinality(Claims(p)')
  <2>1. Claims(p) \subseteq Claims(p)'
    BY <1>1 DEF Claims
  <2> QED BY <1>1, <2>1, AccountSame
<1> QED BY <1>2 DEF LocksAccounted

\* The steps of the running server.
LEMMA AccountStep ==
    ASSUME TypeOK, TypeOK', QueueInv, LockInv, LocksAccounted, [Next]_vars
    PROVE  LocksAccounted'
<1>1. CASE Loop /\ ~RetryLock /\ ~Reap
  <2>1. UNCHANGED locks /\ UNCHANGED threadtab
    BY <1>1 DEF Loop, StartRound, ResumeSleeper, SleepersDone, RetryIo, BlockedDone, RunDone,
       WakeFromSelect, SliceOver, registry
  <2> QED BY <2>1, AccountFrame
<1>2. CASE Instruction /\ \A o \in Objects : ~LockObj(o) /\ ~UnlockObj(o)
  <2>1. UNCHANGED locks /\ threadtab \subseteq threadtab'
    BY <1>2 DEF Instruction, Compute, QuotaExpires, Raise, Return, Sleep, Shutdown,
       SetQuotaOfGoneThread, SetHandler, LockRefused, Fork, Kill, ForceKill, SetThreadQuota,
       ReadFrom, AcceptConnection, CloseConnection, registry
  <2> QED BY <2>1, AccountFrame
<1>3. CASE Environment \/ UNCHANGED vars
  <2>1. UNCHANGED locks /\ UNCHANGED threadtab
    BY <1>3 DEF Environment, Alarm, InputArrives, vars, registry
  <2> QED BY <2>1, AccountFrame
<1>4. ASSUME NEW o \in Objects, LockObj(o) \/ UnlockObj(o) PROVE LocksAccounted'
  BY <1>4, LockObjAccounted, UnlockObjAccounted
<1> QED
  BY <1>1, <1>2, <1>3, <1>4, RetryLockAccounted, ReapAccounted DEF Next, Process, Done

\* Before restarts and after them, what is held is claimed by somebody alive.
LEMMA RestartAccounted ==
    ASSUME CheckpointInv, CheckpointInv', LockInv, LocksAccounted, [CheckpointNext]_ckvars
    PROVE  LocksAccounted'
<1>1. TypeOK /\ TypeOK' /\ QueueInv
  BY DEF CheckpointInv
<1>2. CASE Start
  <2>1. \A o \in Objects : mutex'[o].counter = 0
    BY <1>2 DEF Start, FreshMutexes, Unheld
  <2>2. \A o \in Objects : Cardinality(Claims(o)') \in Nat
    BY <1>1, ClaimsCounted
  <2> QED BY <2>1, <2>2 DEF LocksAccounted
<1>3. ASSUME NEW s \in Quotas, NEW b \in BOOLEAN, ScriptForks(s, b) PROVE LocksAccounted'
  <2>1. UNCHANGED locks /\ threadtab \subseteq threadtab'
    BY <1>3 DEF ScriptForks
  <2> QED BY <1>1, <2>1, AccountFrame
<1>4. ASSUME NEW t \in Threads, LoadThread(t) PROVE LocksAccounted'
  BY <1>1, <1>4, LoadAccounted
<1> QED BY <1>1, <1>2, <1>3, <1>4, StepCases, AccountStep

\* The system starts with nothing locked, nothing claimed and nobody stalled.
LEMMA RestartInit == CheckpointInit => LockInv /\ GrantInv /\ LocksAccounted
<1> SUFFICES ASSUME CheckpointInit PROVE LockInv /\ GrantInv /\ LocksAccounted
  OBVIOUS
<1>1. /\ Init /\ TypeOK /\ LockInv
      /\ acc = [t \in Threads |-> "value"] /\ mutex = [o \in Objects |-> Unheld]
  BY TypeInit, LockInit DEF CheckpointInit, Init
<1>2. GrantInv
  BY <1>1 DEF GrantInv, TypeOK
<1>3. \A o \in Objects : mutex[o].counter = 0 /\ Cardinality(Claims(o)) \in Nat
  BY <1>1, ClaimsCounted DEF Unheld
<1> QED BY <1>1, <1>2, <1>3 DEF LocksAccounted

\* The invariant of the locks through any number of checkpoints and restarts.
THEOREM RestartInvariance == CheckpointSpec => []RestartInv
<1>1. CheckpointSpec => [](LockInv /\ GrantInv /\ LocksAccounted)
  <2>1. CheckpointInv /\ CheckpointInv' /\ (LockInv /\ GrantInv /\ LocksAccounted)
          /\ [CheckpointNext]_ckvars => (LockInv /\ GrantInv /\ LocksAccounted)'
    BY RestartLocks, GrantStep, RestartAccounted
  <2> QED BY <2>1, RestartInit, CheckpointInvariance, PTL DEF CheckpointSpec
<1>2. CheckpointInv /\ (LockInv /\ GrantInv /\ LocksAccounted) => RestartInv
  BY DEF RestartInv
<1> QED BY <1>1, <1>2, CheckpointInvariance, PTL

\* A lock that is held is accounted for by the threads that have counted it,
\* those of them that a restart has brought back and those that still wait for
\* it included, so it becomes free when they unlock it or end.
THEOREM LocksStayAccounted == CheckpointSpec => []LocksAccounted
<1>1. RestartInv => LocksAccounted
  BY DEF RestartInv
<1> QED BY <1>1, RestartInvariance, PTL

\* A lock that names its owner names a living thread that knows of it, even if
\* a thread of that number has been saved, restored and has ended meanwhile.
THEOREM OwnersSurviveRestarts == CheckpointSpec => []NamedOwnersLive
<1>1. RestartInv => NamedOwnersLive
  BY DEF RestartInv, LockInv
<1> QED BY <1>1, RestartInvariance, PTL

\* Nothing but a granted lock leaves a thread in run_q that will not run: not
\* being saved while blocked, asleep or stalled in that way, and not being killed.
THEOREM OnlyGrantsStall == CheckpointSpec => []OnlyGrantedStall
<1>1. RestartInv => OnlyGrantedStall
  BY DEF RestartInv, GrantInv, OnlyGrantedStall
<1> QED BY <1>1, RestartInvariance, PTL
=============================================================================
