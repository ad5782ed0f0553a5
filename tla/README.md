# 3-MOVE in TLA+

3-MOVE is a server for programmable virtual worlds: objects with slots and
methods, a language (MOVE) with a compiler and a virtual machine, green threads,
object locks, sockets, a garbage collector and a database that is checkpointed
to a file.  It is one operating-system process without kernel threads; all
concurrency is the interleaving of green threads by the scheduler in
`src/move/thread.c`, at instruction granularity, together with peers of the
sockets, the clock, and the process being killed and restarted.

This directory holds TLA+ modules translated from that code, configurations
that check them with TLC, and proofs checked by TLAPS.  This file says what the
system consists of, what is modelled, what the checks and the proofs show, and
what is left.

## 1. Inventory

| Component | Source | State | Operations | Hard parts |
|---|---|---|---|---|
| Scheduler, main loop | `thread.c`, `main.c` | thread table, `num_active`, `next_number`; `run_q`, `block_q`, `sleep_q`; `current_thread`; idle counter | start, end, block, sleep, unblock a thread; one pass per queue; wait in `select` | passes walk a linked list while the threads they run relink it; when may the process sleep |
| Object locks | `recmutex.c`, `lockObjFun`/`unlockObjFun` | counter and owner per object; `vm_locked`, `vm_locked_count` per thread | lock, unlock, retry of waiters, release for ended threads | state set before the lock is granted; kill of waiters; no hold-and-wait |
| Virtual machine | `vm.c`, `vm.h`, `bytecode.h` | registers, stack of temporaries, frames, environments, quota, trap closure | instructions, calls, returns, exceptions, continuations | quota expiry or kill between any two instructions; what a continuation and a return restore; the stack on every way out of a call |
| Thread and system primitives | `PRIM.misc.c`, `PRIM.system.c` | none of their own | fork, kill, force-kill, sleep, quotas, handlers, shutdown | act on other threads in any state |
| Connections | `conn.c`, `PRIM.io.c` | type, handle, pushed-back character, partial line per reader | read a line, accept, write, close; resume a blocked reader | blocking in mid-line, newline conventions, closing under a reader |
| Checkpoints, restart | `vm.c`, `thread.c`, `persist.c`, `tricks/checkpoint*`, `db/cycle` | checkpoint file, its number; restored threads and locks | save at a safepoint, load, restart threads, clean up old files | crash while writing; locks and waiters across a restart |
| Collector | `gc.c` | object list, marks, roots, finalizer chain | mark, sweep, finalize | finalizable garbage, symbol table rebuilt in the sweep |
| Object model | `object.c`, `PRIM.object.c` | parents, location, contents, flags, owner | clone, set-parents, move-to | location and contents agree; cycles |
| Slots, methods, permissions | `slot.c`, `method.c`, `perms.c` | slot and method tables | lookup along parents, copy on write, checks | lookups that do not end |
| Hash tables | `hashtable.c` | chains and a count | get, put, remove, keys | the count |
| Compiler | `scanner.c`, `parser.c`, `buffer.c` | look-ahead, scopes, literals, code buffer | compile one form | which token the next form begins with; jump patching; where a variable lives |
| Boot scripts | `main.c` (`compile_main`) | one register file for all forms | compile a form, run it to its end | what a form leaves for the next |
| Primitive registry | `prim.c`, `primload.c`, `PRIM.compound.c` | table of functions | lookup; pure functions on vectors and strings | – |
| Barrier | `barrier.c` | counts, condition variable | hit, change the threshold | waits without a loop; the file is not linked into the server |
| World database | `db/*.move` | Registry, Login, rooms, players | MOVE programs | what is done under which lock |

How they interact: `run_main_loop` calls the three passes of `thread.c`; the
run pass calls `run_vm`, whose instructions call primitives; primitives call
back into `thread.c` (block, sleep, unblock), into `recmutex.c` and into
`conn.c`; the block pass calls `conn_resume_*` and `recmutex_lock` again on
behalf of the thread.  A primitive that blocks returns the value
`yield_thread`; it lands in the accumulator, and `run_vm` stops when it sees it
there.  Every instruction is a safepoint at which the collector and a pending
checkpoint may run.

What makes each part correct, in one line each: a thread is in exactly one
queue and every pass visits only live threads; a lock has one live holder, who
knows of it, and waiting never deadlocks; the process sleeps only if something
can wake it and nothing can be done; whoever is runnable, due or released gets
its turn; a checkpoint restores to a state the program could have been in; the
collector frees only what nobody can reach; the two directions of
containment agree; slots, methods and `isa` agree on what is inherited, and writing an inherited
slot changes nobody else's; a compiled program does what its text says, interrupted or not.

`PROJECT.json` lists the hazards found in the code, line by line, with the
properties that would catch them.

## 2. Modules

| Module | Models | State and actions |
|---|---|---|
| `RecMutex` | `recmutex.c` | a mutex is a record; `Lockable`, `Locked`, `Unlocked` are the functions of the file |
| `ThreadQueueOps` | `enq`, `deq` of `thread.c` | a queue is a sequence of thread numbers, head first |
| `MoveThreads` | scheduler, main loop, thread, lock and connection primitives | 2.1 |
| `LockMonitor` | the promise of `lock` and `unlock` | who holds, how deep, who waits |
| `Checkpoint` | `MoveThreads` with checkpoints and restarts | 2.2 |
| `CheckpointFiles` | checkpoint files, `checkpoint-cleanup`, `db/run`, `db/stop`, `db/cycle` | 2.3 |
| `Connection` | the line reader of `conn.c` | 2.4 |
| `Collector` | `gc.c`, `newsym`, `run_finalize_queue` | 2.5 |
| `Persist` | `save` and `load` of `persist.c`, on top of `Collector` | 2.5 |
| `HashTables` | `hashtable.c` | operators on a table: chains and the count |
| `Objects` | `object.c`, `PRIM.object.c`, `slot.c`, `method.c`, `perms.h` | 2.6 |
| `Bytecode` | `bytecode.h`, values and literals | what compiler and machine share |
| `Compiler` | `parser.c` | 2.7: operators from a compiler state to the next |
| `Machine` | `run_vm` and what it calls in `vm.c` | 2.7: an action per instruction |
| `BootScript` | `compile_main`, `compile` | 2.7: `Compiler` and `Machine` composed |
| `Language` | – | 2.7: what MOVE programs mean, the reference |
| `CommonLemmas` | – | what the queue operations return; induction over the natural numbers |
| `MoveThreadsProofs`, `CheckpointProofs`, `CheckpointFilesProofs`, `ConnectionProofs`, `HeapProofs`, `ObjectsProofs`, `MachineProofs` | – | theorems, section 4 |
| `MCMoveThreads`, `MCCheckpoint`, `MCCheckpointFiles`, `MCConnection`, `MCHeap`, `MCObjects`, `MCPrograms` | – | instances for TLC, one `.cfg` per run |

An operator whose name has a suffix after `_` and whose comment begins with
"Mutant" is what a plausible bug would make of the operator after it.  No
specification uses one; `PROJECT.json` says which property each would break.

### 2.1 MoveThreads, LockMonitor

The state follows the code: the thread table with `num_active` and
`next_number`; the three queues and the `queue` field; `contextkind` and
`context` (`ctx`); of the machine only what the scheduler can tell apart: is the
accumulator `yield_thread` (`acc`), the kind of quota or dying (`vmState`), is
there an exception handler (`trap`), the lock it counts (`locked`,
`lockedCount`).  `mutex` is the lock of each object, `conn` what a read or an
accept would find.  `phase`, `cur` and `next` are the program counter of the
main loop and the two variables of the pass under way; `ticks` is what is left
of the time slice, `idle` is `idle_loops`.

Actions: one per turn of a loop of the server (`StartRound`, `ResumeSleeper`,
`RetryIo`, `RetryLock`, `BlockedDone`, `SliceOver`, `Reap`, `WakeFromSelect`,
...) and one per kind of instruction (`LockObj`, `UnlockObj`, `Fork`, `Kill`,
`Sleep`, `ReadFrom`, ...).  An action is the whole handler: `LockObj` sets
`vm_locked` and its count, tries the mutex, and blocks the thread if that
failed, because `lockObjFun` does all three.  Another thread cannot run between
them; it can between any two instructions.

Abstractions.
- What a program computes is arbitrary: in its slice a thread may execute any
  instruction (`Compute` for all that change nothing here).  A primitive that
  refuses its arguments or the caller's permissions is `Compute` or `Raise`.
- Time is the set `due` of sleepers whose alarm has gone off; `time(NULL)` is
  read once before the pass over `sleep_q`, so nobody becomes due during it.
- A connection is `idle` (a read would block), `ready`, or `closed`.  A read of
  a ready connection may consume a part of a line and block.
- Exception handlers are closures, not primitives: a primitive installed as
  handler would run inside `vm_raise`.  Stack overflow is `Return`.
- Memory never runs out; the safepoint's collection does not touch this state.
  Boot scripts leave no lock held and no thread blocked.
- `UndisturbedWaiters`: if TRUE, programs kill no thread that waits for a lock
  and no dying thread starts to wait for one.  It is an assumption on programs,
  used for the lock promise only (`monitor`), and the run `killedwaiter` shows that
  without it the promise is broken.

Bounds (constants, arbitrary in the proofs): `MaxThreads` threads are ever
started, as numbers are not reused; `Slice` instructions per slice (2000 in the
build); `MaxDepth` nested locks of one object.  `IdleLimit` is the code's 5.

In `LockMonitor` every object has a holder, a depth and a set of waiters; only the holder
releases, and a thread that ends gives up what it holds and nothing else.
`ImplementsMonitor` maps the holder and depth to the mutex records, the waiters
to the threads of `block_q` with a lock context and the living threads to the
thread table.

### 2.2 Checkpoint

`MoveThreads` plus `image`, the threads in the newest checkpoint file, `pending`
(`SYNCH_CHECKPOINT`), and the state of a server that is starting.  `CheckpointFun`
only asks; `TakeCheckpoint` is the safepoint before the next instruction of whichever
thread runs, and saves of each thread that is not dying and not without quota the
registers, not its queue or context.  The server may be killed between any two
steps and is started again with or without the saved threads.  They are loaded one
by one (`toLoad`) in any order, as threads in `run_q`, and those that had counted a
lock take it again while no thread is current, so that the owner in the mutex is 0.
Boot scripts may fork threads meanwhile.

Not modelled: a checkpoint asked for by a boot script; files written in part (2.3)
and what the heap looks like in one (2.5).  `MaxRestarts` bounds how often the
server is started.  The run `restart` does not check for deadlock, since a server that
has exited and has no start left really has stopped.

### 2.3 CheckpointFiles

Three kinds of processes: the server, which opens `move.checkpoint.NNN` under its
final name, writes and closes it; `checkpoint-cleanup`, which makes a list
of the files to remove and then removes them one at a time; and the operator's scripts.
The server can die anywhere, and so leave a file that is written in part, which no
later server can load.  Whether `fopen` fails is arbitrary.  The world is a version
number that the server raises at will; a file is `none`, `whole` or `part` with the
version it was opened for.

Assumed of the operator: what `db/run`, `db/stop` and `db/cycle` are for, in that
order: the server is stopped, then the newest whole checkpoint is cycled into
`db`, and only then is the server started (`Boot` requires that no whole checkpoint is left
beside `db`).  That matters, because `checkpoint_suffix` starts at 0 in every process while
the cleaner keeps the *highest* numbers.  Further: `KeepNum` is at least 2 (`db/run` says 6)
and between two cycles `fopen` fails less than `KeepNum` times, since every failure
uses up a number, and `checkpoint-cleanup` knows nothing of that.

### 2.4 Connection

One file connection, several threads that read lines from it, and the peer, who
chooses one of three newline conventions and sends any characters in any portions.
An ordinary character is its own position in the input, so that loss, duplication and
reordering are visible.  `part` is the partial line (`buf` and `offs`) of each thread
blocked in `conn_gets`; `eatNl` is the value -2 in `CO_UNGETC`, which outlives the call.
`ReadFrom`, `Resume` (a turn of the pass over `block_q`), `Kill`, `Close`, `Send`,
`PeerEnds`.  `crossed` records that a thread began to read while another was in the
middle of a line, or was killed there.

Characters are returned as `signed char`, as on x86: 0xFF is taken for `CONN_RET_ERROR` and
0xFE for `CONN_RET_BLOCK` (`Plain` is input without them).  Not modelled: NUL
bytes, output, string connections (whole input at hand, no blocking), set-up of sockets.
Bounds: `MaxSent` characters of input; `LineMax` is 1023 in the build.

### 2.5 Collector and Persist

A cell is a block of memory that `malloc` may return.  Of an object the model keeps what
`mark` follows: `slot`, the bucket link `next` of a symbol, and whether it has a
finalizer.  Between collections the program may do anything (`NewVector`, `Load`, `Store`,
`Intern`, `Unbind`, opening and closing connections), and the collector may run
at any safepoint: thresholds and `curr_heapsize` are not modelled.  `mark` is recursive;
here `todo` is the set of calls to make, in any order, which covers the code's.
The sweep goes cell by cell and rebuilds the symbol table; dead connections move to
`finalizable_chain` and are closed when the server is idle.

Names are values, not cells; `newsym` compares with `strncmp` up to the length
of the name *in the table*, so a name may be interned as a longer one of which it
is a prefix (`PrefixOf`).  `Null` is NULL and every tagged value but `undefined`.  `CompileString` is the
string connection that `compile` makes for itself, which nothing refers to.  What can be reached is what
the registers and the symbols with a value lead to.

`Persist` adds the file: a sequence of tokens, one per call of `save`, with a number for
each new object and a reference for one met before; `load` reads it back, and a file cut
short is rejected by `checked_fread`.  `save` and `load` are recursive over the objects; here
what is still to be saved (`todo`), or to be filled in (`holes`), is a sequence, and the file is what
there is after `SaveCalls` calls: as every object is written once, no heap takes more.  `Restart` goes on
with the loaded heap, every object in the cell it had (`Place`), since addresses make no difference.  Not
modelled: the old database format, the width of numbers.

### 2.6 HashTables and Objects

A table is one sequence of links per bucket and the count in element 0.  As in the code,
`hashtable_remove` leaves the count alone.  Programs' own tables (`make-hashtable`) are not
modelled.

`Objects` has one action per primitive that changes an object: `Clone`, `MoveTo`,
`SetParents`, `SetOwner`, `SetGroup`, `SetPrivileged`, `SetObjectFlags`, `SlotSet`, `AddSlot`,
`SetSlotOwner`, `SetSlotFlags`, `ClearSlot`, `AddMethod`, `SetMethodOwner`, `SetMethodFlags`,
`Strip`.  `u` is the effective user.  A primitive that refuses changes nothing and is
not an action.  Flags are sets of permissions, groups flat sets (in the code they
may nest).  `Search` is the depth-first search that `findslot`, `findmethod` and `isa`
have in common; one that goes deeper than there are objects has come back to one of them and
never ends (`Never`).  What the three do differently is what they do after a vector of
parents none of which has the name: `findslot` and `isa` give up, `findmethod` starts over
(`EndOfMethods`).  `SearchForEver` is the server lost in such a search, with
`lost` set; nothing happens after it, which is why `objects` does not check for deadlock.

Vectors of parents are values here.  In the code `clone` and `set-parents` keep the program's
own vector, which it may change later without the checks these primitives make.

### 2.7 Compiler, Machine, BootScript and Language

`Compiler` is `parser.c` as operators on a record `c`: the tokens to come (`toks`) and how many
of them the scanner has given away (`held`, for `scan_result` and `other_scan_result`), `was_close_brace`
(`brace`), the code buffer, the literals, the scopes and the templates finished.  Each function of the file is an
operator that takes `c` to the `c` after it, tokens dropped and bytes emitted, and an `ERR` makes `ok`
FALSE, after which nothing matters.  Jumps are patched into bytes already emitted, modulo 2^16.  What
`held` counts is what the next form does not get to see: `parse` starts with an empty look-ahead.

`Machine` is one thread's register file, `m`, with the heap it reaches; its actions are the opcodes, by
their names in `bytecode.h`.  Beside calls and returns that means: `ApplyClosure` (a closure, a primitive,
a continuation, or `invalid-callable`), `Raise` (`vm_raise`: a frame, a continuation of the whole stack, the handler on an empty
stack), `Resume` (a continuation puts stack and frame back).  The primitives that
compiled code cannot do without, and those that change users, flags and owners (`set-object-flags`, `set-method-flags`,
`set-setuid`, `set-privileged`, `clone`), are `ApplyPrim`, each with its checks.  `QuotaExpires` and `Killed` are
`vm_raise` from outside, between two instructions.  A pop of the empty stack gives what was first in it (`bottom`) and
kills the thread.  Four things make the state `wild`, after which nothing happens: a read or write outside a vector, a
frame or the stack; an operand that is not there or does not number what the instruction takes it for (`Decoded`; the
code tests nothing of it); `vm_raise` within `vm_raise` without end; and an application of data that
`apply_closure` mistakes for something to call (`Mistaken`): of a vector that begins with 2, 3 or 5, of an object with
the flags 4, 6 or 10, or of the empty vector, which has no first element to be read.

`MachineSpec` is this machine with any code: `NewForm` adds any well-typed templates, with any literals, and applies the last as a
form of `vm_uid`, with or without a quota; the quota may run out and the thread be killed at any time.  It is what
the theorems speak of; that the compiler and `compile_main` (`BootScript`) make no other steps, `programs` checks.

`BootScript` runs a program.  `Load` is a turn of the loop of `compile_main`: parse one form, apply it
on the registers the last one left; `Step` is an instruction; `Begin` runs the program in a thread
instead, as `compile` and `begin_thread` do, where `Interrupt` may raise an exception before any instruction, up
to `MaxRaises` times.  A program that has come to its end stops, so `programs` does not check for deadlock.

`Language` is written against the language and not the machine: an evaluator on expressions with
environments, a store and outcomes (a value, a return, an escape to a continuation, death), with
no code, stack, frame or register; only the integer arithmetic and the permission bits are shared with `Machine`.
`MCPrograms` writes expressions as tokens, with as few parentheses as the grammar allows, and so
checks precedence and where statements end; `Answers` is what `Language` says each form prints.

Abstractions.  Tokens come from outside: `scanner.c` is not modelled.  Integers have 8 bits (`Bits`), as
tagged words have 62.  Objects have one parent and no group (`Objects` has the rest).  Strings are not
values of `Machine` (whether one is called, `apply_closure` would tell from its first bytes, as for a vector); no native
code but the listed primitives; no thread but the one.  `caller-effuid` is checked against a given answer, and so is going back into a function that has returned, which `Language` cannot do.

## 3. Properties and runs

Times are for two workers on two cores.

| Run | Instance | Distinct states | Time |
|---|---|---|---|
| `safety` | 2 threads, 2 objects, 1 connection, 1 listening socket, slice 2, idle limit 2, depth 2 | 3,324,822 | 133 s |
| `monitor` | 3 threads, 2 objects, depth 2, undisturbed waiters | 979,309 | 90 s |
| `live` | 2 threads, 1 object, 1 connection, fairness | 49,070 | short |
| `restart` | 2 threads, 1 object, 1 restart | 1,422,663 | 57 s |
| `files` | numbers 0..4, keep 2, versions 0..4, 1 failure | 147,968 | 8 s |
| `lines` | 2 readers, lines of 2, input of 4 characters | 286,362 | 61 s |
| `heap` | 3 cells, 2 registers, 2 slots, 2 names, 2 buckets, 1 descriptor | 2,569,057 | 160 s |
| `objects` | 3 objects, 2 names in one chain, 2 values, 2 effective users | 30,350 | 72 s |
| `programs` | 1104 programs of one to a dozen forms | 70,930 | 55 s |
| `killedwaiter` | 2 threads, 1 object | `LockedMeansHeld` violated | |
| `grantedwaiter` | 2 threads, 1 object | `RunnableCanRun` violated | |
| `restoredlock` | 1 thread, 1 object, 1 restart | `SelectCanWake` violated | |

**Threads** (`safety`, `monitor`, `live`)
- `QueuesPartition`: each registered thread is in the one queue its `queue`
  field names, once; `num_active` counts them.
- `SavedNextLive`: the `next` pointer that a pass has read before running a
  thread is, when followed, still a live thread of that queue.
- `NoOrphanLock`: a held lock has a live owner whose `vm_locked` names it and who
  has counted it at least as often as the mutex.
- `WaitersHoldNothing`: no hold-and-wait, hence no deadlock among lock waiters.
- `SelectCanWake`, `SelectMissesNothing`: the process sleeps only if a sleeper or
  an open connection can wake it, and never on a lock that is free or a reader
  whose connection is closed; `select` knows nothing of either.
- `ImplementsMonitor`: as long as no waiter is killed, the code implements `LockMonitor`.
  `LockedMeansHeld`, that the thread's own view of its lock agrees with the mutex, is what
  `killedwaiter` shows to fail otherwise.
- `RunnableServed`, `SleeperWakes`, `ClosedConnReleases`, `DyingReaped`: liveness.

**Checkpoints** (`restart`, `files`)
- `QueueInv`: queues and numbers stay in order whichever threads come back.
- `LocksAccounted`, `NamedOwnersLive`: restored locks have no owner, so
  `NoOrphanLock` does not survive a restart; this is what does.
- `OnlyGrantedStall`: the only thread in `run_q` that will not run is one that was granted a lock.
- `ProgressKept`, `NoRegress`, `WriterUndisturbed`: whatever dies in the middle of
  whatever, some whole file has the last completed checkpoint, no server is started on an older
  world, and the cleaner never takes the file that is being written.

**Connections** (`lines`)
- `LinesInOrder`: `read-from` returns the lines of the input, in order, for any convention
  and any portions, as long as readers do not cross, and as many lines as the input has; the reference is a definition over
  the whole input.
- `CharsOnce`: what is left of that when they do.
- `ReaderReleased`: a waiting reader is released when there is something to get.

**Heap** (`heap`)
- `NothingLiveFreed`, `NoFloatingGarbage`: the sweep frees exactly what is unreachable.
- `NoDangling`: between collections nothing refers to a freed cell.
- `SymtabExact`, `InternedOnce`: the rebuilt table is exact, and a name has one symbol.
- `HandlesOwned`, `OnlyGarbageClosed`, `IdleClosesGarbage`: a descriptor has one owner; what is
  closed is garbage; all of it is closed.
- `RoundTrip`, `TruncatedRejected`: a checkpoint loads as the heap it was taken from; no
  proper beginning of it loads.

**Objects** (`objects`)
- `ContentsAgree`: the contents of an object are the objects located in it, each once.
- `LookupsAgree`: slots, methods and `isa` follow one order of inheritance, given as a
  definition of its own (`Line`); it says exactly when a search for a method
  never ends.  It has `TablesOK` in it: a name is once in its chain, and `enumerate_keys` stays within its vector.
- `SlotWrites`: a write changes the slot for the object and those who inherit from it, and
  for nobody else; `slot-set` hands on the owner and the permissions.

**Programs** (`programs`)
- `RightAnswer`: what each form leaves in the accumulator is what `Language` says, also when it was
  interrupted after any instruction and a handler went on with `k(acc)`.
- `NothingLeft`: the stack of temporaries is empty when a form has returned.
- `FormsKept`: each form is read to its end and not beyond, except for the forms that lose the
  token after them (below), which are named.
- `FormEnds`: every form returns or dies of an exception, unless it sleeps; so none reads or writes out of bounds,
  executes an operand, loops for ever, or raises exceptions without end.
- `PowersKept`: a step of a program that is not privileged changes no global, no handler and no privilege, and makes nobody
  the effective user whom no frame and no setuid method made so already.  This holds until the state is `wild`, and
  is no claim about programs that apply data which pass for a closure (`Mistaken`); none of the runs does.
- `MachineSpec`: the boot script, with what the compiler makes of the programs, is a case of the machine with any code,
  in which each form begins as the real user.

### Why the bounds are enough

Threads: two threads are what any pairwise interference
needs: one runs while the other is the saved `next`, waits, or holds.  The
third thread is added where two can wait for one thing, or where the running
thread moves one thread while another is saved.  Slice 2 lets two instructions of one
thread be followed by a pass; the runs with slice 1 still interleave every instruction
with every pass.  An idle limit of 2 separates "one idle round" from "sleep", depth 2
separates "unlock" from "release".

Checkpoints: one restart shows what a restored thread may do to an ordinary
one; a second restart starts from an image of the same kind.  Four numbers and two kept files make
the cleaner remove some, a new server begin at 0 below old numbers, and one failure leave a hole.

Connections: a line of two characters is full before its end; four characters hold two ends
of lines with a return and a newline each, or a line and a half on either side of an end.

Heap: three cells are a cycle, something that refers to it, or a symbol, its value and a
connection; two names, one a prefix of the other, share a bucket.  One descriptor is
enough for its reuse.  Cells and registers are symmetric.

Objects: with three objects there are diamonds, chains, vectors of two parents and cycles.
Placement, inheritance, tables and permissions hardly depend on one another, so `MCSpec` takes steps
into four slices of the state space: `Places` (owners and locations, no slots), `Inheritance`
(any hierarchy of two objects below Root; those without cycles with slots or with methods), `Chaining` (one
object whose table holds two names in one chain, and up to `MaxCount` counted) and `Permissions`
(Root and a user, and at most `MaxChanges` things that are not as the boot scripts make them: owners,
groups, flags, slots or methods, and theirs).  Cycles matter only for searches that do not end, so they need no
slots.  The actions are those of `Objects`; a slice only leaves out states.

Programs: a family per mechanism, complete within the family.  Precedence: every pair of 15 binary
operators, grouped both ways.  Control: every pair of 18 statements on a variable, both ways of the condition.
Lookahead: each of 11 forms that end in an expression with each of 8 ways to end it.  Exceptions: each failure that
the instructions used have, without a handler and with four kinds of handlers.  Functions, object forms (with each
kind of permission refused), places, and places gone back to: programs by hand.  Threads: six programs
that between them stop in the middle of operands, an argument vector, a loop, a call, a method and a
changed effective user, interrupted once after any instruction, and one of them twice.  `StackLength` is the
build's 1024, which none of them comes near.

### Fairness

`FairSpec` (`live`).  The process is a loop that is never suspended for ever:
weak fairness of `Process` as a whole, not of single instructions, so programs
may loop or choose any instruction for ever.  The clock advances whatever the
process does: strong fairness of `Alarm(t)`, strong because the clock is looked
at only between passes over `sleep_q`.  Peers may stay silent; nothing is
assumed about `InputArrives`.  The liveness properties allow for `exit` and for
the crash of `set-thread-quota`.  `FairConnSpec` (`lines`): weak fairness of `Resume(r)`, as
every round of the main loop retries every blocked reader.
`BootScript!Spec` (`programs`): weak fairness of `Step`, as `compile_main` calls `run_vm` until it has ended; nothing
is assumed of `Load` or `Interrupt`.

### What was found

Runs that are violated:
- `killedwaiter`: `lockObjFun` sets `vm_locked` and the count before the lock is
  granted (`PRIM.object.c` 231-233).  A thread killed while waiting keeps both.
  With a handler it goes on running as if it held the lock and its `unlock`, or
  the unlock loop at its end, decrements the lock of the real holder.
- `grantedwaiter`: the retry of a lock moves the thread to `run_q` without
  `unblock_thread` (`thread.c` 309-310), so the accumulator stays `yield_thread`,
  at which `run_vm` stops at once (`vm.c` 386).  A thread that had to wait for a
  lock never runs again, holds the lock for ever, and keeps the server from
  ever being idle.
- `restoredlock`: restored threads take their locks while there is no current thread
  (`thread.c` 225), so the owner is 0: a thread that locks the same object again waits for itself.

Behaviour that the models have as it is, without a run of its own:
- `set-thread-quota` of a thread that is gone dereferences NULL (`SetQuotaOfGoneThread`).
- `findmethod` (`method.c` 65-87) lacks the `break` of `findslot` (`slot.c` 72): looking for a method
  in an object with a vector of parents that has no such method, even on the way to a parent that
  has it, never ends and hangs the server (`EndOfMethods`, `SearchForEver`).
- `hashtable_remove` does not lower the count: after `clear-slot`, `slots` returns a vector
  whose last words were never initialised (`Remove1`).
- `set-parents` accepts cycles, after which searches may not end.
- A thread that is granted its lock and then checkpointed does run after a restart
  (`OnlyGrantedStall`).

In the compiler and the machine, left out of the programs where a property would fail:
- `return` inside an operand or an argument (`f(if (c) return 1; ...)`) leaves what was pushed before
  it on the stack for good: `OP_RET` (`vm.c` 643) restores no `vm_top`.  Against `NothingLeft`.
- `OP_CALL` and `OP_MOV_SLOT_A` pop their operand before they raise (`vm.c` 680) and do not step over
  themselves: a handler that goes on runs them again without it.  Against `FormEnds`; `Endless` leaves these
  out, with the handlers that would be called again for ever.
- `apply_closure` tests only for NULL and tagged values and then goes by `closure->type` (`vm.c` 107-154).  Where that
  lies, a vector has the low half of its first element and an object its flags: a vector that begins with 2, 3 or 5 is taken
  for a closure, a primitive or a continuation, and its next elements for the method and `self`, or for a frame and a
  stack, whatever they are.  `Machine` follows this no further (`Mistaken`, `wild`), so that what it
  says of the effective user, of frames and of continuations is not said of such programs.
- `vm_raise` with a handler that cannot be applied raises in `vm_raise`, without end (`vm.c` 316).
- A token read beyond the end of a form is lost to the next one (`parse`, `parser.c` 1231): `x = {...}` or
  an `if` without `else` takes the next token along (`LosesNext`; modelled, and `FormsKept` says so).  An
  explicit `;` after a `}` in a block is an error, although `parser.c` 526 is there to "ignore extra semicolons".
- `define` in a function body without braces adds a variable after the vector for them was sized, and is
  written beyond it (`parser.c` 1003).  The 256th literal of a function is the first (`parser.c` 189).
- `OP_NEG` and `OP_BNOT` raise a type error unless the top of the stack, too, is a number (`NUMOP`), where
  `bytecode.h` 80 says `A <- -A` (modelled; the programs have them as right operands of numbers).
- Division by zero with a handler: the `ip++` of `NUMOP` comes after `vm_raise`, so the handler begins at its
  second byte (`vm.c` 818).
- A form that dies of an exception leaves its registers; the next one is applied on top of them and its last
  `OP_RET` goes back into the dead form (`main.c` 104).  A parse error with a handler installed runs the
  handler then.
- A boot script that sleeps hangs the server (`main.c` 116); `FormEnds` names it.
- A continuation applied to nothing reads beyond its arguments (`vm.c` 153).  A thread that dies as its quota expires
  executes one more instruction (`vm.c` 392; modelled as the state `last`).
- In the scanner, which is not modelled: a comment without a newline at the end of the input never ends
  (`scanner.c` 181), and a name at the very end of the input is dropped.

## 4. Theorems

All by TLAPS, for any constants that satisfy the named assumptions of the modules
(`ThreadsAssumption`, `RestartsAssumption`, `FilesAssumption`, `ConnectionAssumption`, `HeapAssumption`,
`PersistAssumption`, `HashAssumption`, `ObjectsAssumption`, `MachineAssumption`): any number of threads, objects, restarts, checkpoints, characters, cells, and any length of the
machine's stack.
`ObjectsAssumption` says that there are finitely many objects, and that an object is not a vector;
`PersistAssumption`, of theorems about checkpoints only, that cells and registers are finitely many, and that neither NULL
nor `undefined` is a number of an object in a file.  The
three theorems marked * hold for programs with `UndisturbedWaiters`; the run `killedwaiter` shows why.

| Module | Theorem | States |
|---|---|---|
| `MoveThreadsProofs` | `TypeCorrect` | `Spec => []TypeOK` |
| | `Invariance` | `Spec => []IndInv` |
| | `QueuesPartitioned` | `Spec => []QueuesPartition` |
| | `PassesSafe` | `Spec => []SavedNextLive` |
| | `LocksHaveOwners` | `Spec => []NoOrphanLock` |
| | `NoHoldAndWait` | `Spec => []WaitersHoldNothing` |
| | `CountsAgree` *, `LockedIsHeld` * | `Spec` implies that `MonitorInv`, `LockedMeansHeld` always hold |
| | `LocksAreMonitors` * | `Spec => ImplementsMonitor`: the refinement of `LockMonitor` |
| | `PassesThorough` | `Spec => []PassInv` |
| | `NothingMissed`, `SelectWakes` | `Spec` implies that `SelectMissesNothing`, `SelectCanWake` always hold |
| `CheckpointProofs` | `CheckpointInvariance` | `CheckpointSpec => []CheckpointInv` |
| | `QueuesSurviveRestarts` | `CheckpointSpec => []QueueInv` |
| | `OnlyRestartableSaved` | `CheckpointSpec => []ImageOK` |
| | `RestartInvariance` | `CheckpointSpec => []RestartInv` |
| | `LocksStayAccounted`, `OwnersSurviveRestarts`, `OnlyGrantsStall` | `CheckpointSpec` implies that `LocksAccounted`, `NamedOwnersLive`, `OnlyGrantedStall` always hold |
| `CheckpointFilesProofs` | `FilesCorrect` | `FilesSpec => []FilesInv` |
| | `CheckpointsKept`, `WriterSafe` | `FilesSpec` implies that `ProgressKept`, `WriterUndisturbed` always hold |
| | `NeverOlder` | `FilesSpec => NoRegress` |
| `ConnectionProofs` | `ConnInvariance` | `ConnSpec => []ConnInv` |
| | `LinesRead`, `CharsGivenOnce` | `ConnSpec` implies that `LinesInOrder`, `CharsOnce` always hold |
| `HeapProofs` | `HeapInvariance` | `HeapSpec => []HeapInv` |
| | `NothingDangles`, `TableExact`, `SymbolsUnique`, `DescriptorsOwned` | `HeapSpec` implies that `NoDangling`, `SymtabExact`, `InternedOnce`, `HandlesOwned` always hold |
| | `CollectorSafe`, `CollectorExact` | `HeapSpec` implies `NothingLiveFreed`, `NoFloatingGarbage` |
| | `FinalizerSafe`, `FinalizerComplete` | `HeapSpec` implies `OnlyGarbageClosed`, `IdleClosesGarbage` |
| | `PersistInvariance` | `PersistSpec => []PersistInv` |
| | `CheckpointsRoundTrip`, `CheckpointsWhole` | `PersistSpec` implies that `RoundTrip`, `TruncatedRejected` always hold |
| | `HeapSafeAcrossRestarts` | `PersistSpec` implies that `NoDangling`, `SymtabExact`, `InternedOnce`, `HandlesOwned` always hold |
| | `CollectorExactAcrossRestarts` | `PersistSpec` implies `NothingLiveFreed`, `NoFloatingGarbage`, `OnlyGarbageClosed`, `IdleClosesGarbage` |
| `ObjectsProofs` | `ObjectsInvariance` | `ObjectsSpec => []ObjectsInv` |
| | `ContainmentAgrees` | `ObjectsSpec => []ContentsAgree` |
| | `LookupsCorrect` | `ObjectsSpec => []LookupsAgree` |
| | `SlotsWrittenBelow` | `ObjectsSpec => SlotWrites` |
| `MachineProofs` | `MachineInvariance` | `MachineSpec => []MachineInv` |
| | `CapturedUnchanged` | `MachineSpec => CapturedKept` |
| | `PowersNotGained` | `MachineSpec => PowersKept` |

**Threads.**  Three layers, each using the ones before.

1. `TypeOK` is inductive by itself; `CommonLemmas` gives what `enq` and `deq`
   return.
2. `QueueInv` adds to `QueuesPartition` and `SavedNextLive` that threads which are
   blocked or asleep have yielded, and that numbers not given out are not
   registered.  The partition is preserved because every move is a `deq` from the
   queue the thread names followed by an `enq` (`EnqueuedPartition`).  The saved
   pointer stays valid because only the current thread leaves the swept queue in a
   pass over `sleep_q` or `block_q`, and in the run pass other threads are only ever
   moved *into* `run_q`; a thread is freed only when it is the current one.
3. `LockInv` is `NamedOwnersLive` and `WaitersHoldNothing`, and that a waiter waits for the object
   in its `vm_locked`, which it has counted.  It needs layer
   2: the thread that executes is registered and, since its accumulator is not
   `yield_thread`, is not a waiter.  The refusal of a second object is what makes
   `LockObj` preserve it; that `Unlocked` never raises a counter or invents an owner is
   what makes a stray unlock by a killed waiter harmless to it.  As no lock is restored in
   `MoveThreads` every held lock names an owner (`HeldLocksOwned`), and `NoOrphanLock` follows.

**The lock promise.**  `LockInv` allows a thread to count a lock that it does not hold, as a killed
waiter does.  `MonitorInv` is what holds without such threads: the counts of threads and mutexes are
equal, a waiter has asked once, and one that waits is not dying.  `StepKinds` sorts the actions into those
that leave locks and their waiters alone, which stutter, and the five that do not;
`MapStep` maps each of these to the step of the monitor that it is.

**Sleeping in `select`.**  `PassInv` says of which threads the pass over `block_q` knows that they have nothing to do:
those in front of the current one, as long as the pass has woken nobody.  It is preserved because a thread that blocks
again is put at the head of the queue, among them, and because what the pass does to one thread (a retry of
a read, of a lock) cannot help another without moving somebody into `run_q`.  When `select` is reached with an empty
`run_q` the pass has dealt with all.

**Restarts.**  `CheckpointInv` is `TypeOK`, `ImageOK`, `QueueInv` and `BootInv`: a
thread is loaded once, under a number that nobody has, and nothing runs before the last one is.
`RestartInv` adds `LockInv`, which survives a restart because it speaks only of locks that name an owner
(`HeldLocksOwned` does not: a restored lock names none), `GrantInv` (a thread in `run_q` that has yielded was granted its lock)
and `LocksAccounted`, whose count of claims is the cardinality of a finite set that every action changes by at most one
member.  Steps of `MoveThreads` are taken from `MoveThreadsProofs`.

**Checkpoint files.**  `FilesInv`: types; `ProcessesInv` (one of the operator's scripts at a time, and only
while nothing else runs; an open file is the number taken last); `PartsInv` (where files written in part can be: to
begin file n with nothing whole below it, `fopen` must have failed n times); `DoomedInv` (what is on the cleaner's
list is older than some whole file, also when the list is stale); `NewestInv` (where the last completed
checkpoint is, in each state of `db/cycle`).  The bound on failures is what keeps a part left by an earlier server from
being among the newest files that the cleaner keeps.

**Connections.**  `conn_gets` is a loop, here a recursive function of the position in the input.  What it
returns is proved by induction on that position, from the well-foundedness of the natural numbers
(`InductionOnNat`), one character at a time: `ConnInv` holds after each, of the input read so far.  Its parts: the peer's
convention, what `eatNl` means under each, who may have a part of a line, and `BegunInv`: the part is the
line that the input ends in the middle of (`Begun`, and `Width` for lines that are cut at `LineMax`).

**Heap.**  `HeapInv` has nine parts: types; `ListsInv` (the lists of the collector are disjoint,
without repetitions, and hold every cell in use), `CellsInv` (what a cell of each kind holds),
`LiveInv` (roots, and what live cells refer to, are live), `MarkInv` (the children of a marked cell are
marked or in `todo`, and a symbol with a value is marked, in `todo` or `Pending`, where the loop over the
symbol table has not come to it), `ExactInv` (whatever is marked can be
reached), `SymtabInv` (which symbols each bucket holds, at every point of the two loops over it),
and `HandlesOwned` and `InternedOnce`.  Reachability is a least set (`Closure`), so
that the proofs need no induction: what is marked when nothing is pending is closed and contains
the roots, hence contains what is reachable (`MarkInv`), and conversely (`ExactInv`).  Freeing garbage
leaves `Reachable` as it was, which carries both through the sweep.

**Checkpoints of the heap.**  The run takes a heap of three cells; here a heap of any size is saved and loaded again.
`save` and `load` are followed one call, one token at a time, by `InductionOnNat`, with three invariants.

1. Of `save` (`Saves`): each call has written one token; the objects met have the numbers 0 .. m - 1, one each, and whatever
   they refer to has been met or is still to be saved.  The number of calls is at most `NumRoots` and `NumSlots + 1` for
   each object met, hence at most `SaveCalls`: when that many have been made, nothing is left to be saved (`AllSaved`).
   What was met is closed and contains the roots, and all of it was reached: it is `Reachable` (`FileReachable`).
2. Of `load` (`Follows`), which runs beside `save`: after as many tokens as there were calls, there are as many holes as
   values still to be saved, in the same order, and every other place holds what stands for the value that was saved there.
   So no 'R' comes before its object, and the last token fills the last hole (`LoadedCopies`).
3. Of a file that was cut: as many places are open as calls of `save` were still to come, at least one
   (`TruncatedOpen`).

`PersistInv` is `HeapInv` with what makes this the same heap again: `FieldsInv` (the fields that `save` does not write are NULL),
`StringsInv` (the one connection that has something `save` would leave out, the string that is being compiled, is
referred to by nothing), and that at a checkpoint all that is listed can be reached, as `checkpoint_now` comes right
after a collection.  `Restart` preserves it because the loaded heap is the old one cut down to what was saved, a
closed set that has the symbol table (`RestartIs`, `PlacedBack`); without the threads' registers that is less than
what could be reached.  What the collector promises then holds across restarts too.

**Containment.**  `PlaceInv` is `ContentsAgree` with the types it needs and the fact that an object that does not exist
yet is nowhere; without it `Clone` could find its new object in some list already.  `LeftList` and
`PushFrontLemma` give what leaving and entering a list of contents do.

**Slots and methods.**  `ObjectsInv` is `PlaceInv`, types, and `TablesOK`.  Of tables: `PutGet` (what can be found after a
`put`), `PutWellFormed`, `RemoveWellFormed`, and that the number of keys is the sum of the lengths of the chains.
A search is characterised as the solution of its recursion (`IsSearch`, with `FindSlotIs`,
`FindMethodIs`, `FindAncestorIs`), so that two searches can be compared depth by depth.  `SearchBelow` compares the search
for a slot before and after x gets one: it changes only where it comes to x, and then x is found by
`isa`; this needs no acyclicity.  `SearchesAgree` compares a search with `Line`, under `Acyclic`: by `Settled`, no chain of
parents is longer than there are objects, so that neither is cut short and each object's result is
made from its parents'; an object for which they differ and for none of whose parents they do, which `Acyclic` provides, is a
contradiction.

**Machine.**  `MachineInv` says what is in every register, cell, object and global: a value refers to cells, objects and
templates that exist; what `vm.c` takes from memory without a test of its type (the frame to return to, the method of a closure,
the user of a frame, the values of a captured stack) has that type; frames return to older ones, parents are older than their
children, and no stack, present or captured, is longer than `StackLength`.  It is inductive by itself.  The operators of
`Machine` take a state to a state and are composed, so each is shown once, for any state of which `MachineOK` holds, to be
`Sound` (`MachineOK` holds of the new state, and what has been `Captured` is as it was) and, unless the effective user is
privileged, `Harmless` (`NothingGained`, too); `SoundTwice` and `HarmlessTwice` compose them.  Each instruction then has a
lemma, from its operators and from `Decoded`, and `StepTo` puts these together.  Of the
code it is assumed only that it is bytes.  Where it takes the machine out of bounds, or applies data that
`apply_closure` mistakes for something to call, the state is `wild`: all three theorems hold up to there and
claim nothing of what the process does next.  In particular `PowersNotGained` is about code that applies no such data; it
is not the claim that the server keeps to its permissions whatever it is given.  Handlers, continuations, killing and quotas are in it, and so is a form applied to the
registers that a dead one has left.  The recursive functions (`Find` along the parents, `Scope`, `FromBits`) are handled
by `InductionOnNat`.

**Time limits.**  A leaf that takes a prover more than about a second names the prover and its limit (`SMTT`, `ZenonT`).  All
proofs also check with every limit cut to a quarter (`tlapm --stretch 0.25`), which is the margin left for a slower machine.

**Only model-checked.**  `RightAnswer`, `NothingLeft`, `FormsKept` of `programs`, which
say something of the output of the recursive `Compiler`, against the recursive `Language`, and `MachineSpec`, that
`BootScript` is a case of the machine, as it reaches the same recursion; and the
liveness properties `RunnableServed`, `SleeperWakes`, `ClosedConnReleases`, `DyingReaped`, `ReaderReleased`, `FormEnds`.
The prover can do neither.  All other properties of the passing runs are theorems.  `OnlyRestartableSaved` and the
inductive invariants but `QueueInv`, and `CapturedKept`, are proved and no longer run; each was checked by TLC before it was proved.

## 5. Plan

The order was: the scheduler and its locks, as everything runs under it; what survives a
crash; connections; the heap; objects; the compiler and the machine.  All of that is written.  Next:

1. `Registry` and `Login`: the locking protocols of the MOVE programs on top of `LockMonitor`.
2. `ThreadQueues`: the doubly linked lists at pointer level, refining `ThreadQueueOps`
   (theorem: `enq` and `deq` preserve well-formedness).
3. Sharing of vectors of parents, programs' own hash tables; a run of `findmethod` against
   the exception that `vm.c` 625 raises.
4. `Scanner`, over classes of characters; `Barrier`.

The runs are kept to what can be checked in a few minutes each; new ones are to replace those
they make redundant.

Theorems worth proving next: that `enq` and `deq` of item 2 preserve well-formed lists; that a search for a method ends
exactly where `LookupsAgree` says, as an equivalence; of `Machine`, that the registers a frame holds are those it was pushed
with when it is returned to, as a refinement of a machine with a stack of activations.

## 6. Not modelled

The primitive table and the pure primitives on strings and vectors: functions of
their input, for which tests are better suited; for the same reason `scanner.c`, `buffer.c`, strings as
operands of `+` and in `element-ref`.  `OP_AT` and the two instructions that move the frame, which the compiler never
generates.  The overflow of the stack of temporaries, which is in `PushOn` but is reached by no
program.  Output to connections, DNS and socket set-up: pure I/O.  `barrier.c` is not linked
into the server.  The world's content (`db/room.move`, `tricks/*.move` and the like), except for the two
locking protocols named in the plan.
