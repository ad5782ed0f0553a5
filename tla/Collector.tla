----------------------------- MODULE Collector -----------------------------
(***************************************************************************)
(* The heap of the server and its collector (gc.c): mark and sweep, the    *)
(* symbol table that every sweep rebuilds (newsym of object.c), and the    *)
(* chain of connections that are garbage but have to be closed             *)
(* (run_finalize_queue of main.c).                                         *)
(*                                                                         *)
(* A cell is a block that malloc may return.  Of an object the collector   *)
(* can tell apart: what mark follows (slot), whether it is a symbol, the   *)
(* link of its bucket (next), and whether it has a finalizer.  The name of *)
(* a symbol, which only the symbol refers to, is not a cell.  Null stands  *)
(* for NULL and for all tagged values but `undefined'.                     *)
(*                                                                         *)
(* The collector runs between two instructions.  Its loops are steps here; *)
(* the recursion of mark is a set of calls that are still to be made,      *)
(* taken in any order.                                                     *)
(***************************************************************************)
EXTENDS Naturals, Sequences, FiniteSets

CONSTANTS
    Cells, Null, Undefined,
    Registers,          \* what is protected: the registers of the threads
    NumSlots,
    Names, NumBuckets,
    HashOf,             \* the bucket of symtab for each name
    PrefixOf,           \* <<m, n>>: the name m is a prefix of n, or n itself
    Handles             \* file descriptors above 2

Slots == 1..NumSlots
Buckets == 1..NumBuckets
Value == 1              \* SY_VALUE, among the slots of a symbol
Handle == 1             \* CO_HANDLE, among those of a connection, if it is an object

ASSUME HeapAssumption ==
    /\ Null \notin Cells /\ Undefined \notin Cells /\ Null # Undefined
    /\ NumSlots \in Nat \ {0} /\ NumBuckets \in Nat \ {0}
    /\ HashOf \in [Names -> Buckets] /\ Null \notin Names /\ Null \notin Handles
    /\ PrefixOf \subseteq Names \X Names
    /\ \A n \in Names : <<n, n>> \in PrefixOf

VARIABLES
    kind,               \* of each cell; "free" when it belongs to malloc
    slot, next, name,   \* what mark follows; SY_NEXT; SY_NAME
    handle,             \* CO_HANDLE of a CONN_FILE connection, otherwise Null
    finalize, marked,   \* the cells with that bit
    all_objects, finalizable_chain,
    symtab,             \* the head of every bucket
    reg,
    open,               \* the descriptors the kernel has open for the server
    pc,                 \* which loop the server is in
    todo,               \* calls of mark to be made
    bucket, cursor,     \* i and curr of the loops over symtab
    rest                \* x of the sweep and what follows it

object == <<kind, slot, next, name, handle, finalize>>
gcvars == <<todo, bucket, cursor, rest>>
heapvars == <<object, marked, all_objects, finalizable_chain, symtab, reg, open, pc, gcvars>>

Refs == Cells \cup {Null, Undefined}
Elements(s) == {s[i] : i \in 1..Len(s)}
Push(s, x) == <<x>> \o s

\* The cells one gets to from those in start along the edges.
Closure(start, edges) ==
    {c \in Cells : \A S \in SUBSET Cells :
        (start \subseteq S /\ \A x \in S : edges[x] \subseteq S) => c \in S}

-----------------------------------------------------------------------------
(* The program between two collections.                                    *)

HeapInit ==
    /\ kind = [c \in Cells |-> "free"]
    /\ slot = [c \in Cells |-> [i \in Slots |-> Null]]
    /\ next = [c \in Cells |-> Null]
    /\ name = [c \in Cells |-> Null]
    /\ handle = [c \in Cells |-> Null]
    /\ finalize = {} /\ marked = {}
    /\ all_objects = << >> /\ finalizable_chain = << >>
    /\ symtab = [b \in Buckets |-> Null]
    /\ reg = [r \in Registers |-> Null]
    /\ open = {}
    /\ pc = "mutate" /\ todo = {} /\ bucket = 1 /\ cursor = Null
    /\ rest = << >>

Mutating == pc = "mutate" /\ UNCHANGED <<marked, finalizable_chain, pc, gcvars>>

Into(r, v) == reg' = [reg EXCEPT ![r] = v]

\* getmem: a block of that kind, at the head of all_objects.
Getmem(c, k) ==
    /\ kind[c] = "free"
    /\ kind' = [kind EXCEPT ![c] = k]
    /\ all_objects' = Push(all_objects, c)

\* Any object without a finalizer: vectors, objects, closures, frames, ...
NewVector(r) ==
    /\ Mutating
    /\ \E c \in Cells : Getmem(c, "vector") /\ Into(r, c)
    /\ UNCHANGED <<slot, next, name, handle, finalize, symtab, open>>

\* mkfileconn of a descriptor that accept or socket returned.
NewConnection(r) ==
    /\ Mutating
    /\ \E c \in Cells, h \in Handles \ open :
         /\ Getmem(c, "connection") /\ Into(r, c)
         /\ handle' = [handle EXCEPT ![c] = h]
         /\ finalize' = finalize \cup {c}
         /\ open' = open \cup {h}
    /\ UNCHANGED <<slot, next, name, symtab>>

\* The primitive `compile' reads the string through a newstringconn that nothing
\* refers to; it is closed if the parser got to the end of the string.
CompileString(r) ==
    /\ Mutating /\ reg[r] \in Cells /\ kind[reg[r]] = "vector"
    /\ \E c \in Cells, rest_of \in {reg[r], Null} :
         /\ Getmem(c, "connection")
         /\ slot' = [slot EXCEPT ![c][Handle] = rest_of]
         /\ finalize' = finalize \cup {c}
    /\ UNCHANGED <<next, name, handle, symtab, reg, open>>

\* Mutants: the connection goes on naming its descriptor, or its string.
ConnClose_open(c) ==
    /\ open' = open \ {handle[c]} /\ UNCHANGED <<slot, handle>>
ConnClose_string(c) ==
    /\ open' = open \ {handle[c]}
    /\ handle' = [handle EXCEPT ![c] = Null]
    /\ UNCHANGED slot

\* conn_close; on a closed connection it does nothing.
ConnClose(c) ==
    /\ open' = open \ {handle[c]}
    /\ handle' = [handle EXCEPT ![c] = Null]
    /\ slot' = [slot EXCEPT ![c][Handle] = Null]

CloseConnection(r) ==
    /\ Mutating /\ reg[r] \in Cells /\ kind[reg[r]] = "connection"
    /\ ConnClose(reg[r])
    /\ UNCHANGED <<kind, next, name, finalize, all_objects, symtab, reg>>

NextOf == [c \in Cells |-> {next[c]} \cap Cells]

\* The symbols of a bucket.
InBucket(b) == Closure({symtab[b]} \cap Cells, NextOf)

\* Mutant: only the head of the bucket is looked at.
Matching_head(n) ==
    {c \in {symtab[HashOf[n]]} \cap Cells : <<name[c], n>> \in PrefixOf}

\* newsym looks for a symbol whose name is a prefix of n: strncmp is given its length.
Matching(n) == {c \in InBucket(HashOf[n]) : <<name[c], n>> \in PrefixOf}

\* The first of them on the list: the others come after it.
FirstMatch(n) == {c \in Matching(n) : Matching(n) \subseteq Closure({c}, NextOf)}

\* newsym finds the symbol, or makes it and puts it at the head of its bucket.
Found(r, n) ==
    /\ \E c \in FirstMatch(n) : Into(r, c)
    /\ UNCHANGED <<object, all_objects, symtab>>

NewSymbol(r, n, c) ==
    /\ Getmem(c, "symbol") /\ Into(r, c)
    /\ slot' = [slot EXCEPT ![c][Value] = Undefined]
    /\ name' = [name EXCEPT ![c] = n]
    /\ next' = [next EXCEPT ![c] = symtab[HashOf[n]]]
    /\ symtab' = [symtab EXCEPT ![HashOf[n]] = c]
    /\ UNCHANGED <<handle, finalize>>

Intern(r, n) ==
    /\ Mutating /\ UNCHANGED open
    /\ \/ Found(r, n)
       \/ Matching(n) = {} /\ \E c \in Cells : NewSymbol(r, n, c)

\* Slots a program can read and write: all but those of connections.
HasSlot(c, i) == c \in Cells /\ (kind[c] = "vector" \/ (kind[c] = "symbol" /\ i = Value))

Load(r, s, i) ==
    /\ Mutating /\ HasSlot(reg[s], i) /\ slot[reg[s]][i] # Undefined
    /\ Into(r, slot[reg[s]][i])
    /\ UNCHANGED <<object, all_objects, symtab, open>>

Store(r, i, s) ==
    /\ Mutating /\ HasSlot(reg[r], i)
    /\ slot' = [slot EXCEPT ![reg[r]][i] = reg[s]]
    /\ UNCHANGED <<kind, next, name, handle, finalize, all_objects, symtab, reg, open>>

\* define-global of the value `undefined'.
Unbind(r) ==
    /\ Mutating /\ reg[r] \in Cells /\ kind[reg[r]] = "symbol"
    /\ slot' = [slot EXCEPT ![reg[r]][Value] = Undefined]
    /\ UNCHANGED <<kind, next, name, handle, finalize, all_objects, symtab, reg, open>>

Drop(r) ==
    /\ Mutating /\ reg[r] # Null /\ Into(r, Null)
    /\ UNCHANGED <<object, all_objects, symtab, open>>

-----------------------------------------------------------------------------
(* gc                                                                      *)

Collecting(here) == pc = here /\ UNCHANGED <<name, reg>>

\* vm_poll_gc at a safepoint, or run_main_loop when it has been idle.  mark of every root.
GcStart ==
    /\ Collecting("mutate")
    /\ pc' = "roots" /\ todo' = {reg[r] : r \in Registers} \cap Cells
    /\ UNCHANGED <<kind, slot, next, handle, finalize, marked, all_objects,
                   finalizable_chain, symtab, open, bucket, cursor, rest>>

\* Mutant: the last slot is missed.
Children_short(c) == {slot[c][i] : i \in 1..(NumSlots - 1)} \cap Cells

\* What mark calls itself for: everything but the SY_NEXT of a symbol.
Children(c) == {slot[c][i] : i \in Slots} \cap Cells

\* One call of mark.
Mark ==
    /\ UNCHANGED <<name, reg>> /\ pc \in {"roots", "symtab"}
    /\ \E c \in todo :
         /\ marked' = marked \cup {c}
         /\ todo' = (todo \ {c}) \cup IF c \in marked THEN {} ELSE Children(c)
    /\ UNCHANGED <<kind, slot, next, handle, finalize, all_objects, finalizable_chain,
                   symtab, open, pc, bucket, cursor, rest>>

RootsMarked ==
    /\ Collecting("roots") /\ todo = {}
    /\ pc' = "symtab" /\ bucket' = 1 /\ cursor' = symtab[1]
    /\ UNCHANGED <<kind, slot, next, handle, finalize, marked, all_objects,
                   finalizable_chain, symtab, open, todo, rest>>

\* A symbol is kept if it is used or if it has a value.
Kept(c) == slot[c][Value] # Undefined

MarkSymbol ==
    /\ Collecting("symtab") /\ todo = {} /\ cursor # Null
    /\ todo' = IF cursor \notin marked /\ Kept(cursor) THEN {cursor} ELSE {}
    /\ cursor' = next[cursor]
    /\ UNCHANGED <<kind, slot, next, handle, finalize, marked, all_objects,
                   finalizable_chain, symtab, open, pc, bucket, rest>>

\* The bucket is emptied; after the last one the sweep takes all_objects over.
BucketMarked ==
    /\ Collecting("symtab") /\ todo = {} /\ cursor = Null
    /\ symtab' = [symtab EXCEPT ![bucket] = Null]
    /\ \/ /\ bucket < NumBuckets
          /\ bucket' = bucket + 1 /\ cursor' = symtab[bucket + 1]
          /\ UNCHANGED <<pc, all_objects, rest>>
       \/ /\ bucket = NumBuckets
          /\ pc' = "sweep" /\ rest' = all_objects /\ all_objects' = << >>
          /\ bucket' = 1 /\ UNCHANGED cursor
    /\ UNCHANGED <<kind, slot, next, handle, finalize, marked, finalizable_chain,
                   open, todo>>

\* Mutant: objects in use are finalized too.
SweepFinalizable_used(c) ==
    /\ c \in finalize
    /\ finalize' = finalize \ {c}
    /\ finalizable_chain' = Push(finalizable_chain, c)
    /\ UNCHANGED <<kind, slot, next, handle, name, marked, all_objects, symtab>>

SweepFinalizable(c) ==
    /\ c \notin marked /\ c \in finalize
    /\ finalize' = finalize \ {c}
    /\ finalizable_chain' = Push(finalizable_chain, c)
    /\ UNCHANGED <<kind, slot, next, handle, name, marked, all_objects, symtab>>

\* What a freed block holds is gone.
SweepGarbage(c) ==
    /\ c \notin marked /\ c \notin finalize
    /\ kind' = [kind EXCEPT ![c] = "free"]
    /\ slot' = [slot EXCEPT ![c] = [i \in Slots |-> Null]]
    /\ next' = [next EXCEPT ![c] = Null]
    /\ name' = [name EXCEPT ![c] = Null]
    /\ handle' = [handle EXCEPT ![c] = Null]
    /\ UNCHANGED <<finalize, marked, all_objects, finalizable_chain, symtab>>

\* Mutants: symbols stay out of the table; the mark is not taken off.
SweepMarked_unlinked(c) ==
    /\ c \in marked /\ marked' = marked \ {c}
    /\ all_objects' = Push(all_objects, c)
    /\ UNCHANGED <<kind, slot, next, name, handle, finalize, finalizable_chain, symtab>>
SweepMarked_sticky(c) ==
    /\ c \in marked /\ UNCHANGED marked
    /\ all_objects' = Push(all_objects, c)
    /\ IF kind[c] = "symbol"
         THEN /\ next' = [next EXCEPT ![c] = symtab[HashOf[name[c]]]]
              /\ symtab' = [symtab EXCEPT ![HashOf[name[c]]] = c]
         ELSE UNCHANGED <<next, symtab>>
    /\ UNCHANGED <<kind, slot, name, handle, finalize, finalizable_chain>>

\* A symbol goes back to its bucket.
Relink(c) ==
    /\ next' = [next EXCEPT ![c] = symtab[HashOf[name[c]]]]
    /\ symtab' = [symtab EXCEPT ![HashOf[name[c]]] = c]

SweepMarked(c) ==
    /\ c \in marked /\ marked' = marked \ {c}
    /\ all_objects' = Push(all_objects, c)
    /\ \/ kind[c] = "symbol" /\ Relink(c)
       \/ kind[c] # "symbol" /\ UNCHANGED <<next, symtab>>
    /\ UNCHANGED <<kind, slot, name, handle, finalize, finalizable_chain>>

Sweep ==
    /\ pc = "sweep" /\ rest # << >>
    /\ SweepFinalizable(Head(rest)) \/ SweepGarbage(Head(rest)) \/ SweepMarked(Head(rest))
    /\ rest' = Tail(rest)
    /\ UNCHANGED <<reg, open, pc, todo, bucket, cursor>>

\* If it was run_main_loop that called gc, it finalizes; vm_poll_gc writes a
\* checkpoint if it was asked for one.  Until here it makes no difference who called.
Swept ==
    /\ Collecting("sweep") /\ rest = << >>
    /\ pc' \in {"finalize", "checkpoint", "mutate"}
    /\ UNCHANGED <<kind, slot, next, handle, finalize, marked, all_objects,
                   finalizable_chain, symtab, open, gcvars>>

\* checkpoint_now only reads the heap.
CheckpointWritten ==
    /\ pc = "checkpoint" /\ pc' = "mutate"
    /\ UNCHANGED <<object, marked, all_objects, finalizable_chain, symtab, reg, open, gcvars>>

\* One turn of run_finalize_queue: next_to_finalize and finalize_ovector.
Finalize ==
    /\ Collecting("finalize") /\ finalizable_chain # << >>
    /\ all_objects' = Push(all_objects, Head(finalizable_chain))
    /\ finalizable_chain' = Tail(finalizable_chain)
    /\ ConnClose(Head(finalizable_chain))
    /\ UNCHANGED <<kind, next, finalize, marked, symtab, pc, gcvars>>

\* Mutant: the queue is not run to its end.
Finalized_early ==
    /\ Collecting("finalize") /\ pc' = "mutate"
    /\ UNCHANGED <<kind, slot, next, handle, finalize, marked, all_objects,
                   finalizable_chain, symtab, open, gcvars>>

\* The main loop goes on, to block_until_event.
Finalized ==
    /\ Collecting("finalize") /\ finalizable_chain = << >> /\ pc' = "mutate"
    /\ UNCHANGED <<kind, slot, next, handle, finalize, marked, all_objects,
                   finalizable_chain, symtab, open, gcvars>>

Program ==
    \E r \in Registers :
       \/ NewVector(r) \/ NewConnection(r) \/ CloseConnection(r) \/ CompileString(r)
       \/ Unbind(r) \/ Drop(r)
       \/ \E n \in Names : Intern(r, n)
       \/ \E s \in Registers, i \in Slots : Load(r, s, i) \/ Store(r, i, s)

Gc ==
    \/ GcStart \/ Mark \/ RootsMarked \/ MarkSymbol \/ BucketMarked \/ Sweep \/ Swept
    \/ CheckpointWritten \/ Finalize \/ Finalized

HeapNext == Program \/ Gc

HeapSpec == HeapInit /\ [][HeapNext]_heapvars

-----------------------------------------------------------------------------
(* Properties.                                                             *)

\* Types of the heap.
HeapTypeOK ==
    /\ kind \in [Cells -> {"free", "vector", "symbol", "connection"}]
    /\ slot \in [Cells -> [Slots -> Refs]] /\ next \in [Cells -> Cells \cup {Null}]
    /\ name \in [Cells -> Names \cup {Null}] /\ handle \in [Cells -> Handles \cup {Null}]
    /\ finalize \subseteq Cells /\ marked \subseteq Cells /\ todo \subseteq Cells
    /\ all_objects \in Seq(Cells) /\ finalizable_chain \in Seq(Cells) /\ rest \in Seq(Cells)
    /\ symtab \in [Buckets -> Cells \cup {Null}] /\ reg \in [Registers -> Cells \cup {Null}]
    /\ open \subseteq Handles
    /\ pc \in {"mutate", "roots", "symtab", "sweep", "checkpoint", "finalize"}
    /\ bucket \in Buckets /\ cursor \in Cells \cup {Null}

\* What a program can still get at: from a register, or by the name of a global.
Roots == {c \in Cells : \E r \in Registers : reg[r] = c}
         \cup {c \in Cells : kind[c] = "symbol" /\ slot[c][Value] # Undefined}

Reachable == Closure(Roots, [c \in Cells |-> {slot[c][i] : i \in Slots} \cap Cells])

\* Between collections no reference dangles, even in what is garbage by now, and
\* none leads to a connection that waits for its finalizer.  Such a connection
\* itself may refer to a string that is freed already: gc does not mark it.
NoDangling ==
    pc \in {"mutate", "checkpoint", "finalize"} =>
       /\ Roots \subseteq Elements(all_objects)
       /\ \A c \in Elements(all_objects) : Children(c) \subseteq Elements(all_objects)

\* No step of a collection frees what a program can get at.
NothingLiveFreed ==
    [][\A c \in Cells : pc = "sweep" /\ kind[c] # "free" /\ kind'[c] = "free" => c \notin Reachable]_heapvars

\* A collection keeps nothing else: all that is left on all_objects is reachable.
NoFloatingGarbage ==
    [][pc = "sweep" /\ pc' # "sweep" => Elements(all_objects') = Reachable']_heapvars

\* Between collections the buckets hold exactly the symbols there are, each in
\* the bucket of its name, although every sweep rebuilds the table.
SymtabExact ==
    pc \in {"mutate", "checkpoint", "finalize"} =>
       \A b \in Buckets :
          InBucket(b) = {c \in Elements(all_objects) : kind[c] = "symbol" /\ HashOf[name[c]] = b}

\* No two symbols ever have the same name, so comparing symbols by address,
\* as the machine does, compares their names.
InternedOnce ==
    \A c, d \in Cells : kind[c] = "symbol" /\ kind[d] = "symbol" /\ name[c] = name[d] => c = d

\* Each open descriptor belongs to one connection that is not freed: none leaks
\* and none is closed, or read from, by a connection that no longer owns it.
HandlesOwned ==
    /\ open = {handle[c] : c \in Cells} \ {Null}
    /\ \A c, d \in Cells : handle[c] # Null /\ handle[c] = handle[d] => c = d

\* The finalizer closes no connection that a program can get at.
OnlyGarbageClosed ==
    [][\A c \in Cells : pc = "finalize" /\ handle[c] # handle'[c] => c \notin Reachable]_heapvars

\* When the server goes to sleep after finalization, every open connection is
\* one that a program can get at.
IdleClosesGarbage ==
    [][pc = "finalize" /\ pc' = "mutate" =>
         \A c \in Cells : handle[c] # Null => c \in Reachable]_heapvars

-----------------------------------------------------------------------------
(* The inductive invariant behind these properties.                        *)

Distinct(s) == \A i, j \in 1..Len(s) : s[i] = s[j] => i = j

\* Each allocated cell is on one list, once; what the lists hold.
ListsInv ==
    /\ Distinct(all_objects) /\ Distinct(finalizable_chain) /\ Distinct(rest)
    /\ Elements(all_objects) \cap Elements(finalizable_chain) = {}
    /\ Elements(all_objects) \cap Elements(rest) = {}
    /\ Elements(finalizable_chain) \cap Elements(rest) = {}
    /\ \A c \in Cells : kind[c] # "free" <=>
         c \in Elements(all_objects) \cup Elements(finalizable_chain) \cup Elements(rest)
    /\ pc # "sweep" => rest = << >>
    /\ finalize \subseteq Elements(all_objects) \cup Elements(rest)
    /\ \A c \in finalize \cup Elements(finalizable_chain) : kind[c] = "connection"

\* What the fields of a cell hold, by its kind; an open connection has its
\* finalizer or waits for it.
CellsInv ==
    \A c \in Cells :
       /\ kind[c] = "symbol" => name[c] \in Names
       /\ kind[c] = "connection" => \A i \in Slots \ {Handle} : slot[c][i] = Null
       /\ handle[c] # Null => c \in finalize \cup Elements(finalizable_chain)
       /\ kind[c] = "free" => \A i \in Slots : slot[c][i] = Null

\* What is not garbage: in a sweep, what was swept already and what is marked.
Live == IF pc = "sweep" THEN Elements(all_objects) \cup marked ELSE Elements(all_objects)

\* Roots are live and references from live objects lead to live objects.
LiveInv == Roots \subseteq Live /\ \A c \in Live : Children(c) \subseteq Live

\* Symbols that the loop over the symbol table has still to look at.
Pending == Closure({cursor} \cap Cells, NextOf)
           \cup UNION {InBucket(b) : b \in {d \in Buckets : d > bucket}}

\* Marking: references from marked objects lead to objects that are marked or
\* about to be; in a sweep marks are only on what is not swept yet.
MarkInv ==
    /\ pc \notin {"roots", "symtab"} => todo = {}
    /\ pc \in {"mutate", "checkpoint", "finalize"} => marked = {}
    /\ pc = "sweep" => marked \subseteq Elements(rest)
    /\ pc \in {"roots", "symtab"} =>
         /\ marked \cup todo \subseteq Elements(all_objects)
         /\ \A r \in Registers : reg[r] \in Cells => reg[r] \in marked \cup todo
         /\ \A c \in marked : Children(c) \subseteq marked \cup todo
    /\ pc = "symtab" =>
         /\ Pending \subseteq {c \in Elements(all_objects) : kind[c] = "symbol"}
         /\ \A c \in Cells : kind[c] = "symbol" /\ Kept(c) => c \in marked \cup todo \cup Pending

\* Marking goes no further than it must, and what is finalized is closed.
ExactInv ==
    /\ pc \in {"roots", "symtab"} => marked \cup todo \subseteq Reachable
    /\ pc = "sweep" => Live \subseteq Reachable
    /\ pc = "finalize" => \A c \in Elements(all_objects) : handle[c] # Null => c \in Reachable

\* The buckets hold the symbols on all_objects, but those emptied already.
SymtabInv ==
    \A b \in Buckets :
       InBucket(b) =
         IF pc = "symtab" /\ b < bucket THEN {}
         ELSE {c \in Elements(all_objects) : kind[c] = "symbol" /\ HashOf[name[c]] = b}

HeapInv == /\ HeapTypeOK /\ ListsInv /\ CellsInv /\ LiveInv /\ MarkInv /\ ExactInv
           /\ SymtabInv /\ HandlesOwned /\ InternedOnce
=============================================================================
