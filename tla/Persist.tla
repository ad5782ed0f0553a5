------------------------------ MODULE Persist ------------------------------
(***************************************************************************)
(* The heap in a checkpoint file (persist.c): save writes what can be      *)
(* reached from symtab and from the registers of the threads, each object  *)
(* once, with a number; load builds it again, elsewhere.                   *)
(*                                                                         *)
(* A file is a sequence of tokens, one for each call of save.  save and    *)
(* load are recursive over the objects in the same order; here what is     *)
(* still to be saved, or to be filled in, is a sequence.  Which threads    *)
(* are saved is the business of Checkpoint.                                *)
(***************************************************************************)
EXTENDS Collector

ASSUME PersistAssumption ==
    /\ IsFiniteSet(Cells) /\ IsFiniteSet(Registers)
    /\ Null \notin Nat /\ Undefined \notin Nat

NumRoots == NumBuckets + Cardinality(Registers)

\* Mutant: the links of the buckets are left to the next collection.
SavedSlots_unlinked(c) ==
    CASE kind[c] = "vector"     -> slot[c]
      [] kind[c] = "symbol"     -> <<Null, slot[c][Value]>>
      [] kind[c] = "connection" -> <<Null>>

\* The slots of an object that save saves in turn.  A connection is saved as
\* a row of NULLs: it is closed when it is loaded.
SavedSlots(c) ==
    CASE kind[c] = "vector"     -> slot[c]
      [] kind[c] = "symbol"     -> <<next[c], slot[c][Value]>>
      [] kind[c] = "connection" -> <<Null>>

\* bind_number and bind_object: one more entry in a table.
Bind(table, key, value) ==
    [k \in DOMAIN table \cup {key} |-> IF k = key THEN value ELSE table[k]]

\* checkpoint_now: symtab, then the registers of the threads in some order.
SavedRoots(order) == symtab \o [i \in DOMAIN order |-> reg[order[i]]]

\* What is still to be saved; what is written; the numbers of the objects met.
SaveStart(order) ==
    [todo |-> SavedRoots(order), tokens |-> << >>, number |-> << >>, next_n |-> 0]

\* What a call of save writes for x itself.
Token(s, x) ==
    CASE x = Null              -> [t |-> "N"]
      [] x = Undefined         -> [t |-> "S"]
      [] x \in DOMAIN s.number -> [t |-> "R", n |-> s.number[x]]
      [] OTHER                 -> [t |-> "O", n |-> s.next_n, kind |-> kind[x], name |-> name[x],
                                   finalize |-> x \in finalize, length |-> Len(SavedSlots(x))]

\* A call of save; of an object not met before, it goes on with the slots.
SaveStep(s) ==
    LET x == Head(s.todo)
        written == [s EXCEPT !.todo = Tail(@), !.tokens = Append(@, Token(s, x))]
    IN  CASE s.todo = << >> -> s
          [] s.todo # << >> /\ x \in {Null, Undefined} \cup DOMAIN s.number -> written
          [] OTHER -> [written EXCEPT !.todo = SavedSlots(x) \o @,
                                      !.number = Bind(@, x, s.next_n), !.next_n = @ + 1]

\* Every object is written once, so there is a call for each of the roots and of
\* the slots, and no more (a symbol has two: SY_NEXT, SY_VALUE).
SaveCalls == NumRoots + Cardinality(Cells) * (NumSlots + 1)

\* The file, and the numbers in it: what there is when all calls have returned.
File(order) ==
    LET saving[k \in 0..SaveCalls] ==
          IF k = 0 THEN SaveStart(order) ELSE SaveStep(saving[k - 1])
    IN  saving[SaveCalls]

\* load: objects by number, and the places whose value comes next; object 0
\* stands for the roots.  An 'R' to an object not yet met ends the server.
LoadStart(nroots) ==
    [objects |-> << >>, roots |-> [i \in 1..nroots |-> Null],
     holes |-> [i \in 1..nroots |-> [root |-> TRUE, n |-> 0, i |-> i]], failed |-> FALSE]

Fill(g, v) ==
    LET h == Head(g.holes)
    IN  [IF h.root THEN [g EXCEPT !.roots[h.i] = v] ELSE [g EXCEPT !.objects[h.n].slots[h.i] = v]
           EXCEPT !.holes = Tail(@)]

LoadToken(g, token) ==
    IF g.holes = << >> \/ g.failed THEN g ELSE
    CASE token.t = "N" -> Fill(g, Null)
      [] token.t = "S" -> Fill(g, Undefined)
      [] token.t = "R" -> IF token.n \in DOMAIN g.objects THEN Fill(g, token.n)
                          ELSE [g EXCEPT !.failed = TRUE]
      [] token.t = "O" ->
           LET h == Fill(g, token.n)
           IN  [h EXCEPT !.objects = Bind(@, token.n,
                            [kind |-> token.kind, name |-> token.name, finalize |-> token.finalize,
                             slots |-> [i \in 1..token.length |-> Null]]),
                         !.holes = [i \in 1..token.length |->
                                      [root |-> FALSE, n |-> token.n, i |-> i]] \o @]

Loaded(tokens, nroots) ==
    LET loading[k \in 0..Len(tokens)] ==
          IF k = 0 THEN LoadStart(nroots) ELSE LoadToken(loading[k - 1], tokens[k])
    IN  loading[Len(tokens)]

\* Mutant: the result of fread is not looked at.
Accepted_unchecked(g) == ~g.failed

\* checked_fread: at the end of the file before all is loaded, the server exits.
Accepted(g) == ~g.failed /\ g.holes = << >>

Orders == {o \in [1..Cardinality(Registers) -> Registers] :
             \A i, j \in DOMAIN o : o[i] = o[j] => i = j}

-----------------------------------------------------------------------------
\* A reference of a loaded object as SY_NEXT, and as a slot that mark follows.
LoadedNext(o) == IF o.kind = "symbol" THEN o.slots[1] ELSE Null
LoadedSlot(o, i) ==
    CASE o.kind = "vector"                -> o.slots[i]
      [] o.kind = "symbol" /\ i = Value   -> o.slots[2]
      [] OTHER                            -> Null

\* Where the object is that has a number, and any other value.
Place(number, used, v) ==
    IF \E c \in used : number[c] = v THEN CHOOSE c \in used : number[c] = v ELSE v

\* vm_restore_from: the heap is what was loaded, numbered so; without threads
\* nothing else is.
Restored(g, number, used, order, threads) ==
    LET copy(c) == g.objects[number[c]]
        place(v) == Place(number, used, v)
    IN  /\ kind' = [c \in Cells |-> IF c \in used THEN copy(c).kind ELSE "free"]
        /\ name' = [c \in Cells |-> IF c \in used THEN copy(c).name ELSE Null]
        /\ next' = [c \in Cells |-> IF c \in used THEN place(LoadedNext(copy(c))) ELSE Null]
        /\ slot' = [c \in Cells |-> [i \in Slots |->
                      IF c \in used THEN place(LoadedSlot(copy(c), i)) ELSE Null]]
        /\ finalize' = {c \in used : copy(c).finalize}
        /\ all_objects' = [i \in 1..Cardinality(used) |-> place(Cardinality(used) - i)]
        /\ symtab' = [b \in Buckets |-> place(g.roots[b])]
        /\ reg' = [r \in Registers |->
                     IF threads
                     THEN place(g.roots[NumBuckets + (CHOOSE i \in DOMAIN order : order[i] = r)])
                     ELSE Null]

\* The server dies and is started on the file just written, with its threads or
\* without (-t; the file is then read no further than symtab).  malloc may place
\* the objects anywhere; as addresses make no difference, they are placed where
\* they were.
Restart ==
    /\ pc = "checkpoint" /\ pc' = "mutate"
    /\ \E order \in Orders, threads \in BOOLEAN : \E f \in {File(order)} :
       \E g \in {Loaded(f.tokens, IF threads THEN NumRoots ELSE NumBuckets)} :
         /\ Accepted(g)
         /\ Restored(g, f.number, {c \in DOMAIN f.number : f.number[c] \in DOMAIN g.objects},
                     order, threads)
    /\ handle' = [c \in Cells |-> Null] /\ open' = {}
    /\ finalizable_chain' = << >> /\ UNCHANGED <<marked, gcvars>>

PersistNext == HeapNext \/ Restart

PersistSpec == HeapInit /\ [][PersistNext]_heapvars

-----------------------------------------------------------------------------
\* A checkpoint loads as the heap it was taken from, sharing, cycles, names and
\* buckets included, with its connections closed; nothing else is saved.
RoundTrip ==
    pc = "checkpoint" =>
       \A order \in Orders : \A f \in {File(order)} : \A g \in {Loaded(f.tokens, NumRoots)} :
          LET num(v) == IF v \in Cells THEN f.number[v] ELSE v
          IN  /\ Accepted(g)
              /\ DOMAIN f.number = Reachable
              /\ g.roots = [i \in 1..NumRoots |-> num(SavedRoots(order)[i])]
              /\ \A c \in Reachable : \A o \in {g.objects[f.number[c]]} :
                    /\ o.kind = kind[c] /\ o.name = name[c] /\ o.finalize = (c \in finalize)
                    /\ LoadedNext(o) = num(next[c])
                    /\ \A i \in Slots : LoadedSlot(o, i) = num(slot[c][i])

\* No proper beginning of a file, left by a crash in checkpoint_now, is ever
\* taken for a database with threads.
TruncatedRejected ==
    pc = "checkpoint" =>
       \A order \in Orders : \A tokens \in {File(order).tokens} :
          \A k \in 0..(Len(tokens) - 1) : ~Accepted(Loaded(SubSeq(tokens, 1, k), NumRoots))

-----------------------------------------------------------------------------
(* The inductive invariant behind these properties: that of the collector, *)
(* and that save leaves nothing out.                                       *)

\* What save does not write of a symbol, or of the links of another object, is
\* not there.
FieldsInv ==
    \A c \in Cells : /\ kind[c] # "symbol" => next[c] = Null
                     /\ kind[c] = "symbol" => \A i \in Slots \ {Value} : slot[c][i] = Null

\* The connections that read a string.
StringConnections == {c \in Cells : kind[c] = "connection" /\ slot[c][Handle] # Null}

\* Nothing refers to such a connection, so no checkpoint meets one.
StringsInv ==
    /\ \A r \in Registers : reg[r] \notin StringConnections
    /\ \A c \in Live : Children(c) \cap StringConnections = {}

PersistInv ==
    /\ HeapInv /\ FieldsInv /\ StringsInv
    /\ pc = "checkpoint" => Elements(all_objects) \subseteq Reachable
=============================================================================
