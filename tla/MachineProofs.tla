---------------------------- MODULE MachineProofs ----------------------------
(***************************************************************************)
(* Theorems about the virtual machine, whatever code it runs: what it      *)
(* takes from memory unchecked is what it takes it for, what has been      *)
(* captured in frames, continuations and closures is never changed, and a  *)
(* program without a privilege gains none.                                 *)
(*                                                                         *)
(* Every operator of Machine takes a machine to another; each is shown to  *)
(* be Sound, and all but the privileged ones to be Harmless.               *)
(***************************************************************************)
EXTENDS Machine, CommonLemmas

-----------------------------------------------------------------------------
(* What there is remains.                                                  *)

Sound(s, t)    == MachineOK(t) /\ Captured(s, t)
Harmless(s, t) == Sound(s, t) /\ NothingGained(s, t)

LEMMA Lengths ==
    ASSUME NEW s, MachineOK(s)
    PROVE  /\ Len(s.mem) \in Nat /\ DOMAIN s.mem = 1 .. Len(s.mem)
           /\ Len(s.objs) \in Nat /\ DOMAIN s.objs = 1 .. Len(s.objs)
           /\ Len(s.tmpls) \in Nat /\ DOMAIN s.tmpls = 1 .. Len(s.tmpls)
           /\ Len(s.stack) \in Nat /\ DOMAIN s.stack = 1 .. Len(s.stack)
           /\ \A i \in 1 .. Len(s.mem) : s.mem[i] \in Memory(s)
BY DEF MachineOK, RegistersOK, MemoryOK, Stacks

\* What has a cell of a kind, field by field.
LEMMA FrameIs ==
    ASSUME NEW s, NEW c \in Memory(s), "frame" \in DOMAIN c
    PROVE  c \in [frame : [code : 0 .. Len(s.tmpls), ip : Int, self : Values(s), env : Values(s),
                           frame : Frames(s), meth : {NullV} \cup Methods(s), effuid : Users(s)]]
BY DEF Memory

LEMMA MethodIs ==
    ASSUME NEW s, NEW c \in Memory(s), "method" \in DOMAIN c
    PROVE  c \in [method : [argc : Nat, code : DOMAIN s.tmpls, env : Values(s), owner : Users(s),
                            setuid : BOOLEAN, flags : Int]]
BY DEF Memory

LEMMA ClosureIs ==
    ASSUME NEW s, NEW c \in Memory(s), "closure" \in DOMAIN c
    PROVE  c \in [closure : [meth : Methods(s), self : Values(s)]]
BY DEF Memory

LEMMA VectorIs ==
    ASSUME NEW s, NEW c \in Memory(s), "vec" \in DOMAIN c
    PROVE  c \in [vec : Seq(Values(s)) \ {<< >>}]
BY DEF Memory

LEMMA ContinuationIs ==
    ASSUME NEW s, NEW c \in Memory(s), "cont" \in DOMAIN c
    PROVE  c \in [cont : [frame : Frames(s), stack : Stacks(s)]]
BY DEF Memory

\* A larger set of elements has more sequences.
LEMMA LongerSeq == ASSUME NEW S, NEW T, S \subseteq T PROVE Seq(S) \subseteq Seq(T)
OBVIOUS

\* A sequence is one of its own elements.
LEMMA OfItsElements == ASSUME NEW S, NEW q \in Seq(S) PROVE q \in Seq(Range(q))
BY DEF Range

LEMMA SeqExcept ==
    ASSUME NEW S, NEW q \in Seq(S), NEW i \in 1 .. Len(q), NEW x \in S
    PROVE  [q EXCEPT ![i] = x] \in Seq(S) /\ Len([q EXCEPT ![i] = x]) = Len(q)
OBVIOUS

\* s has no more than t in which to find a value, and what it has is of its kind.
Grown(s, t) ==
    /\ DOMAIN s.mem \subseteq DOMAIN t.mem
    /\ DOMAIN s.objs \subseteq DOMAIN t.objs
    /\ Len(s.tmpls) \in Nat /\ DOMAIN s.tmpls = 1 .. Len(s.tmpls)
    /\ Len(t.tmpls) \in Nat /\ DOMAIN t.tmpls = 1 .. Len(t.tmpls) /\ Len(s.tmpls) <= Len(t.tmpls)
    /\ \A i \in DOMAIN s.mem : DOMAIN t.mem[i] = DOMAIN s.mem[i]

LEMMA GrownValues ==
    ASSUME NEW s, NEW t, Grown(s, t)
    PROVE  /\ Users(s) \subseteq Users(t) /\ Values(s) \subseteq Values(t)
           /\ Methods(s) \subseteq Methods(t) /\ Frames(s) \subseteq Frames(t)
<1>1. DOMAIN s.tmpls \subseteq DOMAIN t.tmpls
  BY DEF Grown
<1>2. Users(s) \subseteq Users(t)
  BY DEF Grown, Users
<1>3. Cells(s, "method") \subseteq Cells(t, "method") /\ Cells(s, "frame") \subseteq Cells(t, "frame")
  BY DEF Grown, Cells
<1>4. Methods(s) \subseteq Methods(t) /\ Frames(s) \subseteq Frames(t)
  BY <1>3 DEF Methods, Frames
<1>5. Values(s) \subseteq Values(t)
  BY <1>1, <1>2 DEF Grown, Values
<1> QED BY <1>2, <1>4, <1>5

LEMMA GrownMemory ==
    ASSUME NEW s, NEW t, Grown(s, t)
    PROVE  Stacks(s) \subseteq Stacks(t) /\ Memory(s) \subseteq Memory(t)
<1>1. /\ Users(s) \subseteq Users(t) /\ Values(s) \subseteq Values(t)
      /\ Methods(s) \subseteq Methods(t) /\ Frames(s) \subseteq Frames(t)
  BY GrownValues
<1>2. Seq(Values(s)) \subseteq Seq(Values(t))
  BY <1>1, LongerSeq
<1>3. Stacks(s) \subseteq Stacks(t)
  BY <1>2 DEF Stacks
<1>4. DOMAIN s.tmpls \subseteq DOMAIN t.tmpls /\ 0 .. Len(s.tmpls) \subseteq 0 .. Len(t.tmpls)
  BY DEF Grown
<1>5. SUFFICES ASSUME NEW c \in Memory(s) PROVE c \in Memory(t)
  BY <1>3
<1>6. CASE c \in [vec : Seq(Values(s)) \ {<< >>}]
  BY <1>6, <1>2 DEF Memory
<1>7. CASE c \in [method : [argc : Nat, code : DOMAIN s.tmpls, env : Values(s), owner : Users(s),
                            setuid : BOOLEAN, flags : Int]]
  BY <1>7, <1>1, <1>4 DEF Memory
<1>8. CASE c \in [closure : [meth : Methods(s), self : Values(s)]]
  BY <1>8, <1>1 DEF Memory
<1>9. CASE c \in [frame : [code : 0 .. Len(s.tmpls), ip : Int, self : Values(s), env : Values(s),
                           frame : Frames(s), meth : {NullV} \cup Methods(s), effuid : Users(s)]]
  BY <1>9, <1>1, <1>4 DEF Memory
<1>10. CASE c \in [cont : [frame : Frames(s), stack : Stacks(s)]]
  BY <1>10, <1>1, <1>3 DEF Memory
<1> QED BY <1>5, <1>6, <1>7, <1>8, <1>9, <1>10 DEF Memory

LEMMA GrownObjects ==
    ASSUME NEW s, NEW t, Grown(s, t), NEW i, ObjectOK(s, i), t.objs[i] = s.objs[i]
    PROVE  ObjectOK(t, i)
<1>1. /\ Users(s) \subseteq Users(t) /\ Values(s) \subseteq Values(t)
      /\ Methods(s) \subseteq Methods(t)
  BY GrownValues
<1> QED BY <1>1 DEF ObjectOK

-----------------------------------------------------------------------------
(* Steps compose.                                                          *)

LEMMA StaysSound == ASSUME NEW s, MachineOK(s) PROVE Harmless(s, s)
<1>1. Captured(s, s)
  BY Lengths DEF Captured, KeptCell
<1> QED BY <1>1 DEF Harmless, Sound, NothingGained

LEMMA CapturedTwice ==
    ASSUME NEW s, NEW t, NEW u, MachineOK(s), MachineOK(t), MachineOK(u),
           Captured(s, t), Captured(t, u)
    PROVE  Captured(s, u)
<1>1. /\ Len(s.mem) \in Nat /\ Len(t.mem) \in Nat /\ Len(u.mem) \in Nat
      /\ Len(s.objs) \in Nat /\ Len(t.objs) \in Nat /\ Len(u.objs) \in Nat
      /\ Len(s.tmpls) \in Nat /\ Len(t.tmpls) \in Nat /\ Len(u.tmpls) \in Nat
  BY Lengths
<1>2. ASSUME NEW i \in 1 .. Len(s.mem) PROVE KeptCell(s.mem[i], u.mem[i])
  <2>1. i \in 1 .. Len(t.mem) /\ KeptCell(s.mem[i], t.mem[i]) /\ KeptCell(t.mem[i], u.mem[i])
    BY <1>1, <1>2, SMTT(60) DEF Captured
  <2> QED BY <2>1 DEF KeptCell
<1>3. ASSUME NEW k \in 1 .. Len(s.tmpls) PROVE u.tmpls[k] = s.tmpls[k]
  <2>1. k \in 1 .. Len(t.tmpls) /\ t.tmpls[k] = s.tmpls[k] /\ u.tmpls[k] = t.tmpls[k]
    BY <1>1, <1>3 DEF Captured
  <2> QED BY <2>1
<1>4. Len(s.mem) <= Len(u.mem) /\ Len(s.objs) <= Len(u.objs) /\ Len(s.tmpls) <= Len(u.tmpls)
  BY <1>1, SMTT(60) DEF Captured
<1> QED BY <1>2, <1>3, <1>4 DEF Captured

LEMMA SoundTwice ==
    ASSUME NEW s, NEW t, NEW u, MachineOK(s), Sound(s, t), Sound(t, u)
    PROVE  Sound(s, u)
BY CapturedTwice DEF Sound

LEMMA HarmlessTwice ==
    ASSUME NEW s, NEW t, NEW u, MachineOK(s), Harmless(s, t), Harmless(t, u)
    PROVE  Harmless(s, u)
<1>1. Sound(s, u)
  BY SoundTwice DEF Harmless
<1> QED BY <1>1 DEF Harmless, NothingGained

LEMMA CapturedGrown ==
    ASSUME NEW s, NEW t, MachineOK(s), Sound(s, t)
    PROVE  Grown(s, t)
<1>1. /\ Len(s.mem) \in Nat /\ Len(t.mem) \in Nat /\ Len(s.mem) <= Len(t.mem)
      /\ Len(s.objs) \in Nat /\ Len(t.objs) \in Nat /\ Len(s.objs) <= Len(t.objs)
      /\ Len(s.tmpls) \in Nat /\ Len(t.tmpls) \in Nat /\ Len(s.tmpls) <= Len(t.tmpls)
      /\ DOMAIN s.mem = 1 .. Len(s.mem) /\ DOMAIN t.mem = 1 .. Len(t.mem)
      /\ DOMAIN s.objs = 1 .. Len(s.objs) /\ DOMAIN t.objs = 1 .. Len(t.objs)
      /\ DOMAIN s.tmpls = 1 .. Len(s.tmpls) /\ DOMAIN t.tmpls = 1 .. Len(t.tmpls)
  BY Lengths DEF Sound, Captured
<1>2. \A i \in DOMAIN s.mem : DOMAIN t.mem[i] = DOMAIN s.mem[i]
  BY <1>1 DEF Sound, Captured, KeptCell
<1> QED BY <1>1, <1>2 DEF Grown

-----------------------------------------------------------------------------
(* What may be done to a machine.                                          *)

\* The registers of t have the types they have in s.
Fits(t, s) ==
    /\ DOMAIN t = DOMAIN Blank
    /\ t.acc \in Values(s) /\ t.env \in Values(s) /\ t.self \in Values(s) /\ t.trap \in Values(s)
    /\ t.bottom \in Values(s)
    /\ t.frame \in Frames(s) /\ t.meth \in {NullV} \cup Methods(s)
    /\ t.uid \in Users(s) /\ t.effuid \in Users(s)
    /\ t.stack \in Stacks(s) /\ t.code \in 0 .. Len(s.tmpls) /\ t.ip \in Int

SamePlaces(t, s) == t.mem = s.mem /\ t.objs = s.objs /\ t.tmpls = s.tmpls

LEMMA FitsItself == ASSUME NEW s, MachineOK(s) PROVE Fits(s, s)
BY DEF MachineOK, RegistersOK, Fits

\* Registers are set.
LEMMA SetRegisters ==
    ASSUME NEW s, MachineOK(s), NEW t, Fits(t, s), SamePlaces(t, s), t.glob = s.glob
    PROVE  /\ Sound(s, t)
           /\ {t.uid, t.effuid} \subseteq Powers(s) /\ t.trap \in {s.trap, NullV} => Harmless(s, t)
<1>1. /\ Users(t) = Users(s) /\ Values(t) = Values(s)
      /\ \A kind : Cells(t, kind) = Cells(s, kind)
  BY DEF SamePlaces, Users, Values, Cells
<1>2. Methods(t) = Methods(s) /\ Frames(t) = Frames(s) /\ Stacks(t) = Stacks(s)
  BY <1>1 DEF Methods, Frames, Stacks
<1>3. Memory(t) = Memory(s)
  BY <1>1, <1>2 DEF SamePlaces, Memory
<1>4. RegistersOK(t)
  BY <1>1, <1>2 DEF Fits, RegistersOK, SamePlaces
<1>5. \A i \in 1 .. Len(t.objs) : ObjectOK(t, i)
  BY <1>1, <1>2 DEF MachineOK, MemoryOK, ObjectOK, SamePlaces
<1>6. MemoryOK(t)
  BY <1>1, <1>3, <1>5 DEF MachineOK, MemoryOK, SamePlaces
<1>7. Captured(s, t)
  BY StaysSound DEF Harmless, Sound, Captured, SamePlaces
<1>8. PrivilegedObjects(t) = PrivilegedObjects(s)
  BY DEF PrivilegedObjects, Privileged, SamePlaces
<1>9. {t.uid, t.effuid} \subseteq Powers(s) => Powers(t) \subseteq Powers(s)
  BY <1>1 DEF Powers, SamePlaces
<1> QED BY <1>4, <1>6, <1>7, <1>8, <1>9 DEF MachineOK, Sound, Harmless, NothingGained
-----------------------------------------------------------------------------
(* What is found in memory.                                                *)

LEMMA RefIs ==
    ASSUME NEW s, MachineOK(s), NEW v \in Values(s), "ref" \in DOMAIN v
    PROVE  /\ v.ref \in 1 .. Len(s.mem) /\ v = Ref(v.ref)
           /\ Cell(s, v) = s.mem[v.ref] /\ Cell(s, v) \in Memory(s)
<1>1. v \in [ref : DOMAIN s.mem]
  BY DEF Values, Users, NullV, Undefined, EmptyV, Yield
<1>2. v.ref \in 1 .. Len(s.mem)
  BY <1>1, Lengths
<1> QED BY <1>1, <1>2, Lengths DEF Ref, Cell

LEMMA NoRefIs ==
    ASSUME NEW s, NEW v \in Values(s), "ref" \notin DOMAIN v
    PROVE  Cell(s, v) = v /\ ~IsClosure(s, v) /\ {"vec", "frame", "cont", "method"} \cap DOMAIN v = {}
BY DEF Values, Users, NullV, Undefined, EmptyV, Yield, Cell, IsClosure

LEMMA ObjIs ==
    ASSUME NEW s, MachineOK(s), NEW v \in Values(s), IsObj(v)
    PROVE  /\ v.obj \in 1 .. Len(s.objs) /\ v = Obj(v.obj) /\ v \in Users(s)
           /\ ObjectOK(s, v.obj)
<1>1. v \in [obj : DOMAIN s.objs]
  BY DEF Values, Users, NullV, Undefined, EmptyV, Yield, IsObj
<1>2. v.obj \in 1 .. Len(s.objs)
  BY <1>1, Lengths
<1> QED BY <1>1, <1>2 DEF Obj, Users, MachineOK, MemoryOK

LEMMA MethodAt ==
    ASSUME NEW s, MachineOK(s), NEW v \in Methods(s)
    PROVE  /\ v \in Values(s) /\ "ref" \in DOMAIN v
           /\ v.ref \in 1 .. Len(s.mem) /\ v = Ref(v.ref) /\ Cell(s, v) = s.mem[v.ref]
           /\ Cell(s, v) \in [method : [argc : Nat, code : DOMAIN s.tmpls, env : Values(s),
                                        owner : Users(s), setuid : BOOLEAN, flags : Int]]
           /\ "method" \in DOMAIN Cell(s, v)
<1>1. v \in Values(s) /\ "ref" \in DOMAIN v /\ "method" \in DOMAIN s.mem[v.ref]
  BY DEF Methods, Cells, Values
<1> QED BY <1>1, RefIs, MethodIs

LEMMA FrameAt ==
    ASSUME NEW s, MachineOK(s), NEW v \in Frames(s)
    PROVE  /\ v \in Values(s)
           /\ v = NullV <=> "frame" \notin DOMAIN Cell(s, v)
           /\ v # NullV =>
                /\ "ref" \in DOMAIN v /\ v.ref \in 1 .. Len(s.mem) /\ v = Ref(v.ref)
                /\ Cell(s, v) = s.mem[v.ref] /\ v.ref \in Cells(s, "frame")
                /\ Cell(s, v) \in
                     [frame : [code : 0 .. Len(s.tmpls), ip : Int, self : Values(s), env : Values(s),
                               frame : Frames(s), meth : {NullV} \cup Methods(s), effuid : Users(s)]]
<1>1. NullV \in Values(s) /\ "frame" \notin DOMAIN Cell(s, NullV)
  BY DEF Values, Users, Cell, NullV
<1>2. ASSUME v # NullV
      PROVE  v \in Values(s) /\ "ref" \in DOMAIN v /\ v.ref \in Cells(s, "frame")
             /\ "frame" \in DOMAIN s.mem[v.ref]
  BY <1>2 DEF Frames, Cells, Values
<1> QED BY <1>1, <1>2, RefIs, FrameIs

LEMMA ClosureAt ==
    ASSUME NEW s, MachineOK(s), NEW v \in Values(s), IsClosure(s, v)
    PROVE  /\ "ref" \in DOMAIN v /\ v.ref \in 1 .. Len(s.mem) /\ Cell(s, v) = s.mem[v.ref]
           /\ Cell(s, v).closure.meth \in Methods(s) /\ Cell(s, v).closure.self \in Values(s)
<1>1. "ref" \in DOMAIN v
  BY NoRefIs
<1>2. Cell(s, v) \in [closure : [meth : Methods(s), self : Values(s)]]
  BY <1>1, RefIs, ClosureIs DEF IsClosure
<1> QED BY <1>1, <1>2, RefIs

LEMMA ContinuationAt ==
    ASSUME NEW s, MachineOK(s), NEW v \in Values(s), "cont" \in DOMAIN Cell(s, v)
    PROVE  Cell(s, v).cont.frame \in Frames(s) /\ Cell(s, v).cont.stack \in Stacks(s)
<1>1. "ref" \in DOMAIN v
  BY NoRefIs
<1>2. Cell(s, v) \in [cont : [frame : Frames(s), stack : Stacks(s)]]
  BY <1>1, RefIs, ContinuationIs
<1> QED BY <1>2

\* What may stand where the machine looks for a value.
Found(s) == Values(s) \cup {Outside}

LEMMA OutsideIsNoValue == ASSUME NEW s PROVE Outside \notin Values(s)
BY DEF Values, Users, NullV, Undefined, EmptyV, Yield, Outside

LEMMA VectorAt ==
    ASSUME NEW s, MachineOK(s), NEW v \in Found(s), IsVec(s, v)
    PROVE  /\ v \in Values(s) /\ Elts(s, v) \in Seq(Values(s))
           /\ \/ v = EmptyV /\ Elts(s, v) = << >>
              \/ /\ v # EmptyV /\ "ref" \in DOMAIN v /\ v.ref \in 1 .. Len(s.mem)
                 /\ v = Ref(v.ref) /\ Elts(s, v) = s.mem[v.ref].vec
                 /\ s.mem[v.ref] \in [vec : Seq(Values(s)) \ {<< >>}]
<1>1. v \in Values(s)
  BY DEF Found, IsVec, Cell, Outside
<1>2. CASE "ref" \in DOMAIN v
  <2>1. Cell(s, v) = s.mem[v.ref] /\ Cell(s, v) \in Memory(s) /\ v.ref \in 1 .. Len(s.mem) /\ v = Ref(v.ref)
    BY <1>1, <1>2, RefIs
  <2>2. "empty" \notin DOMAIN Cell(s, v)
    BY <2>1 DEF Memory
  <2>3. Cell(s, v) \in [vec : Seq(Values(s)) \ {<< >>}]
    BY <2>1, <2>2, VectorIs DEF IsVec
  <2>4. v # EmptyV
    BY <1>2 DEF EmptyV
  <2> QED BY <1>1, <1>2, <2>1, <2>3, <2>4 DEF Elts
<1>3. CASE "ref" \notin DOMAIN v
  <2>1. Cell(s, v) = v /\ "vec" \notin DOMAIN v
    BY <1>1, <1>3, NoRefIs
  <2>2. "empty" \in DOMAIN v
    BY <2>1 DEF IsVec
  <2>3. v = EmptyV
    BY <1>1, <2>2 DEF Values, Users, NullV, Undefined, EmptyV, Yield
  <2> QED BY <1>1, <2>3 DEF Elts
<1> QED BY <1>2, <1>3

LEMMA EltIs ==
    ASSUME NEW s, MachineOK(s), NEW v \in Found(s), NEW i \in Int
    PROVE  /\ Elt(s, v, i) \in Found(s)
           /\ Elt(s, v, i) # Outside =>
                /\ Elt(s, v, i) \in Values(s) /\ IsVec(s, v) /\ v \in Values(s)
                /\ "ref" \in DOMAIN v /\ v.ref \in 1 .. Len(s.mem) /\ v = Ref(v.ref)
                /\ s.mem[v.ref] \in [vec : Seq(Values(s)) \ {<< >>}]
                /\ i + 1 \in 1 .. Len(s.mem[v.ref].vec)
<1>1. CASE IsVec(s, v) /\ i \in 0 .. Len(Elts(s, v)) - 1
  <2>1. Elts(s, v) \in Seq(Values(s))
    BY <1>1, VectorAt
  <2>2. i + 1 \in 1 .. Len(Elts(s, v))
    BY <1>1, <2>1
  <2>3. Elts(s, v)[i + 1] \in Values(s)
    BY <2>1, <2>2
  <2>4. Elts(s, v) # << >>
    BY <2>2
  <2>5. /\ v \in Values(s) /\ "ref" \in DOMAIN v /\ v.ref \in 1 .. Len(s.mem)
        /\ v = Ref(v.ref) /\ Elts(s, v) = s.mem[v.ref].vec
        /\ s.mem[v.ref] \in [vec : Seq(Values(s)) \ {<< >>}]
    BY <1>1, <2>4, VectorAt
  <2>6. Elt(s, v, i) = Elts(s, v)[i + 1]
    BY <1>1 DEF Elt
  <2> QED BY <1>1, <2>2, <2>3, <2>5, <2>6 DEF Found
<1>2. CASE ~(IsVec(s, v) /\ i \in 0 .. Len(Elts(s, v)) - 1)
  BY <1>2 DEF Elt, Found
<1> QED BY <1>1, <1>2
-----------------------------------------------------------------------------
(* Memory grows, and is written.                                           *)

\* Nothing but the memory of t, the objects or the globals may differ from s.
SameRegisters(t, s) ==
    /\ DOMAIN t = DOMAIN s
    /\ t.acc = s.acc /\ t.env = s.env /\ t.self = s.self /\ t.trap = s.trap
    /\ t.frame = s.frame /\ t.meth = s.meth /\ t.uid = s.uid /\ t.effuid = s.effuid
    /\ t.stack = s.stack /\ t.bottom = s.bottom
    /\ t.code = s.code /\ t.ip = s.ip /\ t.tmpls = s.tmpls

LEMMA RegistersGrown ==
    ASSUME NEW s, MachineOK(s), NEW t, Grown(s, t), SameRegisters(t, s)
    PROVE  RegistersOK(t)
<1>1. /\ Users(s) \subseteq Users(t) /\ Values(s) \subseteq Values(t)
      /\ Methods(s) \subseteq Methods(t) /\ Frames(s) \subseteq Frames(t)
      /\ Stacks(s) \subseteq Stacks(t)
  BY GrownValues, GrownMemory
<1> QED BY <1>1 DEF MachineOK, RegistersOK, SameRegisters

\* What two memories have in common, as far as privileges go.
LEMMA SamePowers ==
    ASSUME NEW s, NEW t, MachineOK(s), t.uid = s.uid, t.effuid = s.effuid,
           \A i \in Cells(t, "frame") :
              \/ i \in Cells(s, "frame") /\ t.mem[i].frame.effuid = s.mem[i].frame.effuid
              \/ t.mem[i].frame.effuid \in Powers(s),
           \A i \in Cells(t, "method") :
              \/ i \in Cells(s, "method") /\ t.mem[i].method.owner = s.mem[i].method.owner
                 /\ t.mem[i].method.setuid = s.mem[i].method.setuid
              \/ (t.mem[i].method.setuid => t.mem[i].method.owner \in Powers(s))
    PROVE  Powers(t) \subseteq Powers(s)
<1> SUFFICES ASSUME NEW u \in Powers(t) PROVE u \in Powers(s)
  OBVIOUS
<1>1. CASE u \in {t.uid, t.effuid}
  BY <1>1 DEF Powers
<1>2. CASE \E i \in Cells(t, "frame") : u = t.mem[i].frame.effuid
  BY <1>2 DEF Powers
<1>3. CASE \E i \in Cells(t, "method") : t.mem[i].method.setuid /\ u = t.mem[i].method.owner
  <2>1. PICK i \in Cells(t, "method") : t.mem[i].method.setuid /\ u = t.mem[i].method.owner
    BY <1>3
  <2>2. CASE i \in Cells(s, "method") /\ t.mem[i].method.owner = s.mem[i].method.owner
             /\ t.mem[i].method.setuid = s.mem[i].method.setuid
    BY <2>1, <2>2 DEF Powers
  <2> QED BY <2>1, <2>2
<1> QED BY <1>1, <1>2, <1>3 DEF Powers

LEMMA NewCell ==
    ASSUME NEW s, MachineOK(s), NEW c \in Memory(s), NEW t, t = New(s, c),
           "frame" \in DOMAIN c => c.frame.effuid \in Powers(s),
           "method" \in DOMAIN c /\ c.method.setuid => c.method.owner \in Powers(s)
    PROVE  /\ Harmless(s, t) /\ SameRegisters(t, s) /\ t.objs = s.objs /\ t.glob = s.glob
           /\ t.state = s.state /\ t.quota = s.quota
           /\ Newest(t) = Ref(Len(s.mem) + 1) /\ Newest(t) \in Values(t)
           /\ Cell(t, Newest(t)) = c /\ Len(t.mem) = Len(s.mem) + 1
           /\ t.mem[Len(s.mem) + 1] = c
           /\ \A i \in 1 .. Len(s.mem) : t.mem[i] = s.mem[i]
           /\ "method" \in DOMAIN c => Newest(t) \in Methods(t)
           /\ "frame" \in DOMAIN c => Newest(t) \in Frames(t)
<1> DEFINE n == Len(s.mem) + 1
<1>1. /\ Len(s.mem) \in Nat /\ DOMAIN s.mem = 1 .. Len(s.mem)
      /\ Len(s.objs) \in Nat /\ DOMAIN s.objs = 1 .. Len(s.objs)
      /\ Len(s.tmpls) \in Nat /\ DOMAIN s.tmpls = 1 .. Len(s.tmpls)
      /\ s.mem \in Seq(Memory(s)) /\ DOMAIN s = DOMAIN Blank
  BY Lengths DEF MachineOK, MemoryOK, RegistersOK
<1>2. t.mem = Append(s.mem, c) /\ SameRegisters(t, s) /\ t.objs = s.objs /\ t.glob = s.glob
      /\ t.state = s.state /\ t.quota = s.quota
  BY <1>1 DEF New, Blank, SameRegisters
<1>3. /\ Len(t.mem) = n /\ DOMAIN t.mem = 1 .. n /\ t.mem[n] = c
      /\ \A i \in 1 .. Len(s.mem) : t.mem[i] = s.mem[i]
  BY <1>1, <1>2
<1> HIDE DEF n
<1>4. n \in Nat /\ n = Len(s.mem) + 1
  BY <1>1 DEF n
<1>5. Grown(s, t)
  BY <1>1, <1>2, <1>3, <1>4 DEF Grown, SameRegisters
<1>6. /\ Values(s) \subseteq Values(t) /\ Memory(s) \subseteq Memory(t) /\ Frames(s) \subseteq Frames(t)
  BY <1>5, GrownValues, GrownMemory
<1>7. t.mem \in Seq(Memory(t))
  BY <1>1, <1>2, <1>6
<1>8. \A i \in 1 .. Len(t.objs) : ObjectOK(t, i)
  BY <1>2, <1>5, GrownObjects DEF MachineOK, MemoryOK
<1>9. ASSUME NEW i \in Cells(t, "frame")
      PROVE  LET f == t.mem[i].frame.frame IN f = NullV \/ f.ref < i
  <2>1. i \in 1 .. n /\ "frame" \in DOMAIN t.mem[i]
    BY <1>3 DEF Cells
  <2>2. CASE i \in 1 .. Len(s.mem)
    <3>1. i \in Cells(s, "frame") /\ t.mem[i] = s.mem[i]
      BY <1>1, <1>3, <2>1, <2>2 DEF Cells
    <3> QED BY <3>1 DEF MachineOK, MemoryOK
  <2>3. CASE i = n
    <3>1. t.mem[i] = c /\ c.frame.frame \in Frames(s)
      BY <1>3, <2>1, <2>3, FrameIs
    <3>2. c.frame.frame = NullV \/ c.frame.frame.ref \in 1 .. Len(s.mem)
      BY <3>1, <1>1, FrameAt
    <3> QED BY <3>1, <3>2, <1>4, <2>3
  <2> QED BY <1>4, <2>1, <2>2, <2>3
<1>10. MachineOK(t)
  <2>1. RegistersOK(t)
    BY <1>2, <1>5, RegistersGrown
  <2>2. t.tmpls = s.tmpls
    BY <1>2 DEF SameRegisters
  <2> QED BY <2>1, <2>2, <1>1, <1>2, <1>6, <1>7, <1>8, <1>9 DEF MachineOK, MemoryOK
<1>11. Captured(s, t)
  <2>1. \A i \in 1 .. Len(s.mem) : KeptCell(s.mem[i], t.mem[i])
    BY <1>3 DEF KeptCell
  <2> QED BY <2>1, <1>1, <1>2, <1>3, <1>4 DEF Captured, SameRegisters
<1>12. PrivilegedObjects(t) = PrivilegedObjects(s)
  BY <1>2 DEF PrivilegedObjects, Privileged
<1>13. Powers(t) \subseteq Powers(s)
  <2>1. ASSUME NEW kind, NEW i \in Cells(t, kind)
        PROVE  (i \in Cells(s, kind) /\ t.mem[i] = s.mem[i]) \/ (t.mem[i] = c /\ kind \in DOMAIN c)
    BY <1>1, <1>3, <1>4 DEF Cells
  <2>2. t.uid = s.uid /\ t.effuid = s.effuid
    BY <1>2 DEF SameRegisters
  <2>3. \A i \in Cells(t, "frame") :
              \/ i \in Cells(s, "frame") /\ t.mem[i].frame.effuid = s.mem[i].frame.effuid
              \/ t.mem[i].frame.effuid \in Powers(s)
    BY <2>1
  <2>4. \A i \in Cells(t, "method") :
              \/ i \in Cells(s, "method") /\ t.mem[i].method.owner = s.mem[i].method.owner
                 /\ t.mem[i].method.setuid = s.mem[i].method.setuid
              \/ (t.mem[i].method.setuid => t.mem[i].method.owner \in Powers(s))
    BY <2>1
  <2> QED BY <2>2, <2>3, <2>4, SamePowers
<1>14. Newest(t) = Ref(n) /\ Newest(t) \in Values(t) /\ Cell(t, Newest(t)) = c
  BY <1>3, <1>4 DEF Newest, Ref, Values, Cell
<1>15. /\ "method" \in DOMAIN c => Newest(t) \in Methods(t)
       /\ "frame" \in DOMAIN c => Newest(t) \in Frames(t)
  BY <1>3, <1>4, <1>14 DEF Ref, Methods, Frames, Cells
<1> QED
  BY <1>2, <1>3, <1>4, <1>10, <1>11, <1>12, <1>13, <1>14, <1>15
     DEF Harmless, Sound, NothingGained, SameRegisters

LEMMA PutCell ==
    ASSUME NEW s, MachineOK(s), NEW i \in 1 .. Len(s.mem), NEW c \in Memory(s),
           KeptCell(s.mem[i], c), NEW t, SameRegisters(t, s), t.objs = s.objs, t.glob = s.glob,
           t.mem = [s.mem EXCEPT ![i] = c]
    PROVE  /\ Sound(s, t)
           /\ ("method" \in DOMAIN c /\ c.method.setuid =>
                  s.mem[i].method.setuid \/ c.method.owner \in Powers(s)) => Harmless(s, t)
<1>1. /\ Len(s.mem) \in Nat /\ DOMAIN s.mem = 1 .. Len(s.mem)
      /\ Len(s.objs) \in Nat /\ DOMAIN s.objs = 1 .. Len(s.objs)
      /\ Len(s.tmpls) \in Nat /\ DOMAIN s.tmpls = 1 .. Len(s.tmpls)
      /\ s.mem \in Seq(Memory(s)) /\ DOMAIN s = DOMAIN Blank
  BY Lengths DEF MachineOK, MemoryOK, RegistersOK
<1>2. /\ Len(t.mem) = Len(s.mem) /\ DOMAIN t.mem = 1 .. Len(s.mem) /\ t.mem[i] = c
      /\ t.mem \in Seq(Memory(s))
      /\ \A j \in 1 .. Len(s.mem) : j # i => t.mem[j] = s.mem[j]
  BY <1>1
<1>3. \A j \in 1 .. Len(s.mem) : KeptCell(s.mem[j], t.mem[j])
  BY <1>2 DEF KeptCell
<1>4. Grown(s, t)
  BY <1>1, <1>2, <1>3 DEF Grown, SameRegisters, KeptCell
<1>5. Memory(s) \subseteq Memory(t) /\ Values(s) \subseteq Values(t)
  BY <1>4, GrownMemory, GrownValues
<1>6. \A j \in 1 .. Len(t.objs) : ObjectOK(t, j)
  BY <1>4, GrownObjects DEF MachineOK, MemoryOK
<1>7. \A kind : Cells(t, kind) = Cells(s, kind)
  BY <1>1, <1>2, <1>3 DEF Cells, KeptCell
<1>8. \A j \in Cells(s, "frame") : t.mem[j] = s.mem[j]
  BY <1>1, <1>3 DEF Cells, KeptCell
<1>9. MachineOK(t)
  <2>1. RegistersOK(t)
    BY <1>4, RegistersGrown
  <2>2. \A j \in Cells(t, "frame") : LET f == t.mem[j].frame.frame IN f = NullV \/ f.ref < j
    BY <1>7, <1>8 DEF MachineOK, MemoryOK
  <2>3. t.tmpls = s.tmpls /\ t.mem \in Seq(Memory(t))
    BY <1>2, <1>5, LongerSeq DEF SameRegisters
  <2> QED BY <2>1, <2>2, <2>3, <1>1, <1>5, <1>6 DEF MachineOK, MemoryOK
<1>10. Captured(s, t)
  BY <1>1, <1>2, <1>3 DEF Captured, SameRegisters
<1>11. PrivilegedObjects(t) = PrivilegedObjects(s)
  BY DEF PrivilegedObjects, Privileged
<1>12. ASSUME "method" \in DOMAIN c /\ c.method.setuid =>
                  s.mem[i].method.setuid \/ c.method.owner \in Powers(s)
       PROVE  Powers(t) \subseteq Powers(s)
  <2>1. t.uid = s.uid /\ t.effuid = s.effuid
    BY DEF SameRegisters
  <2>2. \A j \in Cells(t, "frame") :
              \/ j \in Cells(s, "frame") /\ t.mem[j].frame.effuid = s.mem[j].frame.effuid
              \/ t.mem[j].frame.effuid \in Powers(s)
    BY <1>7, <1>8
  <2>3. ASSUME NEW j \in Cells(t, "method")
        PROVE  \/ /\ j \in Cells(s, "method") /\ t.mem[j].method.owner = s.mem[j].method.owner
                  /\ t.mem[j].method.setuid = s.mem[j].method.setuid
               \/ (t.mem[j].method.setuid => t.mem[j].method.owner \in Powers(s))
    <3>1. CASE j # i
      BY <1>1, <1>2, <1>7, <3>1 DEF Cells
    <3>2. CASE j = i
      <4>1. "method" \in DOMAIN c /\ "method" \in DOMAIN s.mem[i] /\ i \in Cells(s, "method")
        BY <1>2, <1>7, <3>2 DEF Cells
      <4>2. c.method.owner = s.mem[i].method.owner
        BY <4>1 DEF KeptCell
      <4>3. s.mem[i].method.setuid => s.mem[i].method.owner \in Powers(s)
        BY <4>1 DEF Powers
      <4> QED BY <1>2, <1>12, <3>2, <4>1, <4>2, <4>3
    <3> QED BY <3>1, <3>2
  <2> QED BY <2>1, <2>2, <2>3, SamePowers
<1> QED BY <1>9, <1>10, <1>11, <1>12 DEF Harmless, Sound, NothingGained, SameRegisters

-----------------------------------------------------------------------------
(* Objects and globals.                                                    *)

\* x may be the i-th object of s.
IsObject(s, x, i) ==
    /\ DOMAIN x = {"owner", "parent", "flags", "slots", "methods"}
    /\ x.owner \in Users(s) /\ x.parent \in 0 .. i - 1 /\ x.flags \in Int
    /\ \A n \in DOMAIN x.slots :
          x.slots[n] \in [value : Values(s), owner : Users(s), flags : Int]
    /\ \A n \in DOMAIN x.methods : x.methods[n] \in Methods(s)

LEMMA PutObjects ==
    ASSUME NEW s, MachineOK(s), NEW t, SameRegisters(t, s), t.mem = s.mem,
           t.objs \in Seq(Range(t.objs)), Len(s.objs) <= Len(t.objs),
           \A i \in 1 .. Len(t.objs) : IsObject(s, t.objs[i], i),
           \A n \in DOMAIN t.glob : t.glob[n] \in Values(s)
    PROVE  /\ Sound(s, t)
           /\ /\ t.glob = s.glob
              /\ \A i \in 1 .. Len(t.objs) :
                    HasFlag(t.objs[i].flags, PrivilegedFlag)
                    <=> i \in 1 .. Len(s.objs) /\ HasFlag(s.objs[i].flags, PrivilegedFlag)
              => Harmless(s, t)
<1>1. /\ Len(s.mem) \in Nat /\ DOMAIN s.mem = 1 .. Len(s.mem)
      /\ Len(s.objs) \in Nat /\ DOMAIN s.objs = 1 .. Len(s.objs)
      /\ Len(s.tmpls) \in Nat /\ DOMAIN s.tmpls = 1 .. Len(s.tmpls)
      /\ s.mem \in Seq(Memory(s))
      /\ Len(t.objs) \in Nat /\ DOMAIN t.objs = 1 .. Len(t.objs)
  BY Lengths DEF MachineOK, MemoryOK
<1>2. Grown(s, t)
  BY <1>1 DEF Grown, SameRegisters
<1>3. /\ Users(s) \subseteq Users(t) /\ Values(s) \subseteq Values(t)
      /\ Methods(s) \subseteq Methods(t) /\ Memory(s) \subseteq Memory(t)
  BY <1>2, GrownValues, GrownMemory
<1>4. \A i \in 1 .. Len(t.objs) : ObjectOK(t, i)
  BY <1>3 DEF ObjectOK, IsObject
<1>5. \A kind : Cells(t, kind) = Cells(s, kind)
  BY DEF Cells
<1>6. MachineOK(t)
  <2>1. RegistersOK(t)
    BY <1>2, RegistersGrown
  <2>2. t.tmpls = s.tmpls /\ t.mem \in Seq(Memory(t))
    BY <1>1, <1>3, LongerSeq DEF SameRegisters
  <2>3. \A n \in DOMAIN t.glob : t.glob[n] \in Values(t)
    BY <1>3
  <2> QED BY <2>1, <2>2, <2>3, <1>4, <1>5 DEF MachineOK, MemoryOK
<1>7. Captured(s, t)
  BY <1>1 DEF Captured, SameRegisters, KeptCell
<1>8. Powers(t) = Powers(s)
  BY <1>5 DEF Powers, SameRegisters
<1>9. ASSUME \A i \in 1 .. Len(t.objs) :
                HasFlag(t.objs[i].flags, PrivilegedFlag)
                <=> i \in 1 .. Len(s.objs) /\ HasFlag(s.objs[i].flags, PrivilegedFlag)
      PROVE  PrivilegedObjects(t) = PrivilegedObjects(s)
  <2>1. ASSUME NEW u, NEW i PROVE Privileged(u, Obj(i)) <=> HasFlag(u.objs[i].flags, PrivilegedFlag)
    BY DEF Privileged, Obj, NullV
  <2> QED BY <1>1, <1>9, <2>1 DEF PrivilegedObjects
<1> QED BY <1>6, <1>7, <1>8, <1>9 DEF Harmless, Sound, NothingGained, SameRegisters

\* An object is changed in place.
LEMMA PutObject ==
    ASSUME NEW s, MachineOK(s), NEW i \in 1 .. Len(s.objs), NEW x, IsObject(s, x, i),
           NEW t, SameRegisters(t, s), t.mem = s.mem, t.glob = s.glob,
           t.objs = [s.objs EXCEPT ![i] = x]
    PROVE  /\ Sound(s, t)
           /\ (HasFlag(x.flags, PrivilegedFlag) <=> HasFlag(s.objs[i].flags, PrivilegedFlag))
              => Harmless(s, t)
           /\ Len(t.objs) = Len(s.objs)
<1>1. Len(s.objs) \in Nat /\ DOMAIN s.objs = 1 .. Len(s.objs) /\ s.objs \in Seq(Range(s.objs))
  BY Lengths DEF MachineOK, MemoryOK
<1>2. DOMAIN t.objs = 1 .. Len(s.objs) /\ t.objs[i] = x
      /\ \A j \in 1 .. Len(s.objs) : j # i => t.objs[j] = s.objs[j]
  BY <1>1
<1>3. t.objs \in Seq(Range(t.objs))
  <2>1. s.objs \in Seq(Range(s.objs) \cup {x})
    BY <1>1, LongerSeq
  <2>2. t.objs \in Seq(Range(s.objs) \cup {x})
    BY <1>1, <2>1
  <2> QED BY <2>2, OfItsElements
<1>4. Len(t.objs) = Len(s.objs)
  BY <1>1, <1>2
<1>5. \A j \in 1 .. Len(t.objs) : IsObject(s, t.objs[j], j)
  BY <1>2, <1>4, ZenonT(30) DEF MachineOK, MemoryOK, ObjectOK, IsObject
<1>6. \A n \in DOMAIN t.glob : t.glob[n] \in Values(s)
  BY DEF MachineOK, MemoryOK
<1>7. ASSUME HasFlag(x.flags, PrivilegedFlag) <=> HasFlag(s.objs[i].flags, PrivilegedFlag)
      PROVE  \A j \in 1 .. Len(t.objs) :
                HasFlag(t.objs[j].flags, PrivilegedFlag)
                <=> j \in 1 .. Len(s.objs) /\ HasFlag(s.objs[j].flags, PrivilegedFlag)
  BY <1>2, <1>4, <1>7
<1> QED BY <1>1, <1>2, <1>4, <1>5, <1>6, <1>7, <1>3, PutObjects, SMTT(30)

\* An object is made.
LEMMA AddObject ==
    ASSUME NEW s, MachineOK(s), NEW x, IsObject(s, x, Len(s.objs) + 1), x.flags = OwnerMask,
           NEW t, SameRegisters(t, s), t.mem = s.mem, t.glob = s.glob,
           t.objs = Append(s.objs, x)
    PROVE  Harmless(s, t) /\ Obj(Len(s.objs) + 1) \in Values(t)
<1>1. Len(s.objs) \in Nat /\ DOMAIN s.objs = 1 .. Len(s.objs) /\ s.objs \in Seq(Range(s.objs))
  BY Lengths DEF MachineOK, MemoryOK
<1>2. /\ Len(t.objs) = Len(s.objs) + 1 /\ DOMAIN t.objs = 1 .. Len(s.objs) + 1
      /\ t.objs[Len(s.objs) + 1] = x /\ \A j \in 1 .. Len(s.objs) : t.objs[j] = s.objs[j]
  <2>1. s.objs \in Seq(Range(s.objs) \cup {x})
    BY <1>1, LongerSeq
  <2> QED BY <1>1, <2>1
<1>3. t.objs \in Seq(Range(t.objs))
  <2>1. s.objs \in Seq(Range(s.objs) \cup {x})
    BY <1>1, LongerSeq
  <2>2. t.objs \in Seq(Range(s.objs) \cup {x})
    BY <2>1
  <2> QED BY <2>2, OfItsElements
<1>4. \A j \in 1 .. Len(t.objs) : IsObject(s, t.objs[j], j)
  BY <1>1, <1>2, SMTT(30) DEF MachineOK, MemoryOK, ObjectOK, IsObject
<1>5. \A n \in DOMAIN t.glob : t.glob[n] \in Values(s)
  BY DEF MachineOK, MemoryOK
<1>6. ~HasFlag(x.flags, PrivilegedFlag)
  BY DEF HasFlag, PrivilegedFlag, OwnerMask
<1>7. \A j \in 1 .. Len(t.objs) :
                HasFlag(t.objs[j].flags, PrivilegedFlag)
                <=> j \in 1 .. Len(s.objs) /\ HasFlag(s.objs[j].flags, PrivilegedFlag)
  BY <1>1, <1>2, <1>6
<1>8. Obj(Len(s.objs) + 1) \in Values(t)
  BY <1>1, <1>2 DEF Obj, Values, Users
<1>9. Len(s.objs) <= Len(t.objs)
  BY <1>1, <1>2
<1>10. Harmless(s, t)
  BY <1>4, <1>5, <1>7, <1>3, <1>9, PutObjects
<1> QED BY <1>8, <1>10
-----------------------------------------------------------------------------
(* The registers, after that.                                              *)

LEMMA HasPower == ASSUME NEW s PROVE s.uid \in Powers(s) /\ s.effuid \in Powers(s)
BY DEF Powers

LEMMA ThenSet ==
    ASSUME NEW s, MachineOK(s), NEW u, Harmless(s, u), NEW t, Fits(t, u), SamePlaces(t, u),
           t.glob = u.glob, t.uid = u.uid, t.effuid \in Powers(s) \cup {u.effuid},
           t.trap = u.trap \/ t.trap = NullV
    PROVE  Harmless(s, t)
<1>1. MachineOK(u)
  BY DEF Harmless, Sound
<1>2. Sound(u, t) /\ Sound(s, t)
  BY <1>1, SetRegisters, SoundTwice DEF Harmless
<1>3. u.uid \in Powers(s) /\ u.effuid \in Powers(s)
  BY HasPower DEF Harmless, NothingGained
<1>4. Powers(t) \subseteq Powers(s)
  <2>1. Powers(t) \subseteq Powers(u) \cup {t.uid, t.effuid}
    BY DEF Powers, Cells, SamePlaces
  <2> QED BY <2>1, <1>3 DEF Harmless, NothingGained
<1>5. PrivilegedObjects(t) = PrivilegedObjects(u)
  BY DEF PrivilegedObjects, Privileged, SamePlaces
<1> QED BY <1>2, <1>4, <1>5 DEF Harmless, NothingGained

\* What is left as it is may also have been changed in state or quota.
LEMMA ThenOther ==
    ASSUME NEW s, MachineOK(s), NEW u, Harmless(s, u), NEW t, SameRegisters(t, u),
           SamePlaces(t, u), t.glob = u.glob
    PROVE  Harmless(s, t)
<1>1. MachineOK(u) /\ Fits(u, u)
  BY FitsItself DEF Harmless, Sound
<1>2. Fits(t, u)
  BY <1>1 DEF Fits, SameRegisters
<1> QED BY <1>2, ThenSet DEF SameRegisters

LEMMA ThenWild ==
    ASSUME NEW s, MachineOK(s), NEW u, Harmless(s, u), NEW x
    PROVE  /\ Harmless(s, Wild(u)) /\ SameRegisters(Wild(u), u)
           /\ Harmless(s, [u EXCEPT !.state = x]) /\ SameRegisters([u EXCEPT !.state = x], u)
<1>1. DOMAIN u = DOMAIN Blank
  BY DEF Harmless, Sound, MachineOK, RegistersOK
<1> DEFINE w == [u EXCEPT !.state = x]
<1>2. SameRegisters(w, u) /\ SamePlaces(w, u) /\ w.glob = u.glob
  BY <1>1 DEF SameRegisters, SamePlaces, Blank
<1>3. SameRegisters(Wild(u), u) /\ SamePlaces(Wild(u), u) /\ Wild(u).glob = u.glob
  BY <1>1 DEF SameRegisters, SamePlaces, Blank, Wild
<1> HIDE DEF w
<1>4. Harmless(s, w) /\ Harmless(s, Wild(u))
  BY <1>2, <1>3, ThenOther
<1> QED BY <1>2, <1>3, <1>4 DEF w

LEMMA ThenSkip ==
    ASSUME NEW s, MachineOK(s), NEW u, Harmless(s, u), NEW n \in Int
    PROVE  Harmless(s, Skip(u, n))
<1>1. MachineOK(u) /\ Fits(u, u) /\ DOMAIN u = DOMAIN Blank
  BY FitsItself DEF Harmless, Sound, MachineOK, RegistersOK
<1>2. PICK t : t = Skip(u, n)
  OBVIOUS
<1>3. Fits(t, u) /\ SamePlaces(t, u) /\ t.glob = u.glob /\ t.uid = u.uid /\ t.effuid = u.effuid
      /\ t.trap = u.trap
  BY <1>1, <1>2 DEF Fits, SamePlaces, Blank, Skip
<1>4. Harmless(s, t)
  BY <1>3, ThenSet
<1> QED BY <1>2, <1>4

LEMMA ThenReturn ==
    ASSUME NEW s, MachineOK(s), NEW u, Harmless(s, u), NEW v \in Values(u)
    PROVE  Harmless(s, [u EXCEPT !.acc = v]) /\ Harmless(s, Returning(u, v))
<1>1. MachineOK(u) /\ Fits(u, u) /\ DOMAIN u = DOMAIN Blank
  BY FitsItself DEF Harmless, Sound, MachineOK, RegistersOK
<1>2. PICK t : t = [u EXCEPT !.acc = v]
  OBVIOUS
<1>3. Fits(t, u) /\ SamePlaces(t, u) /\ t.glob = u.glob /\ t.uid = u.uid /\ t.effuid = u.effuid
      /\ t.trap = u.trap
  BY <1>1, <1>2 DEF Fits, SamePlaces, Blank
<1>4. Harmless(s, t)
  BY <1>3, ThenSet
<1> QED BY <1>2, <1>4 DEF Returning

\* What are values remain values.
LEMMA StillValues ==
    ASSUME NEW s, MachineOK(s), NEW u, Harmless(s, u)
    PROVE  /\ MachineOK(u) /\ Users(s) \subseteq Users(u) /\ Values(s) \subseteq Values(u)
           /\ Found(s) \subseteq Found(u)
           /\ Methods(s) \subseteq Methods(u) /\ Frames(s) \subseteq Frames(u)
           /\ Stacks(s) \subseteq Stacks(u) /\ Len(s.tmpls) <= Len(u.tmpls)
<1>1. Grown(s, u)
  BY CapturedGrown DEF Harmless
<1> QED BY <1>1, GrownValues, GrownMemory DEF Harmless, Sound, Captured, Found
-----------------------------------------------------------------------------
(* Vectors.                                                                *)

LEMMA ValueElts ==
    ASSUME NEW s, MachineOK(s), NEW elts \in Seq(Values(s)), elts # << >>
    PROVE  [vec |-> elts] \in Memory(s)
BY DEF Memory

LEMMA NewVecHarmless ==
    ASSUME NEW s, MachineOK(s), NEW elts \in Seq(Values(s)), NEW t, t = NewVec(s, elts)
    PROVE  /\ Harmless(s, t) /\ t.stack = s.stack /\ t.acc \in Values(t)
           /\ t.env = s.env /\ t.self = s.self /\ t.trap = s.trap /\ t.frame = s.frame
           /\ t.meth = s.meth /\ t.uid = s.uid /\ t.effuid = s.effuid /\ t.code = s.code
           /\ t.ip = s.ip
<1>1. Harmless(s, s) /\ DOMAIN s = DOMAIN Blank
  BY StaysSound DEF MachineOK, RegistersOK
<1>2. CASE elts = << >>
  <2>1. EmptyV \in Values(s)
    BY DEF Values
  <2>2. t = [s EXCEPT !.acc = EmptyV]
    BY <1>2 DEF NewVec
  <2>3. Harmless(s, t)
    BY <2>1, <2>2, <1>1, ThenReturn, SMTT(30)
  <2> QED BY <1>1, <2>1, <2>2, <2>3, StillValues DEF Blank
<1>3. CASE elts # << >>
  <2>1. PICK u : u = New(s, [vec |-> elts])
    OBVIOUS
  <2>2. /\ Harmless(s, u) /\ SameRegisters(u, s) /\ Newest(u) = Ref(Len(s.mem) + 1)
        /\ Newest(u) \in Values(u)
    BY <1>3, <2>1, ValueElts, NewCell
  <2>3. t = [u EXCEPT !.acc = Ref(Len(s.mem) + 1)]
    BY <1>3, <2>1 DEF NewVec
  <2>4. Harmless(s, t)
    <3>1. Ref(Len(s.mem) + 1) \in Values(u)
      BY <2>2
    <3>2. t = Returning(u, Ref(Len(s.mem) + 1))
      BY <2>3 DEF Returning
    <3>3. Harmless(s, Returning(u, Ref(Len(s.mem) + 1)))
      <4> HIDE <1>3, <2>1, <2>3, <3>2
      <4> QED BY <2>2, <3>1, ThenReturn
    <3> QED BY <3>2, <3>3
  <2>5. DOMAIN u = DOMAIN Blank
    BY <1>1, <2>2 DEF SameRegisters
  <2>6. t.acc \in Values(u) /\ t.mem = u.mem /\ t.objs = u.objs /\ t.tmpls = u.tmpls
    BY <2>2, <2>3, <2>5 DEF Blank
  <2>7. t.acc \in Values(t)
    BY <2>6 DEF Values, Users
  <2> QED BY <2>2, <2>3, <2>4, <2>5, <2>7 DEF SameRegisters, Blank
<1> QED BY <1>2, <1>3

LEMMA PutEltHarmless ==
    ASSUME NEW s, MachineOK(s), NEW v \in Found(s), NEW i \in Int, NEW x \in Values(s),
           NEW t, t = PutElt(s, v, i, x)
    PROVE  Harmless(s, t) /\ SameRegisters(t, s)
<1>1. Harmless(s, s) /\ DOMAIN s = DOMAIN Blank
  BY StaysSound DEF MachineOK, RegistersOK
<1>2. CASE Elt(s, v, i) = Outside
  BY <1>1, <1>2, ThenWild DEF PutElt
<1>3. CASE Elt(s, v, i) # Outside
  <2> DEFINE k == v.ref
             old == s.mem[k].vec
             new == [old EXCEPT ![i + 1] = x]
             c == [vec |-> new]
  <2>1. /\ k \in 1 .. Len(s.mem) /\ s.mem[k] \in [vec : Seq(Values(s)) \ {<< >>}]
        /\ i + 1 \in 1 .. Len(s.mem[k].vec)
    BY <1>3, EltIs
  <2>2. old \in Seq(Values(s)) /\ old # << >> /\ i + 1 \in 1 .. Len(old)
    BY <2>1
  <2>3. new \in Seq(Values(s)) /\ Len(new) = Len(old) /\ new # << >>
    BY <2>2
  <2>4. c \in Memory(s) /\ c = [s.mem[k] EXCEPT !.vec = new]
    <3> HIDE DEF new, k
    <3>1. c \in Memory(s)
      BY <2>3, ValueElts
    <3>2. PICK d : d = s.mem[k]
      OBVIOUS
    <3>3. c = [d EXCEPT !.vec = new]
      BY <2>1, <3>2
    <3> QED BY <3>1, <3>2, <3>3
  <2>5. KeptCell(s.mem[k], c)
    BY <2>1, <2>3 DEF KeptCell
  <2>6. t = [s EXCEPT !.mem[k].vec[i + 1] = x]
    BY <1>3 DEF PutElt
  <2>7. DOMAIN s.mem = 1 .. Len(s.mem)
    BY Lengths
  <2>8. t.mem = [s.mem EXCEPT ![k] = c] /\ SameRegisters(t, s) /\ t.objs = s.objs /\ t.glob = s.glob
    BY <1>1, <2>4, <2>6 DEF SameRegisters, Blank
  <2>9. "method" \notin DOMAIN c
    OBVIOUS
  <2> HIDE DEF k, c
  <2> QED BY <2>1, <2>4, <2>5, <2>8, <2>9, PutCell
<1> QED BY <1>2, <1>3

-----------------------------------------------------------------------------
(* The stack.                                                              *)

LEMMA PeekIs ==
    ASSUME NEW s, MachineOK(s)
    PROVE  /\ Peek(s) \in Found(s)
           /\ s.stack # << >> => Peek(s) \in Values(s) /\ Last(s.stack) \in Values(s)
                                 /\ Front(s.stack) \in Stacks(s)
           /\ s.stack = << >> => Peek(s) = Outside
<1>1. s.stack \in Seq(Values(s)) /\ Len(s.stack) \in Nat /\ Len(s.stack) <= StackLength
  BY DEF MachineOK, RegistersOK, Stacks
<1>2. ASSUME s.stack # << >>
      PROVE  Last(s.stack) \in Values(s) /\ Front(s.stack) \in Stacks(s)
  <2>1. Last(s.stack) \in Values(s)
    BY <1>1, <1>2 DEF Last
  <2>2. /\ Front(s.stack) = SubSeq(s.stack, 1, Len(s.stack) - 1) /\ Len(s.stack) >= 1
    BY <1>1, <1>2 DEF Front
  <2>3. Front(s.stack) \in Seq(Values(s)) /\ Len(Front(s.stack)) = Len(s.stack) - 1
    BY <1>1, <2>2
  <2> QED BY <1>1, <2>1, <2>3, MachineAssumption DEF Stacks
<1> QED BY <1>2 DEF Peek, Found

LEMMA StackPart ==
    ASSUME NEW s, MachineOK(s), NEW q \in Stacks(s), NEW d \in 0 .. Len(q)
    PROVE  SubSeq(q, 1, d) \in Stacks(s) /\ SubSeq(q, d + 1, Len(q)) \in Seq(Values(s))
<1>1. q \in Seq(Values(s)) /\ Len(q) \in Nat /\ Len(q) <= StackLength
  BY DEF Stacks
<1>2. \A j \in 1 .. Len(q) : q[j] \in Values(s)
  BY <1>1
<1>3. SubSeq(q, 1, d) \in Seq(Values(s)) /\ Len(SubSeq(q, 1, d)) = d
  BY <1>1, <1>2, SubSeqProperties
<1>4. SubSeq(q, d + 1, Len(q)) \in Seq(Values(s))
  BY <1>1, <1>2, SubSeqProperties
<1> QED BY <1>1, <1>3, <1>4, MachineAssumption DEF Stacks

LEMMA TopIs == ASSUME NEW s, MachineOK(s) PROVE Top(s) \in Values(s) /\ s.bottom \in Values(s)
BY PeekIs DEF Top, MachineOK, RegistersOK

\* Registers that hold what s has: the stack, the accumulator.
LEMMA SetStack ==
    ASSUME NEW s, MachineOK(s), NEW q \in Stacks(s), NEW v \in Values(s), NEW b \in Values(s),
           NEW t, SameRegisters(t, [s EXCEPT !.stack = q, !.acc = v, !.bottom = b]), t.mem = s.mem,
           t.objs = s.objs, t.glob = s.glob
    PROVE  Harmless(s, t)
<1>1. Harmless(s, s) /\ DOMAIN s = DOMAIN Blank /\ Fits(s, s)
  BY StaysSound, FitsItself DEF MachineOK, RegistersOK
<1>2. /\ Fits(t, s) /\ SamePlaces(t, s) /\ t.uid = s.uid /\ t.effuid = s.effuid /\ t.trap = s.trap
  BY <1>1 DEF Fits, SameRegisters, SamePlaces, Blank
<1> QED BY <1>1, <1>2, ThenSet

LEMMA PushOnHarmless ==
    ASSUME NEW s, MachineOK(s), NEW v \in Values(s)
    PROVE  Harmless(s, PushOn(s, v))
<1>1. s.stack \in Seq(Values(s)) /\ Len(s.stack) \in Nat /\ s.acc \in Values(s)
      /\ DOMAIN s = DOMAIN Blank
  BY DEF MachineOK, RegistersOK, Stacks
<1>2. Len(s.stack) < StackLength => Append(s.stack, v) \in Stacks(s)
  BY <1>1, MachineAssumption DEF Stacks
<1>3. << v >> \in Stacks(s)
  BY MachineAssumption DEF Stacks
<1> DEFINE q == IF Len(s.stack) < StackLength THEN Append(s.stack, v) ELSE << v >>
           b == IF Len(s.stack) < StackLength /\ s.stack # << >> THEN s.bottom ELSE v
<1>4. PICK t : t = PushOn(s, v)
  OBVIOUS
<1>5. SameRegisters(t, [s EXCEPT !.stack = q, !.acc = s.acc, !.bottom = b]) /\ t.mem = s.mem
      /\ t.objs = s.objs /\ t.glob = s.glob
  BY <1>1, <1>4 DEF PushOn, SameRegisters, Blank
<1>6. q \in Stacks(s) /\ b \in Values(s)
  BY <1>2, <1>3, TopIs
<1> HIDE DEF q, b
<1> QED BY <1>1, <1>4, <1>5, <1>6, SetStack

LEMMA DroppedHarmless ==
    ASSUME NEW s, MachineOK(s)
    PROVE  /\ Harmless(s, Dropped(s)) /\ Harmless(s, Popped(s))
           /\ Dropped(s).acc = s.acc /\ Dropped(s).frame = s.frame /\ Dropped(s).trap = s.trap
           /\ Dropped(s).effuid = s.effuid /\ SamePlaces(Dropped(s), s)
<1>1. /\ s.acc \in Values(s) /\ DOMAIN s = DOMAIN Blank
      /\ s.stack \in Stacks(s) /\ Top(s) \in Values(s) /\ s.bottom \in Values(s)
  BY TopIs DEF MachineOK, RegistersOK
<1> DEFINE q == IF s.stack = << >> THEN << >> ELSE Front(s.stack)
<1>2. q \in Stacks(s)
  BY <1>1, PeekIs
<1>3. PICK t : t = Dropped(s)
  OBVIOUS
<1>4. PICK u : u = Popped(s)
  OBVIOUS
<1>5. /\ SameRegisters(t, [s EXCEPT !.stack = q, !.acc = s.acc, !.bottom = s.bottom])
      /\ t.mem = s.mem /\ t.objs = s.objs /\ t.glob = s.glob /\ t.tmpls = s.tmpls
      /\ t.acc = s.acc /\ t.frame = s.frame /\ t.trap = s.trap /\ t.effuid = s.effuid
      /\ DOMAIN t = DOMAIN Blank
  <2>1. CASE s.stack = << >>
    BY <1>1, <1>3, <2>1 DEF Dropped, SameRegisters, Blank
  <2>2. CASE s.stack # << >>
    BY <1>1, <1>3, <2>2 DEF Dropped, SameRegisters, Blank
  <2> QED BY <2>1, <2>2
<1> HIDE DEF q
<1>6. /\ SameRegisters(u, [s EXCEPT !.stack = q, !.acc = Top(s), !.bottom = s.bottom])
      /\ u.mem = s.mem /\ u.objs = s.objs /\ u.glob = s.glob
  <2>1. u = [t EXCEPT !.acc = Top(s)]
    BY <1>3, <1>4 DEF Popped
  <2>2. PICK v : v = Top(s)
    OBVIOUS
  <2> QED BY <1>1, <1>5, <2>1, <2>2 DEF SameRegisters, Blank
<1>7. Harmless(s, t) /\ Harmless(s, u)
  BY <1>1, <1>2, <1>5, <1>6, SetStack
<1> QED BY <1>3, <1>4, <1>5, <1>7 DEF SamePlaces
-----------------------------------------------------------------------------
(* Frames, calls and continuations.                                        *)

LEMMA PushFrameHarmless ==
    ASSUME NEW s, MachineOK(s), NEW t, t = PushFrame(s)
    PROVE  /\ Harmless(s, t) /\ t.frame \in Frames(t) /\ t.frame # NullV
           /\ SameRegisters([t EXCEPT !.frame = s.frame], s)
<1> DEFINE c == [frame |-> [code |-> s.code, ip |-> s.ip, self |-> s.self, env |-> s.env,
                            frame |-> s.frame, meth |-> s.meth, effuid |-> s.effuid]]
<1>1. c \in Memory(s) /\ "frame" \in DOMAIN c /\ "method" \notin DOMAIN c
      /\ c.frame.effuid \in Powers(s)
  BY HasPower DEF MachineOK, RegistersOK, Memory
<1>2. t = [New(s, c) EXCEPT !.frame = Ref(Len(s.mem) + 1)]
  BY DEF PushFrame
<1> HIDE DEF c
<1>3. PICK u : u = New(s, c)
  OBVIOUS
<1>4. /\ Harmless(s, u) /\ SameRegisters(u, s) /\ Newest(u) = Ref(Len(s.mem) + 1)
      /\ Newest(u) \in Frames(u)
  BY <1>1, <1>3, NewCell
<1>5. MachineOK(u) /\ Fits(u, u) /\ DOMAIN u = DOMAIN Blank
  BY <1>4, FitsItself, StillValues DEF MachineOK, RegistersOK
<1>6. /\ Fits(t, u) /\ SamePlaces(t, u) /\ t.glob = u.glob /\ t.uid = u.uid /\ t.effuid = u.effuid
      /\ t.trap = u.trap /\ t.frame = Newest(u)
  BY <1>2, <1>3, <1>4, <1>5 DEF Fits, SamePlaces, Blank
<1>7. Harmless(s, t)
  BY <1>4, <1>6, ThenSet
<1>8. t.frame \in Frames(t) /\ t.frame # NullV
  <2>1. Frames(t) = Frames(u)
    BY <1>6 DEF Frames, Cells, SamePlaces
  <2>2. Ref(Len(s.mem) + 1) # NullV
    BY DEF Ref, NullV
  <2> QED BY <1>4, <1>6, <2>1, <2>2
<1>9. SameRegisters([t EXCEPT !.frame = s.frame], s)
  BY <1>2, <1>3, <1>4, <1>5 DEF SameRegisters, Blank
<1> QED BY <1>7, <1>8, <1>9

LEMMA RestoreFrameHarmless ==
    ASSUME NEW s, MachineOK(s), NEW f \in Frames(s), NEW t, t = RestoreFrame(s, f)
    PROVE  /\ Harmless(s, t) /\ t.stack = s.stack /\ t.acc = s.acc /\ SamePlaces(t, s)
<1>1. Harmless(s, s) /\ DOMAIN s = DOMAIN Blank /\ Fits(s, s)
  BY StaysSound, FitsItself DEF MachineOK, RegistersOK
<1>2. CASE f = NullV
  <2>1. t = Wild(s)
    BY <1>2, FrameAt DEF RestoreFrame
  <2>2. Harmless(s, t) /\ SameRegisters(t, s)
    BY <1>1, <2>1, ThenWild
  <2> QED BY <1>1, <2>1, <2>2 DEF SameRegisters, Wild, SamePlaces, Blank
<1>3. CASE f # NullV
  <2> DEFINE r == Cell(s, f).frame
  <2>1. /\ Cell(s, f) \in
             [frame : [code : 0 .. Len(s.tmpls), ip : Int, self : Values(s), env : Values(s),
                       frame : Frames(s), meth : {NullV} \cup Methods(s), effuid : Users(s)]]
        /\ Cell(s, f) = s.mem[f.ref] /\ f.ref \in Cells(s, "frame") /\ "frame" \in DOMAIN Cell(s, f)
    BY <1>3, FrameAt
  <2>2. r \in [code : 0 .. Len(s.tmpls), ip : Int, self : Values(s), env : Values(s),
               frame : Frames(s), meth : {NullV} \cup Methods(s), effuid : Users(s)]
    BY <2>1
  <2>3. r.effuid \in Powers(s)
    BY <2>1 DEF Powers
  <2>4. t = [s EXCEPT !.code = r.code, !.ip = r.ip, !.self = r.self, !.env = r.env,
                      !.frame = r.frame, !.meth = r.meth, !.effuid = r.effuid]
    BY <2>1 DEF RestoreFrame
  <2> HIDE DEF r
  <2>5. /\ Fits(t, s) /\ SamePlaces(t, s) /\ t.glob = s.glob /\ t.uid = s.uid
        /\ t.effuid = r.effuid /\ t.trap = s.trap /\ t.stack = s.stack /\ t.acc = s.acc
    BY <1>1, <2>2, <2>4 DEF Fits, SamePlaces, Blank
  <2>6. Harmless(s, t)
    BY <1>1, <2>3, <2>5, ThenSet
  <2> QED BY <2>5, <2>6
<1> QED BY <1>2, <1>3

LEMMA ContinuationHarmless ==
    ASSUME NEW s, MachineOK(s), NEW t, t = Continuation(s)
    PROVE  /\ Harmless(s, t) /\ SameRegisters(t, s) /\ Newest(t) \in Values(t)
           /\ t.glob = s.glob /\ t.objs = s.objs /\ Len(t.mem) = Len(s.mem) + 1
           /\ \A i \in 1 .. Len(s.mem) : t.mem[i] = s.mem[i]
<1> DEFINE c == [cont |-> [frame |-> s.frame, stack |-> s.stack]]
<1>1. c \in Memory(s) /\ "frame" \notin DOMAIN c /\ "method" \notin DOMAIN c
  BY DEF MachineOK, RegistersOK, Memory
<1>2. t = New(s, c)
  BY DEF Continuation
<1> HIDE DEF c
<1> QED BY <1>1, <1>2, NewCell

\* A method is called: the caller's frame is pushed.
LEMMA ActivateHarmless ==
    ASSUME NEW s, MachineOK(s), NEW meth \in Methods(s), NEW self \in Values(s),
           NEW argvec \in Values(s), NEW t, t = Activate(s, meth, self, argvec)
    PROVE  Harmless(s, t)
<1> DEFINE h == Cell(s, meth).method
<1>1. /\ h \in [argc : Nat, code : DOMAIN s.tmpls, env : Values(s),
                owner : Users(s), setuid : BOOLEAN, flags : Int]
      /\ h.setuid => h.owner \in Powers(s)
  <2>1. /\ Cell(s, meth) \in [method : [argc : Nat, code : DOMAIN s.tmpls, env : Values(s),
                                        owner : Users(s), setuid : BOOLEAN, flags : Int]]
        /\ Cell(s, meth) = s.mem[meth.ref] /\ meth.ref \in 1 .. Len(s.mem)
        /\ "method" \in DOMAIN Cell(s, meth)
    BY MethodAt
  <2>2. meth.ref \in Cells(s, "method")
    BY <2>1, Lengths DEF Cells
  <2> QED BY <2>1, <2>2 DEF Powers
<1>2. PICK p : p = PushFrame(s)
  OBVIOUS
<1>3. Harmless(s, p) /\ MachineOK(p) /\ p.frame \in Frames(p)
  BY <1>2, PushFrameHarmless, StillValues
<1>4. PICK u : u = PutElt(p, argvec, 0, h.env)
  OBVIOUS
<1>5. argvec \in Found(p) /\ h.env \in Values(p)
  BY <1>1, <1>3, StillValues DEF Found
<1>6. Harmless(p, u) /\ SameRegisters(u, p)
  BY <1>3, <1>4, <1>5, PutEltHarmless
<1>7. Harmless(s, u) /\ MachineOK(u)
  BY <1>3, <1>6, HarmlessTwice, StillValues
<1>8. t = [u EXCEPT !.env = argvec, !.code = h.code, !.self = self, !.ip = 0, !.meth = meth,
                    !.effuid = IF h.setuid THEN h.owner ELSE u.effuid]
  BY <1>2, <1>4 DEF Activate
<1>9. /\ argvec \in Values(u) /\ self \in Values(u) /\ meth \in Methods(u) /\ h.owner \in Users(u)
      /\ h.code \in 0 .. Len(u.tmpls) /\ h.setuid \in BOOLEAN
  BY <1>1, <1>7, StillValues, Lengths
<1>10. DOMAIN u = DOMAIN Blank /\ Fits(u, u)
  BY <1>7, FitsItself DEF MachineOK, RegistersOK
<1> HIDE DEF h
<1>11. /\ Fits(t, u) /\ SamePlaces(t, u) /\ t.glob = u.glob /\ t.uid = u.uid /\ t.trap = u.trap
       /\ t.effuid = (IF h.setuid THEN h.owner ELSE u.effuid)
  BY <1>8, <1>9, <1>10 DEF Fits, SamePlaces, Blank
<1> QED BY <1>1, <1>7, <1>11, ThenSet

LEMMA ApplyToHarmless ==
    ASSUME NEW s, MachineOK(s), NEW f \in Values(s), IsClosure(s, f), NEW argvec \in Values(s),
           NEW t, t = ApplyTo(s, f, argvec)
    PROVE  Harmless(s, t)
<1>1. Cell(s, f).closure.meth \in Methods(s) /\ Cell(s, f).closure.self \in Values(s)
  BY ClosureAt
<1> QED BY <1>1, ActivateHarmless DEF ApplyTo

\* vm_raise
LEMMA RaiseHarmless ==
    ASSUME NEW s, MachineOK(s), NEW exception \in SymbolNames, NEW arg \in Values(s)
    PROVE  Harmless(s, Raise(s, exception, arg))
<1>1. Harmless(s, s)
  BY StaysSound
<1>2. CASE s.trap = NullV
  BY <1>1, <1>2, ThenWild DEF Raise
<1>3. CASE s.trap # NullV
  <2>1. PICK q : q = PushFrame(s)
    OBVIOUS
  <2>2. Harmless(s, q) /\ MachineOK(q)
    BY <2>1, PushFrameHarmless, StillValues
  <2>3. PICK p : p = Continuation(q)
    OBVIOUS
  <2>4. Harmless(q, p) /\ Newest(p) \in Values(p)
    BY <2>2, <2>3, ContinuationHarmless
  <2>5. Harmless(s, p) /\ MachineOK(p)
    BY <2>2, <2>4, HarmlessTwice, StillValues
  <2> DEFINE elts == << NullV, Sym(exception), arg, Newest(p), s.acc >>
             c == [vec |-> elts]
  <2>6. arg \in Values(p) /\ s.acc \in Values(p)
    BY <2>5, StillValues DEF MachineOK, RegistersOK
  <2>7. c \in Memory(p) /\ "frame" \notin DOMAIN c /\ "method" \notin DOMAIN c
    <3>1. NullV \in Values(p) /\ Sym(exception) \in Values(p)
      BY DEF Values, Users, Sym
    <3>2. elts \in Seq(Values(p)) /\ elts # << >>
      <4>1. PICK n : n = Newest(p)
        OBVIOUS
      <4>2. PICK a : a = s.acc
        OBVIOUS
      <4>3. PICK e : e = Sym(exception)
        OBVIOUS
      <4> QED BY <2>4, <2>6, <3>1, <4>1, <4>2, <4>3
    <3> QED BY <2>5, <3>2, ValueElts
  <2>8. PICK v : v = New(p, c)
    OBVIOUS
  <2> HIDE DEF c, elts
  <2>9. Harmless(p, v) /\ Newest(v) \in Values(v)
    BY <2>5, <2>7, <2>8, NewCell
  <2>10. Harmless(s, v) /\ MachineOK(v)
    BY <2>5, <2>9, HarmlessTwice, StillValues
  <2>11. PICK h : h = [v EXCEPT !.stack = << >>]
    OBVIOUS
  <2>12. /\ DOMAIN v = DOMAIN Blank /\ << >> \in Stacks(v)
         /\ v.acc \in Values(v) /\ v.bottom \in Values(v)
    BY <2>10, MachineAssumption DEF MachineOK, RegistersOK, Stacks
  <2>13. /\ SameRegisters(h, [v EXCEPT !.stack = << >>, !.acc = v.acc, !.bottom = v.bottom])
         /\ h.mem = v.mem /\ h.objs = v.objs /\ h.glob = v.glob /\ h.tmpls = v.tmpls
    BY <2>11, <2>12 DEF SameRegisters, Blank
  <2>14. Harmless(v, h)
    BY <2>10, <2>12, <2>13, SetStack
  <2>15. Harmless(s, h) /\ MachineOK(h) /\ Newest(v) \in Values(h)
    BY <2>9, <2>10, <2>14, HarmlessTwice, StillValues
  <2>16. s.trap \in Values(h)
    BY <2>15, StillValues DEF MachineOK, RegistersOK
  <2>17. CASE IsClosure(h, s.trap) /\ Applicable(h, s.trap, 4)
    <3>1. Raise(s, exception, arg) = [ApplyTo(h, s.trap, Newest(v)) EXCEPT !.frame = NullV]
      BY <1>3, <2>1, <2>3, <2>8, <2>11, <2>17 DEF Raise, elts, c
    <3>2. PICK a : a = ApplyTo(h, s.trap, Newest(v))
      OBVIOUS
    <3>3. Harmless(h, a)
      BY <2>15, <2>16, <2>17, <3>2, ApplyToHarmless
    <3>4. Harmless(s, a) /\ MachineOK(a)
      BY <2>15, <3>3, HarmlessTwice, StillValues
    <3>5. DOMAIN a = DOMAIN Blank /\ Fits(a, a)
      BY <3>4, FitsItself DEF MachineOK, RegistersOK
    <3>6. PICK t : t = [a EXCEPT !.frame = NullV]
      OBVIOUS
    <3>7. /\ Fits(t, a) /\ SamePlaces(t, a) /\ t.glob = a.glob /\ t.uid = a.uid
          /\ t.effuid = a.effuid /\ t.trap = a.trap
      BY <3>5, <3>6 DEF Fits, SamePlaces, Blank, Frames
    <3>8. Harmless(s, t)
      BY <3>4, <3>7, ThenSet
    <3> QED BY <3>1, <3>2, <3>6, <3>8
  <2>18. CASE ~(IsClosure(h, s.trap) /\ Applicable(h, s.trap, 4))
    <3>1. Raise(s, exception, arg) = Wild(h)
      BY <1>3, <2>1, <2>3, <2>8, <2>11, <2>18 DEF Raise, elts, c
    <3> QED BY <2>15, <3>1, ThenWild
  <2> QED BY <2>17, <2>18
<1> QED BY <1>2, <1>3

LEMMA ApplyClosureHarmless ==
    ASSUME NEW s, MachineOK(s), NEW f \in Values(s), IsClosure(s, f), NEW argvec \in Values(s)
    PROVE  Harmless(s, ApplyClosure(s, f, argvec))
<1>1. Cell(s, f).closure.meth \in Values(s) /\ Undefined \in Values(s)
  BY ClosureAt, MethodAt DEF Values
<1>2. PICK c : c = Cell(s, f).closure.meth
  OBVIOUS
<1>3. /\ Harmless(s, Raise(s, "no-permission", Undefined))
      /\ Harmless(s, Raise(s, "wrong-argc", c))
  <2>1. "no-permission" \in SymbolNames /\ "wrong-argc" \in SymbolNames /\ c \in Values(s)
    BY <1>1, <1>2 DEF SymbolNames, Raised
  <2>2. Harmless(s, Raise(s, "wrong-argc", c))
    BY <2>1, RaiseHarmless
  <2>3. Harmless(s, Raise(s, "no-permission", Undefined))
    BY <1>1, <2>1, RaiseHarmless
  <2> QED BY <2>2, <2>3
<1>4. Harmless(s, ApplyTo(s, f, argvec))
  BY ApplyToHarmless
<1> QED BY <1>2, <1>3, <1>4 DEF ApplyClosure

LEMMA ResumeHarmless ==
    ASSUME NEW s, MachineOK(s), NEW k \in Values(s), "cont" \in DOMAIN Cell(s, k), NEW v \in Found(s)
    PROVE  Harmless(s, Resume(s, k, v))
<1>1. CASE v = Outside
  BY <1>1, StaysSound, ThenWild DEF Resume
<1>2. CASE v # Outside
  <2>1. Cell(s, k).cont.frame \in Frames(s) /\ Cell(s, k).cont.stack \in Stacks(s) /\ v \in Values(s)
    BY <1>2, ContinuationAt DEF Found
  <2>2. PICK q : q = Cell(s, k).cont.stack
    OBVIOUS
  <2>3. PICK r : r = RestoreFrame(s, Cell(s, k).cont.frame)
    OBVIOUS
  <2>4. Harmless(s, r) /\ MachineOK(r)
    BY <2>1, <2>3, RestoreFrameHarmless, StillValues
  <2>5. q \in Stacks(r) /\ v \in Values(r) /\ DOMAIN r = DOMAIN Blank
    BY <2>1, <2>2, <2>4, StillValues DEF MachineOK, RegistersOK
  <2>6. PICK b : b = IF q = << >> THEN r.bottom ELSE Head(q)
    OBVIOUS
  <2>7. b \in Values(r)
    <3>1. q # << >> => Head(q) \in Values(r)
      BY <2>5 DEF Stacks
    <3> QED BY <2>4, <2>6, <3>1, TopIs
  <2>10. PICK t : t = [r EXCEPT !.stack = q, !.acc = v, !.bottom = b]
    OBVIOUS
  <2>11. SameRegisters(t, [r EXCEPT !.stack = q, !.acc = v, !.bottom = b]) /\ t.mem = r.mem
         /\ t.objs = r.objs /\ t.glob = r.glob
    BY <2>5, <2>10 DEF SameRegisters, Blank
  <2>8. Harmless(r, t)
    BY <2>4, <2>5, <2>7, <2>11, SetStack
  <2>9. Harmless(s, t)
    BY <2>4, <2>8, HarmlessTwice
  <2>12. Resume(s, k, v) = t
    BY <1>2, <2>2, <2>3, <2>5, <2>6, <2>10 DEF Resume, Blank
  <2> QED BY <2>9, <2>12
<1> QED BY <1>1, <1>2

-----------------------------------------------------------------------------
(* Slots and methods are found where they are.                             *)

LEMMA FindIs ==
    ASSUME NEW s, MachineOK(s), NEW o \in Values(s), IsObj(o), NEW table, NEW name
    PROVE  LET at == Find(s, o, table, name)
           IN  /\ at \in 0 .. Len(s.objs)
               /\ at # 0 => at \in 1 .. Len(s.objs) /\ name \in DOMAIN s.objs[at][table]
<1> DEFINE n == Len(s.objs)
           G(f, k) == [i \in 0 .. k |->
                          IF i = 0 THEN 0
                          ELSE IF name \in DOMAIN s.objs[i][table] THEN i ELSE f[s.objs[i].parent]]
           up == CHOOSE f : f = G(f, n)
<1>1. n \in Nat /\ o.obj \in 1 .. n /\ \A i \in 1 .. n : s.objs[i].parent \in 0 .. i - 1
  BY Lengths, ObjIs DEF MachineOK, MemoryOK, ObjectOK
<1>2. Find(s, o, table, name) = up[o.obj]
  BY DEF Find
<1> DEFINE T == {k \in Nat : k <= n => \E f : f = G(f, k) /\ DOMAIN f = 0 .. k}
<1> HIDE DEF n
<1>3. 0 \in T
  <2> DEFINE f == [i \in 0 .. 0 |-> 0]
  <2>1. f = G(f, 0)
    OBVIOUS
  <2>2. DOMAIN f = 0 .. 0
    OBVIOUS
  <2> QED BY <2>1, <2>2
<1>4. ASSUME NEW k \in Nat, k \in T PROVE k + 1 \in T
  <2> SUFFICES ASSUME k + 1 <= n PROVE \E f : f = G(f, k + 1) /\ DOMAIN f = 0 .. k + 1
    OBVIOUS
  <2>1. PICK f : f = G(f, k) /\ DOMAIN f = 0 .. k
    <3> HIDE DEF G
    <3>1. k <= n
      BY <1>1
    <3> QED BY <1>4, <3>1
  <2> DEFINE g == G(f, k + 1)
  <2>2. DOMAIN g = 0 .. k + 1
    OBVIOUS
  <2>3. \A i \in 0 .. k : g[i] = f[i]
    <3> SUFFICES ASSUME NEW i \in 0 .. k PROVE g[i] = f[i]
      OBVIOUS
    <3>1. f[i] = G(f, k)[i]
      BY <2>1
    <3>2. i \in 0 .. k + 1
      OBVIOUS
    <3> QED BY <3>1, <3>2
  <2>4. \A i \in 1 .. k + 1 : s.objs[i].parent \in 0 .. k
    BY <1>1
  <2>5. g = G(g, k + 1)
    <3>1. \A i \in 1 .. k + 1 : g[s.objs[i].parent] = f[s.objs[i].parent]
      BY <2>3, <2>4
    <3>2. \A i \in 0 .. k + 1 : i = 0 \/ i \in 1 .. k + 1
      OBVIOUS
    <3> HIDE DEF g
    <3>3. \A i \in 0 .. k + 1 : G(f, k + 1)[i] = G(g, k + 1)[i]
      BY <3>1, <3>2
    <3>4. G(f, k + 1) = G(g, k + 1)
      BY <3>3
    <3> QED BY <3>4 DEF g
  <2> HIDE DEF g
  <2> QED BY <2>2, <2>5
<1>5. \E f : f = G(f, n)
  <2>1. Nat \subseteq T
    <3> HIDE DEF T
    <3> QED BY <1>3, <1>4, InductionOnNat
  <2>2. n \in T /\ n <= n
    <3> HIDE DEF T
    <3> QED BY <1>1, <2>1
  <2> HIDE DEF G
  <2> QED BY <2>2
<1>6. up = G(up, n)
  <2> HIDE DEF G
  <2> QED BY <1>5
<1> HIDE DEF up
<1> DEFINE Right(i) == up[i] \in 0 .. n
                       /\ (up[i] # 0 => up[i] \in 1 .. n /\ name \in DOMAIN s.objs[up[i]][table])
           S == {k \in Nat : \A i \in 0 .. n : i <= k => Right(i)}
<1>7. Nat \subseteq S
  <2>1. up[0] = 0
    BY <1>1, <1>6
  <2>2. \A i \in 1 .. n : up[i] = IF name \in DOMAIN s.objs[i][table] THEN i ELSE up[s.objs[i].parent]
    BY <1>1, <1>6, SMTT(60)
  <2>3. 0 \in S
    BY <1>1, <2>1
  <2>4. ASSUME NEW k \in Nat, k \in S PROVE k + 1 \in S
    <3> SUFFICES ASSUME NEW i \in 0 .. n, i <= k + 1 PROVE Right(i)
      OBVIOUS
    <3>1. CASE i <= k
      BY <2>4, <3>1
    <3>2. CASE i = k + 1
      <4>1. i \in 1 .. n
        BY <1>1, <3>2
      <4>2. CASE name \in DOMAIN s.objs[i][table]
        BY <1>1, <2>2, <4>1, <4>2
      <4>3. CASE name \notin DOMAIN s.objs[i][table]
        <5>1. up[i] = up[s.objs[i].parent]
          BY <2>2, <4>1, <4>3
        <5>2. PICK p \in 0 .. n : p = s.objs[i].parent /\ p <= k
          BY <1>1, <3>2, <4>1
        <5>3. Right(p)
          BY <2>4, <5>2
        <5>4. up[i] = up[p]
          BY <5>1, <5>2
        <5> QED BY <5>3, <5>4
      <4> QED BY <4>2, <4>3
    <3> QED BY <1>1, <3>1, <3>2
  <2> HIDE DEF S
  <2> QED BY <2>3, <2>4, InductionOnNat
<1>8. Right(o.obj)
  BY <1>1, <1>7, SMTT(30)
<1> QED BY <1>2, <1>8 DEF n
-----------------------------------------------------------------------------
(* The primitives.                                                         *)

\* A slot that was found, and a method.
LEMMA SlotIs ==
    ASSUME NEW s, MachineOK(s), NEW o \in Values(s), IsObj(o), NEW name,
           Find(s, o, "slots", name) # 0
    PROVE  Slot(s, o, name) \in [value : Values(s), owner : Users(s), flags : Int]
<1>1. PICK at : at = Find(s, o, "slots", name)
  OBVIOUS
<1>2. at \in 1 .. Len(s.objs) /\ name \in DOMAIN s.objs[at]["slots"]
  BY <1>1, FindIs
<1>3. ObjectOK(s, at)
  BY <1>2 DEF MachineOK, MemoryOK
<1>4. s.objs[at].slots[name] \in [value : Values(s), owner : Users(s), flags : Int]
  BY <1>2, <1>3 DEF ObjectOK
<1> QED BY <1>1, <1>4 DEF Slot

LEMMA MethodFound ==
    ASSUME NEW s, MachineOK(s), NEW o \in Values(s), IsObj(o), NEW name,
           Find(s, o, "methods", name) # 0
    PROVE  Method(s, o, name) \in Methods(s)
<1>1. PICK at : at = Find(s, o, "methods", name)
  OBVIOUS
<1>2. at \in 1 .. Len(s.objs) /\ name \in DOMAIN s.objs[at]["methods"]
  BY <1>1, FindIs
<1>3. ObjectOK(s, at)
  BY <1>2 DEF MachineOK, MemoryOK
<1>4. s.objs[at].methods[name] \in Methods(s)
  BY <1>2, <1>3 DEF ObjectOK
<1> QED BY <1>1, <1>4 DEF Method

LEMMA FailingHarmless ==
    ASSUME NEW s, MachineOK(s), NEW exception \in SymbolNames, NEW arg \in Values(s)
    PROVE  Harmless(s, Failing(s, exception, arg))
<1>1. PICK u : u = Raise(s, exception, arg)
  OBVIOUS
<1>2. Harmless(s, u) /\ Undefined \in Values(u)
  BY <1>1, RaiseHarmless DEF Values
<1>3. Harmless(s, Returning(u, Undefined))
  BY <1>2, ThenReturn
<1> QED BY <1>1, <1>3 DEF Failing

\* What a primitive returns.
LEMMA ReturningHarmless ==
    ASSUME NEW s, MachineOK(s), NEW v \in Values(s)
    PROVE  Harmless(s, Returning(s, v))
BY StaysSound, ThenReturn

LEMMA Truths ==
    ASSUME NEW s
    PROVE  /\ Bool(TRUE) \in Values(s) /\ False \in Values(s) /\ Undefined \in Values(s)
           /\ Yield \in Values(s) /\ NullV \in Values(s) /\ \A b \in BOOLEAN : Bool(b) \in Values(s)
BY DEF Values, Users, Bool, False

\* A table with one more entry, or another in its place.
LEMMA PutInIs ==
    ASSUME NEW S, NEW table, \A n \in DOMAIN table : table[n] \in S, NEW name, NEW x \in S
    PROVE  \A n \in DOMAIN PutIn(table, name, x) : PutIn(table, name, x)[n] \in S
BY DEF PutIn

LEMMA AddSlotHarmless ==
    ASSUME NEW s, MachineOK(s), NEW av \in Values(s), NEW o \in Values(s), IsObj(o), NEW name,
           NEW v \in Values(s)
    PROVE  Harmless(s, AddSlot(s, av, o, name, v))
<1> DEFINE at == Find(s, o, "slots", name.sym)
           refused == \/ ~Can(s, s.objs[o.obj], W)
                      \/ at # 0 /\ s.effuid # Slot(s, o, name.sym).owner /\ ~MayAll(s)
<1>1. CASE refused
  <2>1. AddSlot(s, av, o, name, v) = Failing(s, "no-permission", av)
    BY <1>1 DEF AddSlot
  <2>2. "no-permission" \in SymbolNames
    BY DEF SymbolNames, Raised
  <2> QED BY <2>1, <2>2, FailingHarmless
<1>2. CASE ~refused
  <2>1. o.obj \in 1 .. Len(s.objs) /\ IsObject(s, s.objs[o.obj], o.obj)
        /\ DOMAIN s.objs = 1 .. Len(s.objs)
    BY ObjIs, Lengths DEF ObjectOK, IsObject
  <2> DEFINE old == s.objs[o.obj]
             flags == IF at = o.obj THEN old.slots[name.sym].flags ELSE OwnerMask
             slot == [value |-> v, owner |-> s.effuid, flags |-> flags]
             x == [old EXCEPT !.slots = PutIn(old.slots, name.sym, slot)]
  <2>2. flags \in Int
    <3>1. at = o.obj => name.sym \in DOMAIN old.slots
      <4>1. at # 0 => name.sym \in DOMAIN s.objs[at]["slots"]
        BY FindIs
      <4> QED BY <2>1, <4>1
    <3> QED BY <2>1, <3>1 DEF IsObject, OwnerMask
  <2> HIDE DEF flags
  <2>3. slot \in [value : Values(s), owner : Users(s), flags : Int]
    BY <2>2 DEF MachineOK, RegistersOK
  <2> HIDE DEF slot
  <2>4. \A n \in DOMAIN PutIn(old.slots, name.sym, slot) :
           PutIn(old.slots, name.sym, slot)[n] \in [value : Values(s), owner : Users(s), flags : Int]
    BY <2>1, <2>3, PutInIs DEF IsObject
  <2>5. IsObject(s, x, o.obj) /\ x.flags = old.flags
    BY <2>1, <2>4 DEF IsObject
  <2>6. AddSlot(s, av, o, name, v) = [s EXCEPT !.acc = v, !.objs[o.obj].slots = PutIn(@, name.sym,
                [value |-> v, owner |-> s.effuid,
                 flags |-> IF at = o.obj THEN @[name.sym].flags ELSE OwnerMask])]
    BY <1>2 DEF AddSlot
  <2>7. DOMAIN s = DOMAIN Blank
    BY DEF MachineOK, RegistersOK
  <2>8. PICK u : u = [s EXCEPT !.objs = [s.objs EXCEPT ![o.obj] = x]]
    OBVIOUS
  <2>9. Returning(u, v) = AddSlot(s, av, o, name, v)
    BY <2>6, <2>7, <2>8, <2>1 DEF Blank, Returning, slot, flags, IsObject
  <2> HIDE DEF x
  <2>10. SameRegisters(u, s) /\ u.mem = s.mem /\ u.glob = s.glob
         /\ u.objs = [s.objs EXCEPT ![o.obj] = x]
    BY <2>7, <2>8 DEF SameRegisters, Blank
  <2>11. Harmless(s, u)
    BY <2>1, <2>5, <2>10, PutObject
  <2>12. Harmless(s, Returning(u, v))
    <3>1. v \in Values(u)
      BY <2>11, StillValues
    <3> QED BY <2>11, <3>1, ThenReturn
  <2> QED BY <2>9, <2>12
<1> QED BY <1>1, <1>2

LEMMA MethodCopied ==
    ASSUME NEW s,
           NEW h \in [argc : Nat, code : DOMAIN s.tmpls, env : Values(s), owner : Users(s),
                      setuid : BOOLEAN, flags : Int],
           NEW u \in Users(s), NEW b \in BOOLEAN, NEW n \in Int
    PROVE  LET g == [h EXCEPT !.owner = u, !.setuid = b, !.flags = n]
           IN  /\ [method |-> g] \in Memory(s) /\ g.owner = u /\ g.setuid = b
               /\ g.argc = h.argc /\ g.code = h.code /\ g.env = h.env
<1> DEFINE g == [h EXCEPT !.owner = u, !.setuid = b, !.flags = n]
<1>1. g \in [argc : Nat, code : DOMAIN s.tmpls, env : Values(s), owner : Users(s),
              setuid : BOOLEAN, flags : Int]
  OBVIOUS
<1>2. /\ g.owner = u /\ g.setuid = b /\ g.argc = h.argc /\ g.code = h.code /\ g.env = h.env
  OBVIOUS
<1> HIDE DEF g
<1>3. [method |-> g] \in Memory(s)
  BY <1>1 DEF Memory
<1> QED BY <1>2, <1>3 DEF g

LEMMA AddMethodHarmless ==
    ASSUME NEW s, MachineOK(s), NEW av \in Values(s), NEW o \in Values(s), IsObj(o), NEW name,
           NEW f \in Values(s), IsClosure(s, f)
    PROVE  Harmless(s, AddMethod(s, av, o, name, f))
<1> DEFINE at == Find(s, o, "methods", name.sym)
           refused == \/ ~Can(s, s.objs[o.obj], W)
                      \/ at # 0 /\ s.effuid # Cell(s, Method(s, o, name.sym)).method.owner
                         /\ ~HasFlag(Cell(s, Method(s, o, name.sym)).method.flags, CFlag) /\ ~MayAll(s)
           h == Cell(s, Cell(s, f).closure.meth).method
           c == [method |-> [h EXCEPT !.owner = s.effuid, !.setuid = TRUE, !.flags = 4095]]
<1>1. CASE refused
  <2>1. AddMethod(s, av, o, name, f) = Failing(s, "no-permission", av)
    BY <1>1 DEF AddMethod
  <2>2. "no-permission" \in SymbolNames
    BY DEF SymbolNames, Raised
  <2> QED BY <2>1, <2>2, FailingHarmless
<1>2. CASE ~refused
  <2>1. c \in Memory(s) /\ "frame" \notin DOMAIN c /\ c.method.owner \in Powers(s)
    <3>1. Cell(s, f).closure.meth \in Methods(s)
      BY ClosureAt
    <3>2. h \in [argc : Nat, code : DOMAIN s.tmpls, env : Values(s), owner : Users(s),
                 setuid : BOOLEAN, flags : Int]
      BY <3>1, MethodAt
    <3>3. s.effuid \in Users(s) /\ s.effuid \in Powers(s)
      BY HasPower DEF MachineOK, RegistersOK
    <3> HIDE DEF h
    <3>4. c.method.owner = s.effuid /\ "frame" \notin DOMAIN c
      <4> DEFINE g == [h EXCEPT !.owner = s.effuid, !.setuid = TRUE, !.flags = 4095]
      <4>1. g.owner = s.effuid
        BY <3>2
      <4> HIDE DEF g
      <4>2. [method |-> g].method = g /\ "frame" \notin DOMAIN [method |-> g]
        OBVIOUS
      <4>3. c = [method |-> g]
        BY DEF g
      <4> HIDE DEF c
      <4> QED BY <4>1, <4>2, <4>3
    <3>5. c \in Memory(s)
      <4>1. PICK n \in Int : n = 4095
        OBVIOUS
      <4>2. PICK b \in BOOLEAN : b = TRUE
        OBVIOUS
      <4>3. [method |-> [h EXCEPT !.owner = s.effuid, !.setuid = b, !.flags = n]] \in Memory(s)
        BY <3>2, <3>3, MethodCopied, ZenonT(30)
      <4> QED BY <4>1, <4>2, <4>3
    <3> HIDE DEF c
    <3> QED BY <3>3, <3>4, <3>5
  <2>2. PICK n : n = New(s, c)
    OBVIOUS
  <2>3. "method" \in DOMAIN c
    OBVIOUS
  <2>4. AddMethod(s, av, o, name, f) =
           [n EXCEPT !.acc = f, !.objs[o.obj].methods = PutIn(@, name.sym, Newest(n))]
    BY <1>2, <2>2 DEF AddMethod
  <2> HIDE DEF c
  <2>5. Harmless(s, n) /\ Newest(n) \in Methods(n) /\ n.objs = s.objs
    BY <2>1, <2>2, <2>3, NewCell
  <2>6. MachineOK(n) /\ o \in Values(n) /\ f \in Values(n) /\ DOMAIN n = DOMAIN Blank
    BY <2>5, StillValues DEF MachineOK, RegistersOK
  <2>7. o.obj \in 1 .. Len(n.objs) /\ IsObject(n, n.objs[o.obj], o.obj)
        /\ DOMAIN n.objs = 1 .. Len(n.objs)
    BY <2>6, ObjIs, Lengths DEF ObjectOK, IsObject
  <2> DEFINE old == n.objs[o.obj]
             x == [old EXCEPT !.methods = PutIn(old.methods, name.sym, Newest(n))]
  <2>8. \A k \in DOMAIN PutIn(old.methods, name.sym, Newest(n)) :
           PutIn(old.methods, name.sym, Newest(n))[k] \in Methods(n)
    BY <2>5, <2>7, PutInIs DEF IsObject
  <2>9. IsObject(n, x, o.obj) /\ x.flags = old.flags
    BY <2>7, <2>8 DEF IsObject
  <2>10. PICK u : u = [n EXCEPT !.objs = [n.objs EXCEPT ![o.obj] = x]]
    OBVIOUS
  <2>11. Returning(u, f) = AddMethod(s, av, o, name, f)
    BY <2>4, <2>6, <2>7, <2>10 DEF Blank, Returning, IsObject
  <2> HIDE DEF x
  <2>12. SameRegisters(u, n) /\ u.mem = n.mem /\ u.glob = n.glob
         /\ u.objs = [n.objs EXCEPT ![o.obj] = x]
    BY <2>6, <2>10 DEF SameRegisters, Blank
  <2>13. Harmless(n, u)
    BY <2>6, <2>7, <2>9, <2>12, PutObject
  <2>14. Harmless(s, u) /\ f \in Values(u)
    BY <2>5, <2>6, <2>13, HarmlessTwice, StillValues
  <2>15. Harmless(s, Returning(u, f))
    BY <2>14, ThenReturn
  <2> QED BY <2>11, <2>15
<1> QED BY <1>1, <1>2

LEMMA CallCCHarmless ==
    ASSUME NEW s, MachineOK(s), NEW f \in Values(s), IsClosure(s, f)
    PROVE  Harmless(s, CallCC(s, f))
<1> DEFINE i == Len(s.mem) + 1
           c == [vec |-> << NullV, NullV >>]
<1>1. c \in Memory(s) /\ "frame" \notin DOMAIN c /\ "method" \notin DOMAIN c
  <2>1. NullV \in Values(s)
    BY Truths
  <2>2. << NullV, NullV >> \in Seq(Values(s)) /\ << NullV, NullV >> # << >>
    BY <2>1
  <2> QED BY <2>2, ValueElts
<1>2. PICK v : v = New(s, c)
  OBVIOUS
<1>3. Harmless(s, v) /\ Newest(v) \in Values(v) /\ v.mem[i] = c /\ Len(v.mem) = i
      /\ \A j \in 1 .. Len(s.mem) : v.mem[j] = s.mem[j]
  BY <1>1, <1>2, NewCell
<1>4. MachineOK(v) /\ f \in Values(v)
  BY <1>3, StillValues
<1>5. IsClosure(v, f)
  BY <1>3, ClosureAt DEF IsClosure, Cell
<1>6. PICK a : a = ApplyClosure(v, f, Newest(v))
  OBVIOUS
<1>7. Harmless(v, a) /\ MachineOK(a)
  BY <1>3, <1>4, <1>5, <1>6, ApplyClosureHarmless, StillValues
<1>8. PICK k : k = Continuation(a)
  OBVIOUS
<1>9. Harmless(a, k) /\ Newest(k) \in Values(k)
  BY <1>7, <1>8, ContinuationHarmless
<1>10. Harmless(v, k) /\ MachineOK(k)
  BY <1>4, <1>7, <1>9, HarmlessTwice, StillValues
<1>11. Harmless(s, k)
  BY <1>3, <1>10, HarmlessTwice
<1>12. i \in 1 .. Len(k.mem) /\ KeptCell(c, k.mem[i])
  <2>1. Len(s.mem) \in Nat
    BY Lengths
  <2> QED BY <2>1, <1>3, <1>10, Lengths, SMTT(60) DEF Harmless, Sound, Captured
<1>13. k.mem[i] \in [vec : Seq(Values(k)) \ {<< >>}] /\ Len(k.mem[i].vec) = 2
  <2>1. k.mem[i] \in Memory(k)
    BY <1>10, <1>12, Lengths
  <2>2. "vec" \in DOMAIN k.mem[i]
    BY <1>12 DEF KeptCell
  <2>3. Len(k.mem[i].vec) = 2
    BY <1>12 DEF KeptCell
  <2> QED BY <2>1, <2>2, <2>3, VectorIs
<1> DEFINE w == [k.mem[i].vec EXCEPT ![2] = Newest(k)]
           d == [vec |-> w]
<1>14. w \in Seq(Values(k)) /\ Len(w) = 2 /\ w # << >>
  <2>1. PICK q : q = k.mem[i].vec
    OBVIOUS
  <2>2. PICK n : n = Newest(k)
    OBVIOUS
  <2>3. q \in Seq(Values(k)) /\ Len(q) = 2 /\ n \in Values(k)
    BY <1>9, <1>13, <2>1, <2>2
  <2>4. [q EXCEPT ![2] = n] \in Seq(Values(k)) /\ Len([q EXCEPT ![2] = n]) = 2
    <3>1. 2 \in 1 .. Len(q)
      BY <2>3
    <3> QED BY <2>3, <3>1, SeqExcept
  <2> QED BY <2>1, <2>2, <2>4
<1>15. d \in Memory(k) /\ KeptCell(k.mem[i], d) /\ "method" \notin DOMAIN d
  <2> HIDE DEF w
  <2>1. d \in Memory(k)
    BY <1>10, <1>14, ValueElts
  <2> QED BY <2>1, <1>13, <1>14 DEF KeptCell
<1>16. PICK t : t = [k EXCEPT !.mem = [k.mem EXCEPT ![i] = d]]
  OBVIOUS
<1>17. CallCC(s, f) = [k EXCEPT !.mem[Len(s.mem) + 1].vec[2] = Newest(k)]
  BY <1>2, <1>6, <1>8 DEF CallCC
<1>18. DOMAIN k = DOMAIN Blank /\ DOMAIN k.mem = 1 .. Len(k.mem)
  BY <1>10, Lengths DEF MachineOK, RegistersOK
<1>19. t = CallCC(s, f)
  <2>1. d = [k.mem[i] EXCEPT !.vec = w]
    <3> HIDE DEF w
    <3>1. PICK e : e = k.mem[i]
      OBVIOUS
    <3>2. d = [e EXCEPT !.vec = w]
      BY <1>13, <3>1
    <3> QED BY <3>1, <3>2
  <2> HIDE DEF d
  <2> QED BY <1>16, <1>17, <1>18, <2>1 DEF Blank
<1> HIDE DEF d, i
<1>20. SameRegisters(t, k) /\ t.objs = k.objs /\ t.glob = k.glob /\ t.mem = [k.mem EXCEPT ![i] = d]
  BY <1>16, <1>18 DEF SameRegisters, Blank
<1>21. Harmless(k, t)
  BY <1>10, <1>12, <1>15, <1>20, PutCell
<1> QED BY <1>11, <1>19, <1>21, HarmlessTwice

\* The flags and the privilege of a method change in place.
LEMMA ChangeMethod ==
    ASSUME NEW s, MachineOK(s), NEW meth \in Methods(s), NEW b \in BOOLEAN, NEW n \in Int, NEW g,
           g = [Cell(s, meth).method EXCEPT !.setuid = b, !.flags = n],
           NEW u, u = [s EXCEPT !.mem = [s.mem EXCEPT ![meth.ref] = [method |-> g]]]
    PROVE  /\ Sound(s, u)
           /\ (b => Cell(s, meth).method.setuid) => Harmless(s, u)
<1>1. /\ meth.ref \in 1 .. Len(s.mem) /\ Cell(s, meth) = s.mem[meth.ref]
      /\ Cell(s, meth) \in [method : [argc : Nat, code : DOMAIN s.tmpls, env : Values(s),
                                      owner : Users(s), setuid : BOOLEAN, flags : Int]]
      /\ DOMAIN s = DOMAIN Blank
  BY MethodAt DEF MachineOK, RegistersOK
<1>2. PICK h : h = Cell(s, meth).method
  OBVIOUS
<1>3. h \in [argc : Nat, code : DOMAIN s.tmpls, env : Values(s), owner : Users(s),
             setuid : BOOLEAN, flags : Int]
  BY <1>1, <1>2
<1>4. PICK k : k = [h EXCEPT !.owner = h.owner, !.setuid = b, !.flags = n]
  OBVIOUS
<1>5. /\ [method |-> k] \in Memory(s) /\ k.owner = h.owner /\ k.setuid = b
      /\ k.argc = h.argc /\ k.code = h.code /\ k.env = h.env
  <2>1. h.owner \in Users(s)
    BY <1>3
  <2> QED BY <1>3, <1>4, <2>1, MethodCopied
<1>6. k = g
  BY <1>2, <1>3, <1>4
<1>7. PICK c : c = [method |-> g]
  OBVIOUS
<1>8. DOMAIN c = {"method"} /\ c.method = g
  BY <1>7
<1>9. KeptCell(s.mem[meth.ref], c)
  <2>1. DOMAIN s.mem[meth.ref] = {"method"} /\ s.mem[meth.ref].method = h
    BY <1>1, <1>2
  <2> QED BY <1>5, <1>6, <1>8, <2>1 DEF KeptCell
<1>10. SameRegisters(u, s) /\ u.objs = s.objs /\ u.glob = s.glob
       /\ u.mem = [s.mem EXCEPT ![meth.ref] = c]
  BY <1>1, <1>7 DEF SameRegisters, Blank
<1>11. c \in Memory(s) /\ c.method.setuid = b /\ s.mem[meth.ref].method.setuid = h.setuid
  BY <1>1, <1>2, <1>5, <1>6, <1>7, <1>8
<1>12. Sound(s, u)
  BY <1>1, <1>9, <1>10, <1>11, PutCell, ZenonT(30)
<1>13. ASSUME b => h.setuid PROVE Harmless(s, u)
  BY <1>1, <1>9, <1>10, <1>11, <1>13, PutCell, ZenonT(60)
<1> QED BY <1>2, <1>12, <1>13

LEMMA SetMethodFlagsHarmless ==
    ASSUME NEW s, MachineOK(s), NEW av \in Values(s), NEW f \in Values(s), IsClosure(s, f),
           NEW n \in Int
    PROVE  Harmless(s, SetMethodFlags(s, av, f, n))
<1> DEFINE meth == Cell(s, f).closure.meth
           refused == s.effuid # Cell(s, meth).method.owner /\ ~MayAll(s)
<1>1. CASE refused
  <2>1. SetMethodFlags(s, av, f, n) = Failing(s, "no-permission", av)
    BY <1>1 DEF SetMethodFlags
  <2>2. "no-permission" \in SymbolNames
    BY DEF SymbolNames, Raised
  <2> QED BY <2>1, <2>2, FailingHarmless
<1>2. CASE ~refused
  <2>1. PICK p : p = meth
    OBVIOUS
  <2>2. p \in Methods(s)
    BY <2>1, ClosureAt
  <2>3. /\ p.ref \in 1 .. Len(s.mem) /\ Cell(s, p) = s.mem[p.ref] /\ DOMAIN s.mem = 1 .. Len(s.mem)
        /\ Cell(s, p) \in [method : [argc : Nat, code : DOMAIN s.tmpls, env : Values(s),
                                     owner : Users(s), setuid : BOOLEAN, flags : Int]]
        /\ DOMAIN s = DOMAIN Blank
    BY <2>2, MethodAt, Lengths DEF MachineOK, RegistersOK
  <2>4. PICK k \in Int : k = Settable(n)
    BY DEF Settable, CFlag
  <2>5. SetMethodFlags(s, av, f, n) = [s EXCEPT !.acc = Bool(TRUE), !.mem[p.ref].method.flags = k]
    BY <1>2, <2>1, <2>4 DEF SetMethodFlags
  <2>6. PICK h : h = Cell(s, p).method
    OBVIOUS
  <2>7. PICK b \in BOOLEAN : b = h.setuid
    BY <2>3, <2>6
  <2>8. PICK g : g = [h EXCEPT !.setuid = b, !.flags = k]
    OBVIOUS
  <2>9. PICK c : c = [method |-> g]
    OBVIOUS
  <2>10. PICK u : u = [s EXCEPT !.mem = [s.mem EXCEPT ![p.ref] = c]]
    OBVIOUS
  <2>11. c = [s.mem[p.ref] EXCEPT !.method.flags = k]
    <3>1. PICK d : d = s.mem[p.ref]
      OBVIOUS
    <3>2. d \in [method : [argc : Nat, code : DOMAIN s.tmpls, env : Values(s),
                           owner : Users(s), setuid : BOOLEAN, flags : Int]] /\ d.method = h
      BY <2>3, <2>6, <3>1
    <3>3. g = [h EXCEPT !.flags = k]
      BY <3>2, <2>7, <2>8
    <3>4. c = [d EXCEPT !.method.flags = k]
      BY <3>2, <3>3, <2>9
    <3> QED BY <3>1, <3>4
  <2>12. Returning(u, Bool(TRUE)) = SetMethodFlags(s, av, f, n)
    BY <2>3, <2>5, <2>10, <2>11 DEF Returning, Blank
  <2>13. Harmless(s, u)
    BY <2>2, <2>6, <2>7, <2>8, <2>9, <2>10, ChangeMethod
  <2>14. Harmless(s, Returning(u, Bool(TRUE)))
    <3>1. Bool(TRUE) \in Values(u)
      BY Truths
    <3> QED BY <2>13, <3>1, ThenReturn
  <2> QED BY <2>12, <2>14
<1> QED BY <1>1, <1>2

-----------------------------------------------------------------------------
(* What only a privileged program may do.                                  *)

Allowed(s, t) == Sound(s, t) /\ (MayAll(s) \/ NothingGained(s, t))

LEMMA HarmlessAllowed == ASSUME NEW s, NEW t, Harmless(s, t) PROVE Allowed(s, t)
BY DEF Harmless, Allowed

\* What a privileged program does to registers, objects and globals.
LEMMA ThenReturnSound ==
    ASSUME NEW s, MachineOK(s), NEW u, Sound(s, u), NEW v \in Values(u)
    PROVE  Sound(s, Returning(u, v))
<1>1. MachineOK(u)
  BY DEF Sound
<1>2. Harmless(u, Returning(u, v))
  BY <1>1, ReturningHarmless
<1> QED BY <1>2, SoundTwice DEF Harmless

LEMMA SetSetuidAllowed ==
    ASSUME NEW s, MachineOK(s), NEW f \in Values(s), IsClosure(s, f), NEW v
    PROVE  Allowed(s, SetSetuid(s, f, v))
<1>1. CASE ~MayAll(s)
  <2>1. SetSetuid(s, f, v) = Returning(s, False)
    BY <1>1 DEF SetSetuid
  <2>2. Harmless(s, Returning(s, False))
    BY Truths, ReturningHarmless
  <2> QED BY <2>1, <2>2, HarmlessAllowed
<1>2. CASE MayAll(s)
  <2>1. PICK p : p = Cell(s, f).closure.meth
    OBVIOUS
  <2>2. p \in Methods(s)
    BY <2>1, ClosureAt
  <2>3. /\ p.ref \in 1 .. Len(s.mem) /\ Cell(s, p) = s.mem[p.ref] /\ DOMAIN s.mem = 1 .. Len(s.mem)
        /\ Cell(s, p) \in [method : [argc : Nat, code : DOMAIN s.tmpls, env : Values(s),
                                     owner : Users(s), setuid : BOOLEAN, flags : Int]]
        /\ DOMAIN s = DOMAIN Blank
    BY <2>2, MethodAt, Lengths DEF MachineOK, RegistersOK
  <2>4. SetSetuid(s, f, v) = [s EXCEPT !.acc = Bool(TRUE), !.mem[p.ref].method.setuid = v # False]
    BY <1>2, <2>1 DEF SetSetuid
  <2>5. PICK b \in BOOLEAN : b = (v # False)
    OBVIOUS
  <2>6. PICK h : h = Cell(s, p).method
    OBVIOUS
  <2>7. PICK k \in Int : k = h.flags
    BY <2>3, <2>6
  <2>8. PICK g : g = [h EXCEPT !.setuid = b, !.flags = k]
    OBVIOUS
  <2>9. PICK c : c = [method |-> g]
    OBVIOUS
  <2>10. PICK u : u = [s EXCEPT !.mem = [s.mem EXCEPT ![p.ref] = c]]
    OBVIOUS
  <2>11. c = [s.mem[p.ref] EXCEPT !.method.setuid = b]
    <3>1. PICK d : d = s.mem[p.ref]
      OBVIOUS
    <3>2. d \in [method : [argc : Nat, code : DOMAIN s.tmpls, env : Values(s),
                           owner : Users(s), setuid : BOOLEAN, flags : Int]] /\ d.method = h
      BY <2>3, <2>6, <3>1
    <3>3. g = [h EXCEPT !.setuid = b]
      BY <3>2, <2>7, <2>8
    <3>4. c = [d EXCEPT !.method.setuid = b]
      BY <3>2, <3>3, <2>9
    <3> QED BY <3>1, <3>4
  <2>12. Returning(u, Bool(TRUE)) = SetSetuid(s, f, v)
    BY <2>3, <2>4, <2>5, <2>10, <2>11 DEF Returning, Blank
  <2>13. Sound(s, u)
    BY <2>2, <2>6, <2>7, <2>8, <2>9, <2>10, ChangeMethod
  <2>14. Sound(s, Returning(u, Bool(TRUE)))
    <3>1. Bool(TRUE) \in Values(u)
      BY Truths
    <3> QED BY <2>13, <3>1, ThenReturnSound
  <2> QED BY <1>2, <2>12, <2>14 DEF Allowed
<1> QED BY <1>1, <1>2

LEMMA SetPrivilegedAllowed ==
    ASSUME NEW s, MachineOK(s), NEW o \in Values(s), IsObj(o), NEW v
    PROVE  Allowed(s, SetPrivileged(s, o, v))
<1>1. CASE ~MayAll(s)
  <2>1. SetPrivileged(s, o, v) = Returning(s, False)
    BY <1>1 DEF SetPrivileged
  <2>2. Harmless(s, Returning(s, False))
    BY Truths, ReturningHarmless
  <2> QED BY <2>1, <2>2, HarmlessAllowed
<1>2. CASE MayAll(s)
  <2>1. /\ o.obj \in 1 .. Len(s.objs) /\ IsObject(s, s.objs[o.obj], o.obj)
        /\ DOMAIN s.objs = 1 .. Len(s.objs) /\ DOMAIN s = DOMAIN Blank
    BY ObjIs, Lengths DEF ObjectOK, IsObject, MachineOK, RegistersOK
  <2>2. PICK k \in Int :
           k = s.objs[o.obj].flags
               - (IF HasFlag(s.objs[o.obj].flags, PrivilegedFlag) THEN PrivilegedFlag ELSE 0)
               + (IF v = False THEN 0 ELSE PrivilegedFlag)
    BY <2>1 DEF IsObject, PrivilegedFlag
  <2>3. PICK old : old = s.objs[o.obj]
    OBVIOUS
  <2>4. PICK x : x = [old EXCEPT !.flags = k]
    OBVIOUS
  <2>5. IsObject(s, x, o.obj)
    BY <2>1, <2>3, <2>4 DEF IsObject
  <2>6. PICK u : u = [s EXCEPT !.objs = [s.objs EXCEPT ![o.obj] = x]]
    OBVIOUS
  <2>7. SetPrivileged(s, o, v) = [s EXCEPT !.acc = Bool(TRUE), !.objs[o.obj].flags = k]
    BY <1>2, <2>2 DEF SetPrivileged
  <2>8. Returning(u, Bool(TRUE)) = SetPrivileged(s, o, v)
    BY <2>1, <2>3, <2>4, <2>6, <2>7 DEF Returning, Blank
  <2>9. SameRegisters(u, s) /\ u.mem = s.mem /\ u.glob = s.glob
        /\ u.objs = [s.objs EXCEPT ![o.obj] = x]
    BY <2>1, <2>6 DEF SameRegisters, Blank
  <2>10. Sound(s, u)
    BY <2>1, <2>5, <2>9, PutObject, ZenonT(60)
  <2>11. Sound(s, Returning(u, Bool(TRUE)))
    <3>1. Bool(TRUE) \in Values(u)
      BY Truths
    <3> QED BY <2>10, <3>1, ThenReturnSound
  <2> QED BY <1>2, <2>8, <2>11 DEF Allowed
<1> QED BY <1>1, <1>2

\* A global gets a value.
LEMMA PutGlobal ==
    ASSUME NEW s, MachineOK(s), NEW name, NEW v \in Values(s), NEW u,
           u = [s EXCEPT !.glob = PutIn(s.glob, name, v)]
    PROVE  Sound(s, u)
<1>1. DOMAIN s = DOMAIN Blank /\ \A n \in DOMAIN s.glob : s.glob[n] \in Values(s)
  BY DEF MachineOK, RegistersOK, MemoryOK
<1>2. \A n \in DOMAIN PutIn(s.glob, name, v) : PutIn(s.glob, name, v)[n] \in Values(s)
  BY <1>1, PutInIs
<1>3. SameRegisters(u, s) /\ u.mem = s.mem /\ u.objs = s.objs /\ u.glob = PutIn(s.glob, name, v)
  BY <1>1 DEF SameRegisters, Blank
<1>4. /\ u.objs \in Seq(Range(u.objs)) /\ Len(s.objs) <= Len(u.objs)
      /\ \A i \in 1 .. Len(u.objs) : IsObject(s, u.objs[i], i)
  BY <1>3, Lengths DEF MachineOK, MemoryOK, ObjectOK, IsObject
<1> QED BY <1>2, <1>3, <1>4, PutObjects

LEMMA DefineGlobalAllowed ==
    ASSUME NEW s, MachineOK(s), NEW name, NEW v \in Values(s)
    PROVE  Allowed(s, DefineGlobal(s, name, v))
<1>1. CASE ~MayAll(s)
  <2>1. DefineGlobal(s, name, v) = Returning(s, False)
    BY <1>1 DEF DefineGlobal
  <2>2. Harmless(s, Returning(s, False))
    BY Truths, ReturningHarmless
  <2> QED BY <2>1, <2>2, HarmlessAllowed
<1>2. CASE MayAll(s)
  <2>1. PICK u : u = [s EXCEPT !.glob = PutIn(s.glob, name.sym, v)]
    OBVIOUS
  <2>2. Sound(s, u) /\ Bool(TRUE) \in Values(u)
    BY <2>1, PutGlobal, Truths
  <2>3. DOMAIN s = DOMAIN Blank
    BY DEF MachineOK, RegistersOK
  <2>4. Returning(u, Bool(TRUE)) = DefineGlobal(s, name, v)
    BY <1>2, <2>1, <2>3 DEF Returning, DefineGlobal, Blank
  <2> QED BY <1>2, <2>2, <2>4, ThenReturnSound DEF Allowed
<1> QED BY <1>1, <1>2

LEMMA SetRegisterAllowed ==
    ASSUME NEW s, MachineOK(s), NEW v \in Values(s)
    PROVE  /\ Allowed(s, SetHandler(s, v))
           /\ v \in Users(s) => Allowed(s, SetEffuid(s, v)) /\ Allowed(s, SetRealuid(s, v))
<1>1. CASE ~MayAll(s)
  <2>1. /\ SetHandler(s, v) = Returning(s, False) /\ SetEffuid(s, v) = Returning(s, False)
        /\ SetRealuid(s, v) = Returning(s, False)
    BY <1>1 DEF SetHandler, SetEffuid, SetRealuid
  <2>2. Harmless(s, Returning(s, False))
    BY Truths, ReturningHarmless
  <2> QED BY <2>1, <2>2, HarmlessAllowed
<1>2. CASE MayAll(s)
  <2>1. Bool(TRUE) \in Values(s) /\ Fits(s, s) /\ DOMAIN s = DOMAIN Blank
    BY Truths, FitsItself DEF MachineOK, RegistersOK
  <2>2. PICK b : b = Bool(TRUE)
    OBVIOUS
  <2>3. PICK h : h = [s EXCEPT !.trap = v, !.acc = b]
    OBVIOUS
  <2>4. PICK e : e = [s EXCEPT !.effuid = v, !.acc = b]
    OBVIOUS
  <2>5. PICK r : r = [s EXCEPT !.uid = v, !.acc = b]
    OBVIOUS
  <2>6. /\ Fits(h, s) /\ SamePlaces(h, s) /\ h.glob = s.glob
        /\ v \in Users(s) => /\ Fits(e, s) /\ SamePlaces(e, s) /\ e.glob = s.glob
                             /\ Fits(r, s) /\ SamePlaces(r, s) /\ r.glob = s.glob
    BY <2>1, <2>2, <2>3, <2>4, <2>5 DEF Fits, SamePlaces, Blank
  <2>7. Sound(s, h) /\ (v \in Users(s) => Sound(s, e) /\ Sound(s, r))
    BY <2>6, SetRegisters
  <2> QED BY <1>2, <2>2, <2>3, <2>4, <2>5, <2>7 DEF Allowed, SetHandler, SetEffuid, SetRealuid
<1> QED BY <1>1, <1>2

-----------------------------------------------------------------------------
(* The other primitives.                                                   *)

\* Whether an object is privileged does not depend on the flags that can be set.
LEMMA StaysPrivileged ==
    ASSUME NEW old \in Int, NEW n \in Int
    PROVE  LET new == (old - Settable(old)) + Settable(n)
           IN  new \in Int /\ (HasFlag(new, PrivilegedFlag) <=> HasFlag(old, PrivilegedFlag))
<1>1. PICK c \in {0, 1} : c = (old \div CFlag) % 2
  BY DEF CFlag
<1>2. PICK d \in {0, 1} : d = (n \div CFlag) % 2
  BY DEF CFlag
<1>3. PICK q \in Int : q = old \div 4096
  OBVIOUS
<1>4. PICK r \in 0 .. 4095 : r = n % 4096
  OBVIOUS
<1>5. PICK new \in Int : new = (old - Settable(old)) + Settable(n)
  BY DEF Settable, CFlag
<1>6. new = 4096 * (q - 4 * c + 4 * d) + r
  <2>1. old - (old % 4096) = 4096 * q
    BY <1>3
  <2>2. Settable(old) = (old % 4096) + 16384 * c /\ Settable(n) = r + 16384 * d
    BY <1>1, <1>2, <1>4 DEF Settable, CFlag
  <2> QED BY <1>5, <2>1, <2>2
<1>7. new \div 4096 = q - 4 * c + 4 * d
  BY <1>6
<1>8. (new \div 4096) % 2 = q % 2
  BY <1>7
<1> QED BY <1>3, <1>5, <1>8 DEF HasFlag, PrivilegedFlag

LEMMA SetObjectFlagsHarmless ==
    ASSUME NEW s, MachineOK(s), NEW o \in Values(s), IsObj(o), NEW n \in Int
    PROVE  Harmless(s, SetObjectFlags(s, o, n))
<1> DEFINE allowed == MayAll(s) \/ s.effuid = s.objs[o.obj].owner
<1>1. CASE ~allowed
  <2>1. SetObjectFlags(s, o, n) = Returning(s, False)
    BY <1>1 DEF SetObjectFlags
  <2> QED BY <2>1, Truths, ReturningHarmless
<1>2. CASE allowed
  <2>1. /\ o.obj \in 1 .. Len(s.objs) /\ IsObject(s, s.objs[o.obj], o.obj)
        /\ DOMAIN s.objs = 1 .. Len(s.objs) /\ DOMAIN s = DOMAIN Blank
    BY ObjIs, Lengths DEF ObjectOK, IsObject, MachineOK, RegistersOK
  <2>2. PICK old : old = s.objs[o.obj]
    OBVIOUS
  <2>3. PICK k : k = (old.flags - Settable(old.flags)) + Settable(n)
    OBVIOUS
  <2>4. k \in Int /\ (HasFlag(k, PrivilegedFlag) <=> HasFlag(old.flags, PrivilegedFlag))
    <3>1. PICK g \in Int : g = old.flags
      BY <2>1, <2>2 DEF IsObject
    <3> QED BY <2>3, <3>1, StaysPrivileged
  <2>5. PICK x : x = [old EXCEPT !.flags = k]
    OBVIOUS
  <2>6. IsObject(s, x, o.obj) /\ x.flags = k
    BY <2>1, <2>2, <2>4, <2>5 DEF IsObject
  <2>7. PICK u : u = [s EXCEPT !.objs = [s.objs EXCEPT ![o.obj] = x]]
    OBVIOUS
  <2>8. SetObjectFlags(s, o, n) = [s EXCEPT !.acc = Bool(TRUE), !.objs[o.obj].flags = k]
    BY <1>2, <2>2, <2>3 DEF SetObjectFlags
  <2>9. Returning(u, Bool(TRUE)) = SetObjectFlags(s, o, n)
    BY <2>1, <2>2, <2>5, <2>7, <2>8 DEF Returning, Blank
  <2>10. SameRegisters(u, s) /\ u.mem = s.mem /\ u.glob = s.glob
         /\ u.objs = [s.objs EXCEPT ![o.obj] = x]
    BY <2>1, <2>7 DEF SameRegisters, Blank
  <2>11. Harmless(s, u)
    BY <2>1, <2>2, <2>4, <2>6, <2>10, PutObject
  <2>12. Bool(TRUE) \in Values(u)
    BY Truths
  <2> QED BY <2>9, <2>11, <2>12, ThenReturn
<1> QED BY <1>1, <1>2

LEMMA CloneHarmless ==
    ASSUME NEW s, MachineOK(s), NEW p \in Values(s), IsObj(p)
    PROVE  Harmless(s, Clone(s, p))
<1> DEFINE allowed == MayAll(s) \/ s.effuid = s.objs[p.obj].owner \/ HasFlag(s.objs[p.obj].flags, CFlag)
<1>1. CASE ~allowed
  <2>1. Clone(s, p) = Returning(s, False)
    BY <1>1 DEF Clone
  <2> QED BY <2>1, Truths, ReturningHarmless
<1>2. CASE allowed
  <2> DEFINE x == [owner |-> s.effuid, parent |-> p.obj, flags |-> OwnerMask,
                   slots |-> << >>, methods |-> << >>]
  <2>1. p.obj \in 1 .. Len(s.objs) /\ Len(s.objs) \in Nat /\ DOMAIN s = DOMAIN Blank
    BY ObjIs, Lengths DEF MachineOK, RegistersOK
  <2>2. x.flags = OwnerMask
    OBVIOUS
  <2>3. IsObject(s, x, Len(s.objs) + 1)
    <3>1. s.effuid \in Users(s)
      BY DEF MachineOK, RegistersOK
    <3>2. DOMAIN << >> = {}
      OBVIOUS
    <3> QED BY <2>1, <3>1, <3>2 DEF IsObject, OwnerMask
  <2>4. PICK u : u = [s EXCEPT !.objs = Append(s.objs, x)]
    OBVIOUS
  <2>5. PICK v : v = Obj(Len(s.objs) + 1)
    OBVIOUS
  <2>6. Clone(s, p) = [s EXCEPT !.acc = v, !.objs = Append(s.objs, x)]
    BY <1>2, <2>1, <2>5 DEF Clone, Blank
  <2> HIDE DEF x
  <2>7. SameRegisters(u, s) /\ u.mem = s.mem /\ u.glob = s.glob /\ u.objs = Append(s.objs, x)
    BY <2>1, <2>4 DEF SameRegisters, Blank
  <2>8. Harmless(s, u) /\ v \in Values(u)
    BY <2>2, <2>3, <2>5, <2>7, AddObject
  <2>9. Returning(u, v) = Clone(s, p)
    BY <2>1, <2>4, <2>6 DEF Returning, Blank
  <2> QED BY <2>8, <2>9, ThenReturn
<1> QED BY <1>1, <1>2

LEMMA ElementHarmless ==
    ASSUME NEW s, MachineOK(s), NEW av \in Values(s), NEW v \in Values(s), NEW i \in Int,
           NEW x \in Values(s)
    PROVE  Harmless(s, ElementRef(s, av, v, i)) /\ Harmless(s, ElementSet(s, av, v, i, x))
<1>1. CASE Elt(s, v, i) = Outside
  <2>1. "range-error" \in SymbolNames
    BY DEF SymbolNames, Raised
  <2>2. Harmless(s, Failing(s, "range-error", av))
    BY <2>1, FailingHarmless
  <2> QED BY <1>1, <2>2 DEF ElementRef, ElementSet
<1>2. CASE Elt(s, v, i) # Outside
  <2>1. v \in Found(s)
    BY DEF Found
  <2>2. PICK e : e = Elt(s, v, i)
    OBVIOUS
  <2>3. e \in Values(s)
    BY <1>2, <2>1, <2>2, EltIs
  <2>4. Harmless(s, Returning(s, e))
    BY <2>3, ReturningHarmless
  <2>5. PICK u : u = PutElt(s, v, i, x)
    OBVIOUS
  <2>6. Harmless(s, u) /\ x \in Values(u)
    BY <2>1, <2>5, PutEltHarmless, StillValues
  <2>7. Harmless(s, Returning(u, x))
    BY <2>6, ThenReturn
  <2> QED BY <1>2, <2>2, <2>4, <2>5, <2>7 DEF ElementRef, ElementSet
<1> QED BY <1>1, <1>2

LEMMA UsersAreValues == ASSUME NEW s PROVE Users(s) \subseteq Values(s)
BY DEF Values

LEMMA CallerEffuidHarmless ==
    ASSUME NEW s, MachineOK(s)
    PROVE  Harmless(s, CallerEffuid(s))
<1> DEFINE v == IF s.frame = NullV THEN Undefined ELSE Cell(s, s.frame).frame.effuid
<1>1. v \in Values(s)
  <2>1. CASE s.frame = NullV
    BY <2>1, Truths
  <2>2. CASE s.frame # NullV
    <3>1. s.frame \in Frames(s)
      BY DEF MachineOK, RegistersOK
    <3>2. Cell(s, s.frame) \in
             [frame : [code : 0 .. Len(s.tmpls), ip : Int, self : Values(s), env : Values(s),
                       frame : Frames(s), meth : {NullV} \cup Methods(s), effuid : Users(s)]]
      BY <2>2, <3>1, FrameAt
    <3>3. Cell(s, s.frame).frame.effuid \in Values(s)
      BY <3>2, UsersAreValues
    <3> QED BY <2>2, <3>3
  <2> QED BY <2>1, <2>2
<1>2. CallerEffuid(s) = Returning(s, v)
  BY DEF CallerEffuid
<1> HIDE DEF v
<1> QED BY <1>1, <1>2, ReturningHarmless

LEMMA SleepHarmless ==
    ASSUME NEW s, MachineOK(s), NEW n
    PROVE  Harmless(s, Sleep(s, n))
<1> DEFINE v == IF n > 600 /\ ~MayAll(s) THEN False ELSE IF n <= 0 THEN Bool(TRUE) ELSE Yield
<1>1. v \in Values(s)
  BY Truths
<1>2. Sleep(s, n) = Returning(s, v)
  BY DEF Sleep
<1> HIDE DEF v
<1> QED BY <1>1, <1>2, ReturningHarmless
-----------------------------------------------------------------------------
(* A primitive is applied.                                                 *)

LEMMA NumIs == ASSUME NEW s, NEW v \in Values(s), IsNum(v) PROVE v.num \in Int
BY DEF Values, Users, NullV, Undefined, EmptyV, Yield, IsNum

LEMMA ArgcsAre ==
    /\ DOMAIN Argcs = {"define-global", "add-slot", "add-method", "call/cc",
                       "element-ref", "element-set", "set-exception-handler", "set-effuid",
                       "set-realuid", "set-setuid", "set-method-flags", "set-privileged",
                       "set-object-flags", "clone", "effuid", "caller-effuid", "sleep"}
    /\ \A name \in DOMAIN Argcs : Argcs[name] \in 0 .. 3
    /\ \A name \in {"call/cc", "set-exception-handler", "set-effuid", "set-realuid", "clone", "sleep"} : Argcs[name] = 1
    /\ \A name \in {"define-global", "element-ref", "set-setuid", "set-method-flags", "set-privileged",
                   "set-object-flags"} : Argcs[name] = 2
    /\ \A name \in {"add-slot", "add-method", "element-set"} : Argcs[name] = 3
BY DEF Argcs

LEMMA ApplyPrimAllowed ==
    ASSUME NEW s, MachineOK(s), NEW name \in DOMAIN Argcs, NEW argvec \in Values(s), IsVec(s, argvec)
    PROVE  Allowed(s, ApplyPrim(s, name, argvec))
<1>1. "wrong-argc" \in SymbolNames /\ "type-error" \in SymbolNames /\ Prim(name) \in Values(s)
  BY DEF SymbolNames, Raised, Values, Prim
<1>2. CASE Argc(s, argvec) # Argcs[name]
  <2>1. Harmless(s, Raise(s, "wrong-argc", Prim(name)))
    BY <1>1, RaiseHarmless
  <2> QED BY <1>2, <2>1, HarmlessAllowed DEF ApplyPrim
<1>3. CASE Argc(s, argvec) = Argcs[name]
  <2>1. PICK a : a = Tail(Elts(s, argvec))
    OBVIOUS
  <2>2. /\ Len(a) = Argcs[name] /\ \A i \in 1 .. Argcs[name] : a[i] \in Values(s)
    <3>1. argvec \in Found(s)
      BY DEF Found
    <3>2. Elts(s, argvec) \in Seq(Values(s)) /\ Len(Elts(s, argvec)) >= 1
      BY <3>1, <1>3, VectorAt, ArgcsAre DEF Argc
    <3>3. PICK q \in Seq(Values(s)) : q = Elts(s, argvec)
      BY <3>2
    <3>4. Tail(q) \in Seq(Values(s)) /\ Len(Tail(q)) = Len(q) - 1
      BY <3>2, <3>3
    <3>5. a = Tail(q) /\ Len(q) - 1 = Argcs[name]
      BY <1>3, <2>1, <3>3 DEF Argc
    <3> QED BY <3>4, <3>5
  <2>3. CASE ~WellTyped(s, name, a)
    <3>1. Harmless(s, Failing(s, "type-error", argvec))
      BY <1>1, FailingHarmless
    <3>2. ApplyPrim(s, name, argvec) = Failing(s, "type-error", argvec)
      BY <1>3, <2>1, <2>3 DEF ApplyPrim
    <3> QED BY <3>1, <3>2, HarmlessAllowed
  <2>4. ASSUME WellTyped(s, name, a) PROVE Allowed(s, ApplyPrim(s, name, argvec))
    <3>1. argvec \in Found(s)
      BY DEF Found
    <3>2. CASE name = "define-global"
      <4>1. ApplyPrim(s, name, argvec) = DefineGlobal(s, a[1], a[2])
        BY <1>3, <2>1, <2>4, <3>2 DEF ApplyPrim
      <4>2. a[1] \in Values(s) /\ a[2] \in Values(s)
        BY <2>2, <3>2, ArgcsAre
      <4>3. Allowed(s, DefineGlobal(s, a[1], a[2]))
        BY <4>2, DefineGlobalAllowed
      <4> QED BY <4>1, <4>3
    <3>3. CASE name = "add-slot"
      <4>1. ApplyPrim(s, name, argvec) = AddSlot(s, argvec, a[1], a[2], a[3])
        BY <1>3, <2>1, <2>4, <3>3 DEF ApplyPrim
      <4>2. a[1] \in Values(s) /\ a[2] \in Values(s) /\ a[3] \in Values(s)
        BY <2>2, <3>3, ArgcsAre
      <4>3. IsObj(a[1])
        BY <2>4, <3>3 DEF WellTyped
      <4>4. Harmless(s, AddSlot(s, argvec, a[1], a[2], a[3]))
        BY <4>2, <4>3, AddSlotHarmless
      <4> QED BY <4>1, <4>4, HarmlessAllowed
    <3>4. CASE name = "add-method"
      <4>1. ApplyPrim(s, name, argvec) = AddMethod(s, argvec, a[1], a[2], a[3])
        BY <1>3, <2>1, <2>4, <3>4 DEF ApplyPrim
      <4>2. a[1] \in Values(s) /\ a[2] \in Values(s) /\ a[3] \in Values(s)
        BY <2>2, <3>4, ArgcsAre
      <4>3. IsObj(a[1]) /\ IsClosure(s, a[3])
        BY <2>4, <3>4 DEF WellTyped
      <4>4. Harmless(s, AddMethod(s, argvec, a[1], a[2], a[3]))
        BY <4>2, <4>3, AddMethodHarmless
      <4> QED BY <4>1, <4>4, HarmlessAllowed
    <3>5. CASE name = "call/cc"
      <4>1. ApplyPrim(s, name, argvec) = CallCC(s, a[1])
        BY <1>3, <2>1, <2>4, <3>5 DEF ApplyPrim
      <4>2. a[1] \in Values(s)
        BY <2>2, <3>5, ArgcsAre
      <4>3. IsClosure(s, a[1])
        BY <2>4, <3>5 DEF WellTyped
      <4>4. Harmless(s, CallCC(s, a[1]))
        BY <4>2, <4>3, CallCCHarmless
      <4> QED BY <4>1, <4>4, HarmlessAllowed
    <3>6. CASE name = "element-ref"
      <4>1. ApplyPrim(s, name, argvec) = ElementRef(s, argvec, a[1], a[2].num)
        BY <1>3, <2>1, <2>4, <3>6 DEF ApplyPrim
      <4>2. a[1] \in Values(s) /\ a[2] \in Values(s)
        BY <2>2, <3>6, ArgcsAre
      <4>3. IsNum(a[2])
        BY <2>4, <3>6 DEF WellTyped
      <4>4. a[2].num \in Int
        BY <4>2, <4>3, NumIs
      <4>5. NullV \in Values(s)
        BY Truths
      <4>6. Harmless(s, ElementRef(s, argvec, a[1], a[2].num))
        BY <4>2, <4>3, <4>4, <4>5, ElementHarmless
      <4> QED BY <4>1, <4>6, HarmlessAllowed
    <3>7. CASE name = "element-set"
      <4>1. ApplyPrim(s, name, argvec) = ElementSet(s, argvec, a[1], a[2].num, a[3])
        BY <1>3, <2>1, <2>4, <3>7 DEF ApplyPrim
      <4>2. a[1] \in Values(s) /\ a[2] \in Values(s) /\ a[3] \in Values(s)
        BY <2>2, <3>7, ArgcsAre
      <4>3. IsNum(a[2])
        BY <2>4, <3>7 DEF WellTyped
      <4>4. a[2].num \in Int
        BY <4>2, <4>3, NumIs
      <4>5. Harmless(s, ElementSet(s, argvec, a[1], a[2].num, a[3]))
        BY <4>2, <4>3, <4>4, ElementHarmless
      <4> QED BY <4>1, <4>5, HarmlessAllowed
    <3>8. CASE name = "set-exception-handler"
      <4>1. ApplyPrim(s, name, argvec) = SetHandler(s, a[1])
        BY <1>3, <2>1, <2>4, <3>8 DEF ApplyPrim
      <4>2. a[1] \in Values(s)
        BY <2>2, <3>8, ArgcsAre
      <4>3. Allowed(s, SetHandler(s, a[1]))
        BY <4>2, SetRegisterAllowed
      <4> QED BY <4>1, <4>3
    <3>9. CASE name = "set-effuid"
      <4>1. ApplyPrim(s, name, argvec) = SetEffuid(s, a[1])
        BY <1>3, <2>1, <2>4, <3>9 DEF ApplyPrim
      <4>2. a[1] \in Values(s)
        BY <2>2, <3>9, ArgcsAre
      <4>3. IsObj(a[1])
        BY <2>4, <3>9 DEF WellTyped
      <4>4. a[1] \in Users(s)
        BY <4>2, <4>3, ObjIs
      <4>5. Allowed(s, SetEffuid(s, a[1]))
        BY <4>2, <4>3, <4>4, SetRegisterAllowed
      <4> QED BY <4>1, <4>5
    <3>10. CASE name = "set-realuid"
      <4>1. ApplyPrim(s, name, argvec) = SetRealuid(s, a[1])
        BY <1>3, <2>1, <2>4, <3>10 DEF ApplyPrim
      <4>2. a[1] \in Values(s)
        BY <2>2, <3>10, ArgcsAre
      <4>3. IsObj(a[1])
        BY <2>4, <3>10 DEF WellTyped
      <4>4. a[1] \in Users(s)
        BY <4>2, <4>3, ObjIs
      <4>5. Allowed(s, SetRealuid(s, a[1]))
        BY <4>2, <4>3, <4>4, SetRegisterAllowed
      <4> QED BY <4>1, <4>5
    <3>11. CASE name = "set-setuid"
      <4>1. ApplyPrim(s, name, argvec) = SetSetuid(s, a[1], a[2])
        BY <1>3, <2>1, <2>4, <3>11 DEF ApplyPrim
      <4>2. a[1] \in Values(s) /\ a[2] \in Values(s)
        BY <2>2, <3>11, ArgcsAre
      <4>3. IsClosure(s, a[1])
        BY <2>4, <3>11 DEF WellTyped
      <4>4. Allowed(s, SetSetuid(s, a[1], a[2]))
        BY <4>2, <4>3, SetSetuidAllowed
      <4> QED BY <4>1, <4>4
    <3>12. CASE name = "set-method-flags"
      <4>1. ApplyPrim(s, name, argvec) = SetMethodFlags(s, argvec, a[1], a[2].num)
        BY <1>3, <2>1, <2>4, <3>12 DEF ApplyPrim
      <4>2. a[1] \in Values(s) /\ a[2] \in Values(s)
        BY <2>2, <3>12, ArgcsAre
      <4>3. IsClosure(s, a[1]) /\ IsNum(a[2])
        BY <2>4, <3>12 DEF WellTyped
      <4>4. a[2].num \in Int
        BY <4>2, <4>3, NumIs
      <4>5. Harmless(s, SetMethodFlags(s, argvec, a[1], a[2].num))
        BY <4>2, <4>3, <4>4, SetMethodFlagsHarmless
      <4> QED BY <4>1, <4>5, HarmlessAllowed
    <3>13. CASE name = "set-privileged"
      <4>1. ApplyPrim(s, name, argvec) = SetPrivileged(s, a[1], a[2])
        BY <1>3, <2>1, <2>4, <3>13 DEF ApplyPrim
      <4>2. a[1] \in Values(s) /\ a[2] \in Values(s)
        BY <2>2, <3>13, ArgcsAre
      <4>3. IsObj(a[1])
        BY <2>4, <3>13 DEF WellTyped
      <4>4. Allowed(s, SetPrivileged(s, a[1], a[2]))
        BY <4>2, <4>3, SetPrivilegedAllowed
      <4> QED BY <4>1, <4>4
    <3>14. CASE name = "clone"
      <4>1. ApplyPrim(s, name, argvec) = Clone(s, a[1])
        BY <1>3, <2>1, <2>4, <3>14 DEF ApplyPrim
      <4>2. a[1] \in Values(s)
        BY <2>2, <3>14, ArgcsAre
      <4>3. IsObj(a[1])
        BY <2>4, <3>14 DEF WellTyped
      <4>4. Harmless(s, Clone(s, a[1]))
        BY <4>2, <4>3, CloneHarmless
      <4> QED BY <4>1, <4>4, HarmlessAllowed
    <3>15. CASE name = "effuid"
      <4>1. ApplyPrim(s, name, argvec) = Returning(s, s.effuid)
        BY <1>3, <2>1, <2>4, <3>15 DEF ApplyPrim
      <4>2. s.effuid \in Values(s)
        BY UsersAreValues DEF MachineOK, RegistersOK
      <4>3. Harmless(s, Returning(s, s.effuid))
        BY <4>2, ReturningHarmless
      <4> QED BY <4>1, <4>3, HarmlessAllowed
    <3>16. CASE name = "caller-effuid"
      <4>1. ApplyPrim(s, name, argvec) = CallerEffuid(s)
        BY <1>3, <2>1, <2>4, <3>16 DEF ApplyPrim
      <4>2. Harmless(s, CallerEffuid(s))
        BY CallerEffuidHarmless
      <4> QED BY <4>1, <4>2, HarmlessAllowed
    <3>17. CASE name = "sleep"
      <4>1. ApplyPrim(s, name, argvec) = Sleep(s, a[1].num)
        BY <1>3, <2>1, <2>4, <3>17 DEF ApplyPrim
      <4>2. a[1] \in Values(s)
        BY <2>2, <3>17, ArgcsAre
      <4>3. Harmless(s, Sleep(s, a[1].num))
        BY <4>2, SleepHarmless
      <4> QED BY <4>1, <4>3, HarmlessAllowed
    <3>18. CASE name = "set-object-flags"
      <4>1. ApplyPrim(s, name, argvec) = SetObjectFlags(s, a[1], a[2].num)
        BY <1>3, <2>1, <2>4, <3>18 DEF ApplyPrim
      <4>2. a[1] \in Values(s) /\ a[2] \in Values(s)
        BY <2>2, <3>18, ArgcsAre
      <4>3. IsObj(a[1]) /\ IsNum(a[2])
        BY <2>4, <3>18 DEF WellTyped
      <4>4. a[2].num \in Int
        BY <4>2, <4>3, NumIs
      <4>5. Harmless(s, SetObjectFlags(s, a[1], a[2].num))
        BY <4>2, <4>3, <4>4, SetObjectFlagsHarmless
      <4> QED BY <4>1, <4>5, HarmlessAllowed
    <3> QED BY ArgcsAre, <3>2, <3>3, <3>4, <3>5, <3>6, <3>7, <3>8, <3>9, <3>10, <3>11, <3>12, <3>13, <3>14, <3>15, <3>16, <3>17, <3>18
  <2> QED BY <2>3, <2>4
<1> QED BY <1>2, <1>3
-----------------------------------------------------------------------------
(* Instructions.                                                           *)

LEMMA BytesAreNumbers == Bytes \subseteq Nat
BY DEF Bytes

\* What has been compiled consists of bytes and literals, and literals are values.
LEMMA CodeIs ==
    ASSUME MachineOK(m)
    PROVE  /\ Code \in Seq(Bytes)
           /\ m.code # 0 => /\ m.code \in 1 .. Len(m.tmpls)
                            /\ m.tmpls[m.code] \in Templates(Len(m.tmpls))
           /\ Literals(Len(m.tmpls)) \subseteq Values(m)
<1>1. /\ m.code \in 0 .. Len(m.tmpls) /\ m.tmpls \in Seq(Templates(Len(m.tmpls)))
      /\ Len(m.tmpls) \in Nat /\ DOMAIN m.tmpls = 1 .. Len(m.tmpls)
  BY Lengths DEF MachineOK, RegistersOK, MemoryOK
<1>2. m.code # 0 => m.code \in 1 .. Len(m.tmpls) /\ m.tmpls[m.code] \in Templates(Len(m.tmpls))
  BY <1>1
<1>3. Code \in Seq(Bytes)
  BY <1>2 DEF Code, Templates
<1>4. Literals(Len(m.tmpls)) \subseteq Values(m)
  BY <1>1 DEF Literals, Values, Users
<1> QED BY <1>2, <1>3, <1>4

LEMMA OperandsAre ==
    ASSUME MachineOK(m), NEW op, Fetch(op), Decoded
    PROVE  /\ op \in OneByte \cup TwoBytes => At(1) \in Bytes
           /\ op \in TwoBytes => At(2) \in Bytes
           /\ op \in Literal => Lit \in Values(m)
           /\ op \in Naming => IsSym(Lit)
<1>1. /\ m.ip \in 0 .. Len(Code) - 1 /\ At(0) = op /\ Code \in Seq(Bytes) /\ Len(Code) \in Nat
  BY CodeIs DEF Fetch
<1>2. \A j \in 1 .. Len(Code) : Code[j] \in Bytes
  BY <1>1
<1>3. At(1) = Code[m.ip + 2] /\ At(2) = Code[m.ip + 3]
  <2>1. m.ip + 1 + 1 = m.ip + 2 /\ m.ip + 2 + 1 = m.ip + 3
    BY <1>1
  <2> QED BY <2>1 DEF At
<1>4. ASSUME op \in OneByte \cup TwoBytes PROVE At(1) \in Bytes
  <2>1. m.ip + 2 \in 1 .. Len(Code)
    BY <1>1, <1>4 DEF Decoded
  <2> QED BY <1>2, <1>3, <2>1
<1>5. ASSUME op \in TwoBytes PROVE At(2) \in Bytes
  <2>1. m.ip + 3 \in 1 .. Len(Code)
    BY <1>1, <1>5 DEF Decoded
  <2> QED BY <1>2, <1>3, <2>1
<1>6. ASSUME op \in Literal PROVE Lit \in Values(m)
  <2>1. At(1) \in Bytes /\ At(1) < Len(m.tmpls[m.code].lits)
    BY <1>1, <1>4, <1>6 DEF Decoded, OneByte
  <2>2. m.code # 0
    BY <1>1 DEF Code
  <2>3. m.tmpls[m.code].lits \in Seq(Literals(Len(m.tmpls)))
    BY <2>2, CodeIs DEF Templates
  <2>4. Lit \in Literals(Len(m.tmpls))
    <3>1. PICK q \in Seq(Literals(Len(m.tmpls))) : q = m.tmpls[m.code].lits
      BY <2>3
    <3>2. PICK j \in Bytes : j = At(1)
      BY <2>1
    <3>3. j + 1 \in 1 .. Len(q)
      <4>1. j < Len(q) /\ Len(q) \in Nat
        BY <2>1, <3>1, <3>2
      <4>2. j \in Nat
        BY BytesAreNumbers
      <4> QED BY <4>1, <4>2
    <3>4. q[j + 1] \in Literals(Len(m.tmpls))
      BY <3>3
    <3> QED BY <3>1, <3>2, <3>4 DEF Lit
  <2> QED BY <2>4, CodeIs
<1>7. ASSUME op \in Naming PROVE IsSym(Lit)
  BY <1>1, <1>7 DEF Decoded
<1> QED BY <1>4, <1>5, <1>6, <1>7

\* What an instruction does, on a thread that runs or that runs for the last time.
LEMMA StepTo ==
    ASSUME MachineOK(m), NEW s, Decoded => Allowed(m, s), Becomes(s)
    PROVE  Allowed(m, m')
<1>1. CASE ~Decoded
  <2>1. m' = Wild(m)
    BY <1>1 DEF Becomes
  <2>2. Harmless(m, Wild(m))
    BY StaysSound, ThenWild
  <2> QED BY <2>1, <2>2, HarmlessAllowed
<1>2. CASE Decoded /\ s.state # "last"
  <2>1. m' = s
    BY <1>2 DEF Becomes
  <2> QED BY <1>2, <2>1
<1>3. CASE Decoded /\ s.state = "last"
  <2>1. PICK t : t = [s EXCEPT !.state = "dying"]
    OBVIOUS
  <2>2. m' = t
    BY <1>3, <2>1 DEF Becomes
  <2>3. Sound(m, s) /\ MachineOK(s) /\ DOMAIN s = DOMAIN Blank
    BY <1>3 DEF Allowed, Sound, MachineOK, RegistersOK
  <2>4. Harmless(s, s)
    BY <2>3, StaysSound
  <2>5. Harmless(s, t)
    BY <2>1, <2>3, <2>4, ThenWild
  <2>6. Sound(m, t)
    BY <2>3, <2>5, SoundTwice DEF Harmless
  <2>7. MayAll(m) \/ NothingGained(m, t)
    BY <1>3, <2>5 DEF Allowed, Harmless, NothingGained
  <2> QED BY <2>2, <2>6, <2>7 DEF Allowed
<1> QED BY <1>1, <1>2, <1>3

LEMMA StepToHarmless ==
    ASSUME MachineOK(m), NEW s, Decoded => Harmless(m, s), Becomes(s)
    PROVE  Allowed(m, m')
BY StepTo, HarmlessAllowed

LEMMA MovesHarmless ==
    ASSUME MachineOK(m), NEW v, Decoded => v \in Found(m), NEW n \in Int, Moves(v, n)
    PROVE  Allowed(m, m')
<1> DEFINE s == IF v = Outside THEN Wild(m) ELSE Skip([m EXCEPT !.acc = v], n)
<1>1. ASSUME Decoded PROVE Harmless(m, s)
  <2>1. CASE v = Outside
    BY <2>1, StaysSound, ThenWild
  <2>2. CASE v # Outside
    <3>1. v \in Values(m)
      BY <1>1, <2>2 DEF Found
    <3>2. PICK u : u = Returning(m, v)
      OBVIOUS
    <3>3. Harmless(m, u)
      BY <3>1, <3>2, ReturningHarmless
    <3>4. Harmless(m, Skip(u, n))
      BY <3>3, ThenSkip
    <3> QED BY <2>2, <3>2, <3>4 DEF Returning
  <2> QED BY <2>1, <2>2
<1>2. Becomes(s)
  BY DEF Moves
<1> HIDE DEF s
<1> QED BY <1>1, <1>2, StepToHarmless

LEMMA SkipHarmless ==
    ASSUME NEW s, MachineOK(s), NEW n \in Int
    PROVE  Harmless(s, Skip(s, n))
BY StaysSound, ThenSkip

LEMMA TypeErrorHarmless == ASSUME MachineOK(m) PROVE Harmless(m, TypeError)
<1>1. "vm-runtime-type-error" \in SymbolNames /\ m.acc \in Values(m)
  BY DEF SymbolNames, Raised, MachineOK, RegistersOK
<1> QED BY <1>1, RaiseHarmless DEF TypeError

LEMMA WildHarmless == ASSUME NEW s, MachineOK(s) PROVE Harmless(s, Wild(s))
BY StaysSound, ThenWild

\* The variables of a scope are in a vector, or nowhere.
LEMMA ScopeIs ==
    ASSUME MachineOK(m), NEW depth \in Nat
    PROVE  Scope(depth) \in Found(m)
<1> DEFINE G(f, k) == [d \in 0 .. k |-> IF d = 0 THEN m.env ELSE Elt(m, f[d - 1], 0)]
           up == CHOOSE f : f = G(f, depth)
<1>1. Scope(depth) = up[depth]
  BY DEF Scope
<1> DEFINE T == {k \in Nat : \E f : f = G(f, k) /\ DOMAIN f = 0 .. k}
<1>2. 0 \in T
  <2> DEFINE f == [d \in 0 .. 0 |-> m.env]
  <2>1. f = G(f, 0) /\ DOMAIN f = 0 .. 0
    OBVIOUS
  <2> QED BY <2>1
<1>3. ASSUME NEW k \in Nat, k \in T PROVE k + 1 \in T
  <2>1. PICK f : f = G(f, k) /\ DOMAIN f = 0 .. k
    <3> HIDE DEF G
    <3> QED BY <1>3
  <2> DEFINE g == G(f, k + 1)
  <2>2. DOMAIN g = 0 .. k + 1
    OBVIOUS
  <2>3. \A i \in 0 .. k : g[i] = f[i]
    <3> SUFFICES ASSUME NEW i \in 0 .. k PROVE g[i] = f[i]
      OBVIOUS
    <3>1. f[i] = G(f, k)[i]
      BY <2>1
    <3>2. i \in 0 .. k + 1
      OBVIOUS
    <3> QED BY <3>1, <3>2
  <2>4. g = G(g, k + 1)
    <3>1. \A i \in 1 .. k + 1 : i - 1 \in 0 .. k
      OBVIOUS
    <3>2. \A i \in 0 .. k + 1 : i = 0 \/ i \in 1 .. k + 1
      OBVIOUS
    <3> HIDE DEF g
    <3>3. \A i \in 0 .. k + 1 : G(f, k + 1)[i] = G(g, k + 1)[i]
      BY <2>3, <3>1, <3>2
    <3>4. G(f, k + 1) = G(g, k + 1)
      BY <3>3
    <3> QED BY <3>4 DEF g
  <2> HIDE DEF g
  <2> QED BY <2>2, <2>4
<1>4. \E f : f = G(f, depth)
  <2>1. depth \in T
    <3> HIDE DEF T
    <3> QED BY <1>2, <1>3, InductionOnNat
  <2> HIDE DEF G
  <2> QED BY <2>1
<1>5. up = G(up, depth)
  <2> HIDE DEF G
  <2> QED BY <1>4
<1> HIDE DEF up
<1> DEFINE S == {k \in Nat : k <= depth => up[k] \in Found(m)}
<1>6. 0 \in S
  BY <1>5 DEF MachineOK, RegistersOK, Found
<1>7. ASSUME NEW k \in Nat, k \in S PROVE k + 1 \in S
  <2> SUFFICES ASSUME k + 1 <= depth PROVE up[k + 1] \in Found(m)
    OBVIOUS
  <2>1. up[k + 1] = Elt(m, up[k], 0)
    BY <1>5
  <2>2. up[k] \in Found(m)
    BY <1>7
  <2> QED BY <2>1, <2>2, EltIs
<1>8. depth \in S
  <2> HIDE DEF S
  <2> QED BY <1>6, <1>7, InductionOnNat
<1> QED BY <1>1, <1>8

LEMMA RaiseOne ==
    ASSUME NEW s, MachineOK(s), NEW e \in Raised, NEW v \in Values(s)
    PROVE  Harmless(s, Raise(s, e, v))
<1>1. e \in SymbolNames
  BY DEF SymbolNames
<1> QED BY <1>1, RaiseHarmless

LEMMA RaiseAfter ==
    ASSUME NEW s, MachineOK(s), NEW u, Harmless(s, u), NEW e \in Raised, NEW v \in Values(s)
    PROVE  Harmless(s, Raise(u, e, v))
<1>1. MachineOK(u) /\ v \in Values(u)
  BY StillValues
<1>2. Harmless(u, Raise(u, e, v))
  BY <1>1, RaiseOne
<1> QED BY <1>2, HarmlessTwice

LEMMA Registers ==
    ASSUME NEW s, MachineOK(s)
    PROVE  /\ s.acc \in Values(s) /\ s.env \in Values(s) /\ s.self \in Values(s)
           /\ s.acc \in Found(s) /\ s.env \in Found(s) /\ s.self \in Found(s)
           /\ s.frame \in Frames(s) /\ s.effuid \in Users(s) /\ s.effuid \in Values(s)
           /\ s.bottom \in Values(s) /\ DOMAIN s = DOMAIN Blank
BY UsersAreValues DEF MachineOK, RegistersOK, Found

LEMMA ATPUTAllowed == ASSUME MachineOK(m), ATPUT PROVE Allowed(m, m')
<1> DEFINE v == Peek(m)
           s == IF ~IsVec(m, v) THEN Wild(m)
                ELSE IF Elt(m, v, At(1)) = Outside THEN Raise(m, "range-check-error", v)
                ELSE Skip(PutElt(m, v, At(1), m.acc), 2)
<1>1. Fetch(Op.ATPUT) /\ Becomes(s)
  BY DEF ATPUT
<1>2. ASSUME Decoded PROVE Harmless(m, s)
  <2>1. At(1) \in Int /\ v \in Found(m)
    <3>1. Op.ATPUT \in OneByte
      BY DEF OneByte
    <3>2. At(1) \in Bytes
      <4> HIDE DEF v, s
      <4> QED BY <1>1, <1>2, <3>1, OperandsAre
    <3>3. At(1) \in Int
      <4> HIDE DEF v, s
      <4>1. At(1) \in Nat
        BY <3>2, BytesAreNumbers
      <4> QED BY <4>1
    <3>4. v \in Found(m)
      BY PeekIs
    <3> QED BY <3>3, <3>4
  <2>2. CASE ~IsVec(m, v)
    BY <2>2, WildHarmless
  <2>3. CASE IsVec(m, v) /\ Elt(m, v, At(1)) = Outside
    <3>1. v \in Values(m) /\ "range-check-error" \in Raised
      BY <2>1, <2>3, VectorAt DEF Raised
    <3> HIDE DEF v
    <3>2. Harmless(m, Raise(m, "range-check-error", v))
      BY <3>1, RaiseOne
    <3> QED BY <2>3, <3>2
  <2>4. CASE IsVec(m, v) /\ Elt(m, v, At(1)) # Outside
    <3>1. PICK u : u = PutElt(m, v, At(1), m.acc)
      OBVIOUS
    <3>2. Harmless(m, u)
      <4> HIDE DEF v
      <4> QED BY <2>1, <3>1, Registers, PutEltHarmless
    <3>3. Harmless(m, Skip(u, 2))
      BY <3>2, ThenSkip
    <3> QED BY <2>4, <3>1, <3>3
  <2> QED BY <2>2, <2>3, <2>4
<1> HIDE DEF s
<1> QED BY <1>1, <1>2, StepToHarmless

LEMMA LocalOperands ==
    ASSUME MachineOK(m), NEW op \in {Op.MOV_A_LOCL, Op.MOV_LOCL_A}, Fetch(op), Decoded
    PROVE  Scope(At(1)) \in Found(m) /\ At(2) + 1 \in Int
<1>1. At(1) \in Nat /\ At(2) \in Nat
  BY OperandsAre, BytesAreNumbers DEF TwoBytes
<1> QED BY <1>1, ScopeIs

LEMMA MOV_A_LOCLAllowed == ASSUME MachineOK(m), MOV_A_LOCL PROVE Allowed(m, m')
<1>1. PICK v : v = Elt(m, Scope(At(1)), At(2) + 1)
  OBVIOUS
<1>2. Fetch(Op.MOV_A_LOCL) /\ Moves(v, 3)
  BY <1>1 DEF MOV_A_LOCL
<1>3. Decoded => v \in Found(m)
  <2> SUFFICES ASSUME Decoded PROVE v \in Found(m)
    OBVIOUS
  <2>1. Scope(At(1)) \in Found(m) /\ At(2) + 1 \in Int
    BY <1>2, LocalOperands
  <2> QED BY <1>1, <2>1, EltIs
<1> QED BY <1>2, <1>3, MovesHarmless

LEMMA MOV_LOCL_AAllowed == ASSUME MachineOK(m), MOV_LOCL_A PROVE Allowed(m, m')
<1>1. PICK u : u = PutElt(m, Scope(At(1)), At(2) + 1, m.acc)
  OBVIOUS
<1>2. Fetch(Op.MOV_LOCL_A) /\ Becomes(Skip(u, 3))
  BY <1>1 DEF MOV_LOCL_A
<1>3. ASSUME Decoded PROVE Harmless(m, Skip(u, 3))
  <2>1. Scope(At(1)) \in Found(m) /\ At(2) + 1 \in Int
    BY <1>2, <1>3, LocalOperands
  <2>2. Harmless(m, u)
    BY <1>1, <2>1, Registers, PutEltHarmless
  <2> QED BY <2>2, ThenSkip
<1> QED BY <1>2, <1>3, StepToHarmless

LEMMA MOV_A_GLOBAllowed == ASSUME MachineOK(m), MOV_A_GLOB PROVE Allowed(m, m')
<1>1. PICK v : v = IF Lit.sym \in DOMAIN m.glob THEN m.glob[Lit.sym] ELSE Undefined
  OBVIOUS
<1>2. Moves(v, 2)
  BY <1>1 DEF MOV_A_GLOB
<1>3. v \in Found(m)
  BY <1>1, Truths DEF MachineOK, MemoryOK, Found
<1> QED BY <1>2, <1>3, MovesHarmless

LEMMA MOV_GLOB_AAllowed == ASSUME MachineOK(m), MOV_GLOB_A PROVE Allowed(m, m')
<1> DEFINE s == IF ~MayAll(m) THEN Raise(m, "no-permission", Sym("setting-global-value"))
                ELSE Skip([m EXCEPT !.glob = PutIn(@, Lit.sym, m.acc)], 2)
<1>1. Becomes(s)
  BY DEF MOV_GLOB_A
<1>2. Allowed(m, s)
  <2>1. CASE ~MayAll(m)
    <3>1. PICK v : v = Sym("setting-global-value")
      OBVIOUS
    <3>2. v \in Values(m) /\ "no-permission" \in Raised
      BY <3>1 DEF Values, Sym, SymbolNames, Raised
    <3>3. Harmless(m, Raise(m, "no-permission", v))
      BY <3>2, RaiseOne
    <3> QED BY <2>1, <3>1, <3>3, HarmlessAllowed
  <2>2. CASE MayAll(m)
    <3>1. PICK u : u = [m EXCEPT !.glob = PutIn(m.glob, Lit.sym, m.acc)]
      OBVIOUS
    <3>2. Sound(m, u)
      BY <3>1, Registers, PutGlobal
    <3>3. s = Skip(u, 2)
      BY <2>2, <3>1, Registers DEF Blank
    <3>4. Harmless(u, Skip(u, 2))
      BY <3>2, SkipHarmless DEF Sound
    <3>5. Sound(m, Skip(u, 2))
      BY <3>2, <3>4, SoundTwice DEF Harmless
    <3> HIDE DEF s
    <3> QED BY <2>2, <3>3, <3>5 DEF Allowed
  <2> QED BY <2>1, <2>2
<1> HIDE DEF s
<1> QED BY <1>1, <1>2, StepTo

LEMMA MOV_A_LITLAllowed == ASSUME MachineOK(m), MOV_A_LITL PROVE Allowed(m, m')
<1>1. Fetch(Op.MOV_A_LITL) /\ Moves(Lit, 2)
  BY DEF MOV_A_LITL
<1>2. Decoded => Lit \in Found(m)
  BY <1>1, OperandsAre DEF Literal, Found
<1> QED BY <1>1, <1>2, MovesHarmless

LEMMA MOV_A_SELFAllowed == ASSUME MachineOK(m), MOV_A_SELF PROVE Allowed(m, m')
<1>1. PICK v : v = m.self
  OBVIOUS
<1>2. Moves(v, 1) /\ v \in Found(m)
  BY <1>1, Registers DEF MOV_A_SELF
<1> QED BY <1>2, MovesHarmless

LEMMA StackAllowed == ASSUME MachineOK(m), PUSH \/ POP \/ SWAP PROVE Allowed(m, m')
<1>1. PICK v : v = m.acc
  OBVIOUS
<1>2. v \in Values(m)
  BY <1>1, Registers
<1>3. CASE PUSH
  <2>1. Harmless(m, Skip(PushOn(m, v), 1))
    BY <1>2, PushOnHarmless, ThenSkip
  <2>2. Becomes(Skip(PushOn(m, v), 1))
    BY <1>1, <1>3 DEF PUSH
  <2> QED BY <2>1, <2>2, StepToHarmless
<1>4. CASE POP
  <2>1. Harmless(m, Skip(Popped(m), 1))
    BY DroppedHarmless, ThenSkip
  <2>2. Becomes(Skip(Popped(m), 1))
    BY <1>4 DEF POP
  <2> QED BY <2>1, <2>2, StepToHarmless
<1>5. CASE SWAP
  <2>1. PICK p : p = Popped(m)
    OBVIOUS
  <2>2. Harmless(m, p) /\ MachineOK(p) /\ v \in Values(p)
    BY <1>2, <2>1, DroppedHarmless, StillValues
  <2>3. Harmless(m, PushOn(p, v))
    BY <2>2, PushOnHarmless, HarmlessTwice
  <2>4. Harmless(m, Skip(PushOn(p, v), 1))
    BY <2>3, ThenSkip
  <2>5. Becomes(Skip(PushOn(p, v), 1))
    BY <1>1, <1>5, <2>1 DEF SWAP
  <2> QED BY <2>4, <2>5, StepToHarmless
<1> QED BY <1>3, <1>4, <1>5

LEMMA MOV_A_SLOTAllowed == ASSUME MachineOK(m), MOV_A_SLOT PROVE Allowed(m, m')
<1>1. Fetch(Op.MOV_A_SLOT)
  BY DEF MOV_A_SLOT
<1>2. Decoded => Lit \in Values(m)
  <2>1. Op.MOV_A_SLOT \in Literal
    BY DEF Literal, Naming
  <2> QED BY <1>1, <2>1, OperandsAre
<1>3. ASSUME NEW e \in Raised, Becomes(Raise(m, e, Lit)) PROVE Allowed(m, m')
  <2>1. Decoded => Harmless(m, Raise(m, e, Lit))
    BY <1>2, RaiseOne
  <2> QED BY <1>3, <2>1, StepToHarmless
<1>4. "no-permission" \in Raised /\ "slot-not-found" \in Raised
  BY DEF Raised
<1>5. CASE ~IsObj(m.acc)
  <2>1. Becomes(TypeError)
    BY <1>5 DEF MOV_A_SLOT
  <2> QED BY <2>1, TypeErrorHarmless, StepToHarmless
<1>6. CASE IsObj(m.acc)
  <2>1. CASE Becomes(Raise(m, "no-permission", Lit))
    BY <1>3, <1>4, <2>1
  <2>2. CASE Becomes(Raise(m, "slot-not-found", Lit))
    BY <1>3, <1>4, <2>2
  <2>3. CASE Find(m, m.acc, "slots", Lit.sym) # 0 /\ Moves(Slot(m, m.acc, Lit.sym).value, 2)
    <3>1. PICK v : v = Slot(m, m.acc, Lit.sym).value
      OBVIOUS
    <3>2. v \in Found(m)
      <4>1. Slot(m, m.acc, Lit.sym) \in [value : Values(m), owner : Users(m), flags : Int]
        BY <1>6, <2>3, Registers, SlotIs
      <4> QED BY <3>1, <4>1 DEF Found
    <3>3. Moves(v, 2)
      BY <2>3, <3>1
    <3> QED BY <3>2, <3>3, MovesHarmless
  <2> QED BY <1>6, <2>1, <2>2, <2>3 DEF MOV_A_SLOT
<1> QED BY <1>5, <1>6

LEMMA MOV_SLOT_AAllowed == ASSUME MachineOK(m), MOV_SLOT_A PROVE Allowed(m, m')
<1> DEFINE o  == Top(m)
           s  == Dropped(m)
           at == Find(m, o, "slots", Lit.sym)
           t  == IF ~IsObj(o) THEN Raise(s, "vm-runtime-type-error", o)
                 ELSE IF ~Can(m, m.objs[o.obj], X) THEN Raise(s, "no-permission", Lit)
                 ELSE IF at = 0 THEN Raise(s, "slot-not-found", Lit)
                 ELSE IF ~Can(m, Slot(m, o, Lit.sym), W) THEN Raise(s, "no-permission", Lit)
                 ELSE Skip([s EXCEPT !.objs[o.obj].slots = PutIn(@, Lit.sym,
                              [Slot(m, o, Lit.sym) EXCEPT !.value = m.acc])], 2)
<1>1. Fetch(Op.MOV_SLOT_A) /\ Becomes(t)
  BY DEF MOV_SLOT_A
<1>2. ASSUME Decoded PROVE Harmless(m, t)
  <2>1. Lit \in Values(m)
    <3>1. Op.MOV_SLOT_A \in Literal
      BY DEF Literal, Naming
    <3> HIDE DEF t
    <3> QED BY <1>1, <1>2, <3>1, OperandsAre
  <2>2. Harmless(m, s)
    BY DroppedHarmless
  <2>3. {"no-permission", "slot-not-found", "vm-runtime-type-error"} \subseteq Raised
    BY DEF Raised
  <2>4. PICK u : u = s
    OBVIOUS
  <2>5. PICK p : p = o
    OBVIOUS
  <2>7. p \in Values(m)
    BY <2>5, TopIs
  <2>8. /\ Harmless(m, Raise(u, "no-permission", Lit)) /\ Harmless(m, Raise(u, "slot-not-found", Lit))
    <3> HIDE DEF s, t, o, at
    <3> QED BY <2>1, <2>2, <2>3, <2>4, RaiseAfter
  <2>9. Harmless(m, Raise(u, "vm-runtime-type-error", p))
    <3> HIDE DEF s, t, o, at
    <3> QED BY <2>2, <2>3, <2>4, <2>7, RaiseAfter
  <2>10. ASSUME IsObj(p), Find(m, p, "slots", Lit.sym) # 0
         PROVE  Harmless(m, Skip([u EXCEPT !.objs[p.obj].slots = PutIn(@, Lit.sym,
                              [Slot(m, p, Lit.sym) EXCEPT !.value = m.acc])], 2))
    <3> HIDE DEF s, t, o, at
    <3>1. PICK k : k = Slot(m, p, Lit.sym)
      OBVIOUS
    <3>2. k \in [value : Values(m), owner : Users(m), flags : Int]
      BY <2>7, <2>10, <3>1, SlotIs
    <3>3. PICK slot : slot = [k EXCEPT !.value = m.acc]
      OBVIOUS
    <3>4. slot \in [value : Values(m), owner : Users(m), flags : Int]
      BY <3>2, <3>3, Registers
    <3>5. MachineOK(u) /\ p \in Values(u) /\ DOMAIN u = DOMAIN Blank
          /\ Values(m) \subseteq Values(u) /\ Users(m) \subseteq Users(u)
      BY <2>2, <2>4, <2>7, <2>10, StillValues, Registers
    <3>6. p.obj \in 1 .. Len(u.objs) /\ IsObject(u, u.objs[p.obj], p.obj)
          /\ DOMAIN u.objs = 1 .. Len(u.objs)
      BY <2>10, <3>5, ObjIs, Lengths DEF ObjectOK, IsObject
    <3>7. PICK old : old = u.objs[p.obj]
      OBVIOUS
    <3>8. PICK x : x = [old EXCEPT !.slots = PutIn(old.slots, Lit.sym, slot)]
      OBVIOUS
    <3>9. \A n \in DOMAIN PutIn(old.slots, Lit.sym, slot) :
             PutIn(old.slots, Lit.sym, slot)[n] \in [value : Values(u), owner : Users(u), flags : Int]
      <4>1. slot \in [value : Values(u), owner : Users(u), flags : Int]
        BY <3>4, <3>5
      <4> QED BY <3>6, <3>7, <4>1, PutInIs DEF IsObject
    <3>10. IsObject(u, x, p.obj) /\ x.flags = old.flags
      BY <3>6, <3>7, <3>8, <3>9 DEF IsObject
    <3>11. PICK w : w = [u EXCEPT !.objs = [u.objs EXCEPT ![p.obj] = x]]
      OBVIOUS
    <3>12. w = [u EXCEPT !.objs[p.obj].slots = PutIn(@, Lit.sym,
                   [Slot(m, p, Lit.sym) EXCEPT !.value = m.acc])]
      BY <3>1, <3>3, <3>5, <3>6, <3>7, <3>8, <3>11 DEF Blank
    <3>13. SameRegisters(w, u) /\ w.mem = u.mem /\ w.glob = u.glob
           /\ w.objs = [u.objs EXCEPT ![p.obj] = x]
      BY <3>5, <3>11 DEF SameRegisters, Blank
    <3>14. Harmless(u, w)
      BY <3>5, <3>6, <3>7, <3>10, <3>13, PutObject
    <3>15. Harmless(m, Skip(w, 2))
      BY <2>2, <2>4, <3>14, HarmlessTwice, ThenSkip
    <3> QED BY <3>12, <3>15
  <2> QED
    <3>1. t = IF ~IsObj(p) THEN Raise(u, "vm-runtime-type-error", p)
                 ELSE IF ~Can(m, m.objs[p.obj], X) THEN Raise(u, "no-permission", Lit)
                 ELSE IF Find(m, p, "slots", Lit.sym) = 0 THEN Raise(u, "slot-not-found", Lit)
                 ELSE IF ~Can(m, Slot(m, p, Lit.sym), W) THEN Raise(u, "no-permission", Lit)
                 ELSE Skip([u EXCEPT !.objs[p.obj].slots = PutIn(@, Lit.sym,
                              [Slot(m, p, Lit.sym) EXCEPT !.value = m.acc])], 2)
      BY <2>4, <2>5
    <3> HIDE DEF t, s, o, at
    <3> QED BY <3>1, <2>8, <2>9, <2>10
<1> HIDE DEF t
<1> QED BY <1>1, <1>2, StepToHarmless

LEMMA NullsAre == ASSUME NEW s, NEW n \in Nat PROVE Nulls(n) \in Seq(Values(s)) /\ Len(Nulls(n)) = n
<1>1. NullV \in Values(s)
  BY Truths
<1> QED BY <1>1 DEF Nulls

LEMMA VECTORAllowed == ASSUME MachineOK(m), VECTOR PROVE Allowed(m, m')
<1>1. PICK u : u = NewVec(m, Nulls(At(1)))
  OBVIOUS
<1>2. Fetch(Op.VECTOR) /\ Becomes(Skip(u, 2))
  BY <1>1 DEF VECTOR
<1>3. ASSUME Decoded PROVE Harmless(m, Skip(u, 2))
  <2>1. At(1) \in Nat
    BY <1>2, <1>3, OperandsAre, BytesAreNumbers DEF OneByte
  <2>2. Nulls(At(1)) \in Seq(Values(m))
    BY <2>1, NullsAre
  <2>3. Harmless(m, u)
    BY <1>1, <2>2, NewVecHarmless
  <2> QED BY <2>3, ThenSkip
<1> QED BY <1>2, <1>3, StepToHarmless

\* The innermost scope is set to what is a value by then.
LEMMA ThenScope ==
    ASSUME NEW s, MachineOK(s), NEW u, Harmless(s, u), NEW v \in Values(u), NEW t,
           t = [u EXCEPT !.env = v]
    PROVE  Harmless(s, t)
<1>1. MachineOK(u) /\ Fits(u, u) /\ DOMAIN u = DOMAIN Blank
  BY StillValues, FitsItself, Registers
<1>2. Fits(t, u) /\ SamePlaces(t, u) /\ t.glob = u.glob /\ t.uid = u.uid /\ t.effuid = u.effuid
      /\ t.trap = u.trap
  BY <1>1 DEF Fits, SamePlaces, Blank
<1> QED BY <1>2, ThenSet

LEMMA ENTER_SCOPEAllowed == ASSUME MachineOK(m), ENTER_SCOPE PROVE Allowed(m, m')
<1> DEFINE elts == << m.env >> \o Nulls(At(1))
           c == [vec |-> elts]
<1>1. PICK n : n = New(m, c)
  OBVIOUS
<1>2. PICK v : v = Ref(Len(m.mem) + 1)
  OBVIOUS
<1>3. PICK t : t = [n EXCEPT !.env = v]
  OBVIOUS
<1>4. Fetch(Op.ENTER_SCOPE) /\ Becomes(Skip(t, 2))
  BY <1>1, <1>2, <1>3 DEF ENTER_SCOPE
<1>5. ASSUME Decoded PROVE Harmless(m, Skip(t, 2))
  <2>1. At(1) \in Nat
    BY <1>4, <1>5, OperandsAre, BytesAreNumbers DEF OneByte
  <2>2. PICK q \in Seq(Values(m)) : q = Nulls(At(1))
    BY <2>1, NullsAre
  <2>3. << m.env >> \in Seq(Values(m)) /\ Len(<< m.env >>) = 1
    BY Registers
  <2>4. << m.env >> \o q \in Seq(Values(m)) /\ Len(<< m.env >> \o q) = 1 + Len(q)
    BY <2>3, ConcatProperties
  <2>5. << m.env >> \o q # << >>
    <3>1. Len(<< m.env >> \o q) # 0
      BY <2>4
    <3> QED BY <3>1
  <2>6. [vec |-> << m.env >> \o q] \in Memory(m)
    BY <2>4, <2>5, ValueElts
  <2>7. "frame" \notin DOMAIN c /\ "method" \notin DOMAIN c /\ c \in Memory(m)
    BY <2>2, <2>6
  <2> HIDE DEF c, elts
  <2>8. Harmless(m, n) /\ v \in Values(n)
    BY <1>1, <1>2, <2>7, NewCell
  <2>9. Harmless(m, t)
    BY <1>3, <2>8, ThenScope
  <2> QED BY <2>9, ThenSkip
<1> QED BY <1>4, <1>5, StepToHarmless

LEMMA LEAVE_SCOPEAllowed == ASSUME MachineOK(m), LEAVE_SCOPE PROVE Allowed(m, m')
<1>1. PICK v : v = Elt(m, m.env, 0)
  OBVIOUS
<1>2. PICK t : t = [m EXCEPT !.env = v]
  OBVIOUS
<1> DEFINE s == IF v = Outside THEN Wild(m) ELSE Skip(t, 1)
<1>3. Becomes(s)
  BY <1>1, <1>2 DEF LEAVE_SCOPE
<1>4. Harmless(m, s)
  <2>1. CASE v = Outside
    BY <2>1, WildHarmless
  <2>2. CASE v # Outside
    <3>1. v \in Values(m)
      BY <1>1, <2>2, Registers, EltIs
    <3>2. Harmless(m, t)
      BY <1>2, <3>1, StaysSound, ThenScope
    <3> QED BY <2>2, <3>2, ThenSkip
  <2> QED BY <2>1, <2>2
<1> HIDE DEF s
<1> QED BY <1>3, <1>4, StepToHarmless

LEMMA MAKE_VECTORAllowed == ASSUME MachineOK(m), MAKE_VECTOR PROVE Allowed(m, m')
<1>1. PICK d : d = Len(m.stack) - At(1)
  OBVIOUS
<1>2. PICK elts : elts = [i \in 1 .. At(1) |-> IF d + i > 0 THEN m.stack[d + i] ELSE m.bottom]
  OBVIOUS
<1>3. PICK u : u = NewVec(m, elts)
  OBVIOUS
<1>4. PICK x : x = IF d < 0 THEN "dying" ELSE u.state
  OBVIOUS
<1>5. PICK t : t = [u EXCEPT !.stack = SubSeq(@, 1, d), !.state = x]
  OBVIOUS
<1>6. Fetch(Op.MAKE_VECTOR) /\ Becomes(Skip(t, 2))
  <2>1. t = [u EXCEPT !.stack = SubSeq(@, 1, d), !.state = IF d < 0 THEN "dying" ELSE @]
    BY <1>4, <1>5
  <2> QED BY <1>1, <1>2, <1>3, <2>1 DEF MAKE_VECTOR
<1>7. ASSUME Decoded PROVE Harmless(m, Skip(t, 2))
  <2>1. At(1) \in Nat
    BY <1>6, <1>7, OperandsAre, BytesAreNumbers DEF OneByte
  <2>2. /\ m.stack \in Stacks(m) /\ Len(m.stack) \in Nat /\ m.bottom \in Values(m)
        /\ \A i \in 1 .. Len(m.stack) : m.stack[i] \in Values(m)
    BY Lengths DEF MachineOK, RegistersOK, Stacks
  <2>3. elts \in Seq(Values(m))
    <3>1. PICK n \in Nat : n = At(1)
      BY <2>1
    <3>2. \A i \in 1 .. n : (IF d + i > 0 THEN m.stack[d + i] ELSE m.bottom) \in Values(m)
      BY <1>1, <2>2, <3>1
    <3>3. elts \in [1 .. n -> Values(m)]
      BY <1>2, <3>1, <3>2
    <3> QED BY <3>3
  <2>4. PICK q : q = SubSeq(m.stack, 1, d)
    OBVIOUS
  <2>5. q \in Stacks(m)
    <3>1. CASE d < 0
      <4>1. d \in Int /\ q = << >>
        BY <1>1, <2>1, <2>2, <2>4, <3>1 DEF Stacks
      <4> QED BY <4>1, MachineAssumption DEF Stacks
    <3>2. CASE ~(d < 0)
      <4>1. d \in 0 .. Len(m.stack)
        BY <1>1, <2>1, <2>2, <3>2
      <4> QED BY <2>2, <2>4, <4>1, StackPart
    <3> QED BY <3>1, <3>2
  <2>6. Harmless(m, u) /\ u.stack = m.stack
    BY <1>3, <2>3, NewVecHarmless, ZenonT(30)
  <2>7. MachineOK(u) /\ q \in Stacks(u) /\ u.acc \in Values(u) /\ u.bottom \in Values(u)
        /\ DOMAIN u = DOMAIN Blank
    BY <2>5, <2>6, StillValues, Registers
  <2>8. SameRegisters(t, [u EXCEPT !.stack = q, !.acc = u.acc, !.bottom = u.bottom])
        /\ t.mem = u.mem /\ t.objs = u.objs /\ t.glob = u.glob
    BY <1>5, <2>4, <2>6, <2>7 DEF SameRegisters, Blank
  <2>9. Harmless(u, t)
    BY <2>7, <2>8, SetStack
  <2> QED BY <2>6, <2>9, HarmlessTwice, ThenSkip
<1> QED BY <1>6, <1>7, StepToHarmless

\* A closure over what is a method by then is made, and becomes the accumulator.
LEMMA NewClosure ==
    ASSUME NEW s, MachineOK(s), NEW u, Harmless(s, u), NEW meth \in Methods(u), NEW self \in Values(u),
           NEW f, f = New(u, [closure |-> [meth |-> meth, self |-> self]])
    PROVE  Harmless(s, f) /\ Newest(f) \in Values(f) /\ Harmless(s, [f EXCEPT !.acc = Newest(f)])
<1>1. MachineOK(u)
  BY StillValues
<1> DEFINE c == [closure |-> [meth |-> meth, self |-> self]]
<1>2. c \in Memory(u) /\ "frame" \notin DOMAIN c /\ "method" \notin DOMAIN c
  BY DEF Memory
<1> HIDE DEF c
<1>3. Harmless(u, f) /\ Newest(f) \in Values(f)
  <2>1. f = New(u, c)
    BY DEF c
  <2> QED BY <1>1, <1>2, <2>1, NewCell
<1>4. Harmless(s, f)
  BY <1>3, HarmlessTwice
<1>5. Harmless(s, Returning(f, Newest(f)))
  BY <1>3, <1>4, ThenReturn
<1> QED BY <1>3, <1>4, <1>5 DEF Returning

LEMMA CLOSUREAllowed == ASSUME MachineOK(m), CLOSURE PROVE Allowed(m, m')
<1> DEFINE k == m.acc.template
           h == [argc |-> m.tmpls[k].argc, code |-> k, env |-> m.env,
                 owner |-> m.effuid, setuid |-> FALSE, flags |-> 4095]
           c == [method |-> h]
           n == New(m, c)
           f == New(n, [closure |-> [meth |-> Newest(n), self |-> m.self]])
           t == [f EXCEPT !.acc = Newest(f)]
<1>1. Fetch(Op.CLOSURE) /\ Becomes(Skip(t, 1))
  BY DEF CLOSURE
<1> HIDE DEF n, f, t
<1>2. n = New(m, c)
  BY DEF n
<1>3. f = New(n, [closure |-> [meth |-> Newest(n), self |-> m.self]])
  BY DEF f
<1>4. t = [f EXCEPT !.acc = Newest(f)]
  BY DEF t
<1>5. ASSUME Decoded PROVE Harmless(m, Skip(t, 1))
  <2>1. "template" \in DOMAIN m.acc
    <3> HIDE DEF c, h, k
    <3> QED BY <1>1, <1>5 DEF Decoded, Fetch
  <2>2. k \in DOMAIN m.tmpls /\ m.tmpls[k].argc \in Nat
    <3>1. m.acc \in [template : DOMAIN m.tmpls]
      BY <2>1, Registers DEF Values, Users, NullV, Undefined, EmptyV, Yield
    <3>2. k \in DOMAIN m.tmpls
      BY <3>1
    <3>3. m.tmpls \in Seq(Templates(Len(m.tmpls)))
      BY DEF MachineOK, MemoryOK
    <3> HIDE DEF k
    <3>4. m.tmpls[k] \in Templates(Len(m.tmpls))
      BY <3>2, <3>3
    <3> QED BY <3>2, <3>4 DEF Templates
  <2>3. c \in Memory(m) /\ "frame" \notin DOMAIN c /\ "method" \in DOMAIN c /\ ~c.method.setuid
    <3> HIDE DEF k
    <3>1. h \in [argc : Nat, code : DOMAIN m.tmpls, env : Values(m), owner : Users(m),
                 setuid : BOOLEAN, flags : Int]
      <4>1. PICK z \in Int : z = 4095
        OBVIOUS
      <4>2. PICK b \in BOOLEAN : b = FALSE
        OBVIOUS
      <4>3. [argc |-> m.tmpls[k].argc, code |-> k, env |-> m.env, owner |-> m.effuid,
             setuid |-> b, flags |-> z]
            \in [argc : Nat, code : DOMAIN m.tmpls, env : Values(m), owner : Users(m),
                 setuid : BOOLEAN, flags : Int]
        BY <2>2, Registers
      <4> QED BY <4>1, <4>2, <4>3
    <3>2. h.setuid = FALSE
      OBVIOUS
    <3> HIDE DEF h
    <3> QED BY <3>1, <3>2 DEF Memory
  <2> HIDE DEF c
  <2>4. Harmless(m, n) /\ Newest(n) \in Methods(n)
    BY <1>2, <2>3, NewCell
  <2>5. PICK self : self = m.self
    OBVIOUS
  <2>6. self \in Values(n)
    BY <2>4, <2>5, StillValues, Registers
  <2>7. Harmless(m, t)
    BY <1>3, <1>4, <2>4, <2>5, <2>6, NewClosure
  <2> QED BY <2>7, ThenSkip
<1> QED BY <1>1, <1>5, StepToHarmless

LEMMA METHOD_CLOSUREAllowed == ASSUME MachineOK(m), METHOD_CLOSURE PROVE Allowed(m, m')
<1>1. PICK o : o = m.acc
  OBVIOUS
<1>2. PICK meth : meth = Method(m, o, Lit.sym)
  OBVIOUS
<1>3. PICK f : f = New(m, [closure |-> [meth |-> meth, self |-> o]])
  OBVIOUS
<1> DEFINE t == IF ~IsObj(o) THEN TypeError
                ELSE IF Find(m, o, "methods", Lit.sym) = 0 THEN Raise(m, "method-not-found", Lit)
                ELSE IF ~Can(m, Cell(m, meth).method, R) THEN Raise(m, "no-permission", Lit)
                ELSE Skip([f EXCEPT !.acc = Newest(f)], 2)
<1>4. Fetch(Op.METHOD_CLOSURE) /\ Becomes(t)
  BY <1>1, <1>2, <1>3 DEF METHOD_CLOSURE
<1>5. ASSUME Decoded PROVE Harmless(m, t)
  <2>1. Lit \in Values(m)
    <3>1. Op.METHOD_CLOSURE \in Literal
      BY DEF Literal, Naming
    <3> HIDE DEF t
    <3> QED BY <1>4, <1>5, <3>1, OperandsAre
  <2>2. "no-permission" \in Raised /\ "method-not-found" \in Raised
    BY DEF Raised
  <2>3. Harmless(m, TypeError)
    BY TypeErrorHarmless
  <2>4. Harmless(m, Raise(m, "method-not-found", Lit)) /\ Harmless(m, Raise(m, "no-permission", Lit))
    <3> HIDE DEF t
    <3> QED BY <2>1, <2>2, RaiseOne
  <2>5. o \in Values(m)
    BY <1>1, Registers
  <2>6. ASSUME IsObj(o), Find(m, o, "methods", Lit.sym) # 0
        PROVE  Harmless(m, Skip([f EXCEPT !.acc = Newest(f)], 2))
    <3> HIDE DEF t
    <3>1. meth \in Methods(m)
      BY <1>2, <2>5, <2>6, MethodFound
    <3>2. PICK u : u = [f EXCEPT !.acc = Newest(f)]
      OBVIOUS
    <3>3. Harmless(m, u)
      BY <1>3, <2>5, <3>1, <3>2, StaysSound, NewClosure
    <3> QED BY <3>2, <3>3, ThenSkip
  <2> QED BY <2>3, <2>4, <2>6
<1> HIDE DEF t
<1> QED BY <1>4, <1>5, StepToHarmless

LEMMA RETAllowed == ASSUME MachineOK(m), RET PROVE Allowed(m, m')
<1>1. PICK s : s = RestoreFrame(m, m.frame)
  OBVIOUS
<1> DEFINE t == IF m.frame = NullV THEN [m EXCEPT !.state = "done"]
                ELSE IF s.code = 0 THEN [s EXCEPT !.state = "done"] ELSE s
<1>2. Becomes(t)
  BY <1>1 DEF RET
<1>3. Harmless(m, m) /\ Harmless(m, s)
  BY <1>1, Registers, StaysSound, RestoreFrameHarmless
<1>4. Harmless(m, [m EXCEPT !.state = "done"]) /\ Harmless(m, [s EXCEPT !.state = "done"])
  BY <1>3, ThenWild
<1>5. Harmless(m, t)
  BY <1>3, <1>4
<1> HIDE DEF t
<1> QED BY <1>2, <1>5, StepToHarmless

LEMMA OffsetIs == ASSUME NEW hi \in Int, NEW lo \in Int PROVE Offset(hi, lo) \in Int
BY DEF Offset, Word

LEMMA JumpsAllowed == ASSUME MachineOK(m), JUMP \/ JUMP_TRUE \/ JUMP_FALSE PROVE Allowed(m, m')
<1>1. PICK n : n = 3 + Offset(At(1), At(2))
  OBVIOUS
<1>2. PICK op \in {Op.JUMP, Op.JUMP_TRUE, Op.JUMP_FALSE}, k \in {3, n} :
         Fetch(op) /\ Becomes(Skip(m, k))
  <2>1. CASE JUMP
    BY <1>1, <2>1 DEF JUMP
  <2>2. CASE JUMP_TRUE
    BY <1>1, <2>2 DEF JUMP_TRUE
  <2>3. CASE JUMP_FALSE
    BY <1>1, <2>3 DEF JUMP_FALSE
  <2> QED BY <2>1, <2>2, <2>3
<1>3. ASSUME Decoded PROVE k \in Int
  <2>1. op \in TwoBytes
    BY <1>2 DEF TwoBytes
  <2>2. At(1) \in Bytes /\ At(2) \in Bytes
    BY <1>2, <1>3, <2>1, OperandsAre
  <2>3. At(1) \in Int /\ At(2) \in Int
    <3>1. At(1) \in Nat /\ At(2) \in Nat
      BY <2>2, BytesAreNumbers
    <3> QED BY <3>1
  <2>4. Offset(At(1), At(2)) \in Int
    BY <2>3, OffsetIs
  <2>5. n \in Int
    BY <1>1, <2>4
  <2> QED BY <1>2, <2>5
<1> QED BY <1>2, <1>3, SkipHarmless, StepToHarmless

LEMMA NOTAllowed == ASSUME MachineOK(m), NOT PROVE Allowed(m, m')
<1>1. PICK b \in BOOLEAN : b = (m.acc = False)
  OBVIOUS
<1>2. Moves(Bool(b), 1)
  BY <1>1 DEF NOT
<1>3. Bool(b) \in Found(m)
  BY Truths DEF Found
<1> QED BY <1>2, <1>3, MovesHarmless

\* Two values are taken and one is left.
LEMMA DroppedThen ==
    ASSUME MachineOK(m), NEW v \in Values(m), NEW n \in Int
    PROVE  Harmless(m, Skip([Dropped(m) EXCEPT !.acc = v], n))
<1>1. PICK u : u = Dropped(m)
  OBVIOUS
<1>2. Harmless(m, u)
  BY <1>1, DroppedHarmless
<1>3. v \in Values(u)
  BY <1>2, StillValues
<1>4. PICK w : w = [u EXCEPT !.acc = v]
  OBVIOUS
<1>5. Harmless(m, w)
  BY <1>2, <1>3, <1>4, ThenReturn
<1> QED BY <1>1, <1>4, <1>5, ThenSkip

LEMMA ComparisonsAllowed == ASSUME MachineOK(m), EQ \/ NE PROVE Allowed(m, m')
<1>1. PICK b \in BOOLEAN : Becomes(Skip([Dropped(m) EXCEPT !.acc = Bool(b)], 1))
  BY DEF EQ, NE
<1>2. Bool(b) \in Values(m)
  BY Truths
<1>3. PICK t : t = Skip([Dropped(m) EXCEPT !.acc = Bool(b)], 1)
  OBVIOUS
<1>4. Harmless(m, t)
  BY <1>2, <1>3, DroppedThen
<1> QED BY <1>1, <1>3, <1>4, StepToHarmless

\* What the machine does once it has popped the arguments of a call.
LEMMA DroppedSkip ==
    ASSUME MachineOK(m), NEW n \in Int, NEW s, s = Skip(Dropped(m), n)
    PROVE  Harmless(m, s) /\ SamePlaces(s, m) /\ s.effuid = m.effuid
<1>1. PICK u : u = Dropped(m)
  OBVIOUS
<1>2. Harmless(m, u) /\ SamePlaces(u, m) /\ u.effuid = m.effuid
  BY <1>1, DroppedHarmless
<1>3. Harmless(m, s)
  BY <1>1, <1>2, ThenSkip
<1>4. DOMAIN u = DOMAIN Blank
  BY <1>2, StillValues, Registers
<1>5. s = [u EXCEPT !.ip = u.ip + n]
  BY <1>1 DEF Skip
<1> HIDE DEF SamePlaces
<1>6. SamePlaces(s, u) /\ s.effuid = u.effuid
  BY <1>4, <1>5 DEF SamePlaces, Blank
<1> QED BY <1>2, <1>3, <1>6 DEF SamePlaces

LEMMA SendHarmless ==
    ASSUME MachineOK(m), NEW self \in Values(m), NEW target \in Values(m), Lit \in Values(m)
    PROVE  Harmless(m, Send(self, target))
<1>1. PICK meth : meth = Method(m, target, Lit.sym)
  OBVIOUS
<1>2. PICK s : s = Dropped(m)
  OBVIOUS
<1>3. PICK v : v = Top(m)
  OBVIOUS
<1>4. "null-call-error" \in Raised /\ "method-not-found" \in Raised
      /\ "no-permission" \in Raised /\ "wrong-argc" \in Raised
  BY DEF Raised
<1>5. /\ Harmless(m, Raise(m, "null-call-error", Lit)) /\ Harmless(m, Raise(m, "method-not-found", Lit))
      /\ Harmless(m, Raise(m, "no-permission", Lit))
  BY <1>4, RaiseOne
<1>6. Harmless(m, s)
  BY <1>2, DroppedHarmless
<1>7. Harmless(m, Raise(s, "wrong-argc", Lit))
  BY <1>4, <1>6, RaiseAfter
<1>8. Harmless(m, TypeError) /\ Harmless(m, Wild(m))
  BY TypeErrorHarmless, WildHarmless
<1>9. ASSUME IsObj(target), Find(m, target, "methods", Lit.sym) # 0, IsVec(m, v)
      PROVE  Harmless(m, Activate(Skip(s, 2), meth, self, v))
  <2>1. meth \in Methods(m)
    BY <1>1, <1>9, MethodFound
  <2>3. v \in Values(m)
    BY <1>3, TopIs
  <2>4. PICK u : u = Skip(s, 2)
    OBVIOUS
  <2>5. Harmless(m, u)
    BY <1>6, <2>4, ThenSkip
  <2>6. MachineOK(u) /\ meth \in Methods(u) /\ self \in Values(u) /\ v \in Values(u)
    BY <2>1, <2>3, <2>5, StillValues
  <2>7. PICK w : w = Activate(u, meth, self, v)
    OBVIOUS
  <2>8. Harmless(u, w)
    BY <2>6, <2>7, ActivateHarmless
  <2>9. Harmless(m, w)
    BY <2>5, <2>8, HarmlessTwice
  <2> QED BY <2>4, <2>7, <2>9
<1> QED BY <1>1, <1>2, <1>3, <1>5, <1>7, <1>8, <1>9 DEF Send

LEMMA CallsAllowed == ASSUME MachineOK(m), CALL \/ CALL_AS PROVE Allowed(m, m')
<1>1. PICK op, s :
         op \in {Op.CALL, Op.CALL_AS} /\ Fetch(op) /\ Becomes(s)
         /\ s \in {Send(m.acc, m.acc), Raise(m, "null-call-error", Lit), Send(m.self, m.acc)}
  BY DEF CALL, CALL_AS
<1>2. ASSUME Decoded PROVE Harmless(m, s)
  <2>1. op \in Literal
    BY <1>1 DEF Literal, Naming
  <2>2. Lit \in Values(m)
    BY <1>1, <1>2, <2>1, OperandsAre
  <2>3. "null-call-error" \in Raised
    BY DEF Raised
  <2>4. Harmless(m, Raise(m, "null-call-error", Lit))
    BY <2>2, <2>3, RaiseOne
  <2>5. Harmless(m, Send(m.acc, m.acc)) /\ Harmless(m, Send(m.self, m.acc))
    BY <2>2, Registers, SendHarmless
  <2> QED BY <1>1, <2>4, <2>5
<1> QED BY <1>1, <1>2, StepToHarmless

LEMMA AllowedAfter ==
    ASSUME NEW s, MachineOK(s), NEW u, Harmless(s, u), u.effuid = s.effuid, u.objs = s.objs,
           NEW t, Allowed(u, t)
    PROVE  Allowed(s, t)
<1>1. MayAll(u) = MayAll(s)
  BY DEF MayAll, Privileged
<1>2. Sound(s, t)
  BY SoundTwice DEF Allowed, Harmless
<1>3. CASE MayAll(s)
  BY <1>2, <1>3 DEF Allowed
<1>4. CASE ~MayAll(s)
  <2>1. Harmless(u, t)
    BY <1>1, <1>4 DEF Allowed, Harmless
  <2> QED BY <2>1, HarmlessTwice, HarmlessAllowed
<1> QED BY <1>3, <1>4

LEMMA APPLYAllowed == ASSUME MachineOK(m), APPLY PROVE Allowed(m, m')
<1>1. PICK f : f = m.acc
  OBVIOUS
<1>2. PICK s : s = Skip(Dropped(m), 1)
  OBVIOUS
<1>3. PICK v : v = Top(m)
  OBVIOUS
<1> DEFINE t == IF ~IsVec(m, v) \/ Mistaken(m, f) THEN Wild(m)
                ELSE IF "prim" \in DOMAIN f THEN ApplyPrim(s, f.prim, v)
                ELSE IF IsClosure(m, f) THEN ApplyClosure(s, f, v)
                ELSE IF "cont" \in DOMAIN Cell(m, f) THEN Resume(s, f, Elt(m, v, 1))
                ELSE Raise(s, "invalid-callable", f)
<1>4. Becomes(t)
  BY <1>1, <1>2, <1>3 DEF APPLY
<1>5. f \in Values(m) /\ v \in Values(m) /\ v \in Found(m)
  BY <1>1, <1>3, Registers, TopIs DEF Found
<1>6. Harmless(m, s) /\ SamePlaces(s, m) /\ s.effuid = m.effuid
  BY <1>2, DroppedSkip
<1>7. MachineOK(s) /\ Values(m) \subseteq Values(s) /\ Found(m) \subseteq Found(s)
  BY <1>6, StillValues
<1>8. \A x : Cell(s, x) = Cell(m, x) /\ IsVec(s, x) = IsVec(m, x) /\ IsClosure(s, x) = IsClosure(m, x)
  BY <1>6 DEF SamePlaces, Cell, IsVec, IsClosure
<1>9. ASSUME ~IsVec(m, v) \/ Mistaken(m, f) PROVE Allowed(m, t)
  BY <1>9, WildHarmless, HarmlessAllowed
<1>10. ASSUME IsVec(m, v), ~Mistaken(m, f) PROVE Allowed(m, t)
  <2>1. v \in Values(s) /\ IsVec(s, v)
    BY <1>5, <1>7, <1>8, <1>10, VectorAt
  <2>2. ASSUME "prim" \in DOMAIN f PROVE Allowed(m, ApplyPrim(s, f.prim, v))
    <3>1. f.prim \in DOMAIN Argcs
      BY <1>5, <2>2 DEF Values, Users, NullV, Undefined, EmptyV, Yield
    <3>2. PICK w : w = ApplyPrim(s, f.prim, v)
      OBVIOUS
    <3>3. Allowed(s, w)
      BY <1>7, <2>1, <3>1, <3>2, ApplyPrimAllowed
    <3>4. s.objs = m.objs
      BY <1>6 DEF SamePlaces
    <3>5. Allowed(m, w)
      BY <1>6, <3>3, <3>4, AllowedAfter
    <3> QED BY <3>2, <3>5
  <2>3. ASSUME IsClosure(m, f) PROVE Harmless(m, ApplyClosure(s, f, v))
    <3>1. PICK w : w = ApplyClosure(s, f, v)
      OBVIOUS
    <3>2. Harmless(s, w)
      BY <1>5, <1>7, <1>8, <2>1, <2>3, <3>1, ApplyClosureHarmless
    <3> QED BY <1>6, <3>1, <3>2, HarmlessTwice
  <2>4. ASSUME "cont" \in DOMAIN Cell(m, f) PROVE Harmless(m, Resume(s, f, Elt(m, v, 1)))
    <3>1. PICK x : x = Elt(m, v, 1)
      OBVIOUS
    <3>2. x \in Found(m)
      BY <1>5, <3>1, EltIs
    <3>3. PICK w : w = Resume(s, f, x)
      OBVIOUS
    <3>4. Harmless(s, w)
      BY <1>5, <1>7, <1>8, <2>4, <3>2, <3>3, ResumeHarmless
    <3> QED BY <1>6, <3>1, <3>3, <3>4, HarmlessTwice
  <2>5. Harmless(m, Raise(s, "invalid-callable", f))
    <3>1. "invalid-callable" \in Raised
      BY DEF Raised
    <3> QED BY <1>5, <1>6, <3>1, RaiseAfter
  <2> QED BY <1>10, <2>2, <2>3, <2>4, <2>5, HarmlessAllowed
<1>11. Allowed(m, t)
  BY <1>9, <1>10
<1> HIDE DEF t
<1> QED BY <1>4, <1>11, StepTo
-----------------------------------------------------------------------------
(* Numbers.                                                                *)

LEMMA WrapIs == ASSUME NEW n \in Int PROVE Wrap(n) \in Int
<1>1. PICK k \in Int : k = Modulus /\ k > 0
  BY SMT DEF Modulus, Bits
<1>2. n % k \in Int
  BY <1>1
<1> QED BY <1>1, <1>2 DEF Wrap

LEMMA BitIs == ASSUME NEW n \in Int, NEW i \in 0 .. Bits - 1 PROVE 2 ^ i \in Nat /\ BitOf(n, i) \in Nat
<1>1. PICK k \in Int : k = Modulus /\ k > 0
  BY SMT DEF Modulus, Bits
<1>2. i \in {0, 1, 2, 3, 4, 5, 6, 7}
  BY DEF Bits
<1>3. PICK p \in Int : p = 2 ^ i /\ p > 0
  <2>1. 2 ^ 0 = 1 /\ 2 ^ 1 = 2 /\ 2 ^ 2 = 4 /\ 2 ^ 3 = 8 /\ 2 ^ 4 = 16 /\ 2 ^ 5 = 32 /\ 2 ^ 6 = 64
        /\ 2 ^ 7 = 128
    BY SMT
  <2>2. \A j \in {0, 1, 2, 3, 4, 5, 6, 7} : 2 ^ j \in 1 .. 128
    <3> SUFFICES ASSUME NEW j \in {0, 1, 2, 3, 4, 5, 6, 7} PROVE 2 ^ j \in 1 .. 128
      OBVIOUS
    <3>1. CASE j = 0
      BY <3>1, SMT
    <3>2. CASE j = 1
      BY <3>2, SMT
    <3>3. CASE j = 2
      BY <3>3, SMT
    <3>4. CASE j = 3
      BY <3>4, SMT
    <3>5. CASE j = 4
      BY <3>5, SMT
    <3>6. CASE j = 5
      BY <3>6, SMT
    <3>7. CASE j = 6
      BY <3>7, SMT
    <3>8. CASE j = 7
      BY <3>8, SMT
    <3> QED BY <3>1, <3>2, <3>3, <3>4, <3>5, <3>6, <3>7, <3>8
  <2>3. PICK p \in 1 .. 128 : p = 2 ^ i
    <3>1. 2 ^ i \in 1 .. 128
      BY <1>2, <2>2, ZenonT(30)
    <3> QED BY <3>1, Zenon
  <2>4. p \in Int /\ p > 0
    OBVIOUS
  <2> QED BY <2>3, <2>4, Zenon
<1>4. n % k \in Nat
  BY <1>1
<1>5. (n % k) \div p \in Int
  BY <1>3, <1>4
<1> QED BY <1>1, <1>3, <1>5 DEF BitOf

LEMMA FromBitsIs ==
    ASSUME NEW bit, \A i \in 0 .. Bits - 1 : bit[i] \in Int
    PROVE  FromBits(bit) \in Int
<1>1. PICK n \in Nat : n = Bits
  BY DEF Bits
<1> DEFINE G(f, k) == [i \in 0 .. k |-> IF i = 0 THEN 0 ELSE f[i - 1] + 2 ^ (i - 1) * bit[i - 1]]
           from == CHOOSE f : f = G(f, n)
<1>2. FromBits(bit) = Wrap(from[n])
  BY <1>1 DEF FromBits
<1> DEFINE T == {k \in Nat : \E f : f = G(f, k) /\ DOMAIN f = 0 .. k}
<1>3. 0 \in T
  <2> DEFINE f == [i \in 0 .. 0 |-> 0]
  <2>1. f = G(f, 0) /\ DOMAIN f = 0 .. 0
    OBVIOUS
  <2> QED BY <2>1
<1>4. ASSUME NEW k \in Nat, k \in T PROVE k + 1 \in T
  <2>1. PICK f : f = G(f, k) /\ DOMAIN f = 0 .. k
    <3> HIDE DEF G
    <3> QED BY <1>4
  <2> DEFINE g == G(f, k + 1)
  <2>2. DOMAIN g = 0 .. k + 1
    OBVIOUS
  <2>3. \A i \in 0 .. k : g[i] = f[i]
    <3> SUFFICES ASSUME NEW i \in 0 .. k PROVE g[i] = f[i]
      OBVIOUS
    <3>1. f[i] = G(f, k)[i]
      BY <2>1
    <3>2. i \in 0 .. k + 1
      OBVIOUS
    <3> QED BY <3>1, <3>2
  <2>4. g = G(g, k + 1)
    <3>1. \A i \in 1 .. k + 1 : i - 1 \in 0 .. k
      OBVIOUS
    <3>2. \A i \in 0 .. k + 1 : i = 0 \/ i \in 1 .. k + 1
      OBVIOUS
    <3> HIDE DEF g
    <3>3. \A i \in 0 .. k + 1 : G(f, k + 1)[i] = G(g, k + 1)[i]
      BY <2>3, <3>1, <3>2
    <3>4. G(f, k + 1) = G(g, k + 1)
      BY <3>3
    <3> QED BY <3>4 DEF g
  <2> HIDE DEF g, G
  <2> QED BY <2>2, <2>4
<1>5. \E f : f = G(f, n)
  <2>1. n \in T
    <3> HIDE DEF T
    <3> QED BY <1>3, <1>4, InductionOnNat
  <2> HIDE DEF G
  <2> QED BY <2>1
<1>6. from = G(from, n)
  <2> HIDE DEF G
  <2> QED BY <1>5
<1> HIDE DEF from
<1> DEFINE S == {k \in Nat : k <= n => from[k] \in Int}
<1>7. 0 \in S
  BY <1>6
<1>8. ASSUME NEW k \in Nat, k \in S PROVE k + 1 \in S
  <2> SUFFICES ASSUME k + 1 <= n PROVE from[k + 1] \in Int
    OBVIOUS
  <2>1. from[k + 1] = from[k] + 2 ^ k * bit[k]
    BY <1>6
  <2>2. from[k] \in Int
    BY <1>8
  <2>3. k \in 0 .. Bits - 1
    BY <1>1
  <2>4. 2 ^ k \in Int /\ bit[k] \in Int
    BY <2>3, BitIs
  <2>5. PICK p \in Int, b \in Int : p = 2 ^ k /\ b = bit[k]
    BY <2>4
  <2> QED BY <2>1, <2>2, <2>5
<1>9. n \in S
  <2> HIDE DEF S
  <2> QED BY <1>7, <1>8, InductionOnNat
<1>10. from[n] \in Int
  BY <1>9
<1> QED BY <1>2, <1>10, WrapIs

LEMMA AndIs == ASSUME NEW a \in Int, NEW b \in Int PROVE And(a, b) \in Int
<1> DEFINE bit == [i \in 0 .. Bits - 1 |-> BitOf(a, i) * BitOf(b, i)]
<1>1. \A i \in 0 .. Bits - 1 : bit[i] \in Int
  <2> SUFFICES ASSUME NEW i \in 0 .. Bits - 1 PROVE BitOf(a, i) * BitOf(b, i) \in Int
    OBVIOUS
  <2>1. PICK x \in Int, y \in Int : x = BitOf(a, i) /\ y = BitOf(b, i)
    BY BitIs
  <2> QED BY <2>1
<1>2. And(a, b) = FromBits(bit)
  BY DEF And
<1> HIDE DEF bit
<1> QED BY <1>1, <1>2, FromBitsIs

LEMMA QuotientIs ==
    ASSUME NEW a \in Int, NEW b \in Int, b # 0
    PROVE  Quotient(a, b) \in Int /\ Remainder(a, b) \in Int
<1>1. PICK x \in Int, y \in Int : x = Abs(a) /\ y = Abs(b) /\ y > 0
  BY DEF Abs
<1>2. PICK q \in Int : q = x \div y
  BY <1>1
<1>3. Quotient(a, b) \in {q * 1, q * (-1)}
  BY <1>1, <1>2 DEF Quotient
<1>4. PICK r \in Int : r = Quotient(a, b)
  BY <1>3
<1>5. b * r \in Int
  OBVIOUS
<1> QED BY <1>4, <1>5 DEF Remainder

\* What an operation on two numbers gives, unless it divides by zero.
LEMMA NumResultIs ==
    ASSUME NEW s, NEW op \in NumOps, NEW a \in Int, NEW b \in Int, op \in Divisions => b # 0
    PROVE  NumResult(op, a, b) \in Values(s)
<1>1. \A x \in Int : Num(x) \in Values(s)
  BY DEF Num, Values
<1>2. CASE op \in {Op.GT, Op.LT, Op.GE, Op.LE}
  <2>1. (a > b) \in BOOLEAN /\ (a < b) \in BOOLEAN /\ (a >= b) \in BOOLEAN /\ (a <= b) \in BOOLEAN
    OBVIOUS
  <2>2. /\ Bool(a > b) \in Values(s) /\ Bool(a < b) \in Values(s)
        /\ Bool(a >= b) \in Values(s) /\ Bool(a <= b) \in Values(s)
    BY <2>1, Truths, Zenon
  <2>3. NumResult(op, a, b) \in {Bool(a > b), Bool(a < b), Bool(a >= b), Bool(a <= b)}
    BY <1>2 DEF NumResult, Op
  <2> QED BY <2>2, <2>3
<1>3. CASE op \notin {Op.GT, Op.LT, Op.GE, Op.LE}
  <2>1. And(a, b) \in Int /\ Or(a, b) \in Int
    <3>1. PICK x \in Int : x = And(a, b)
      BY AndIs
    <3> QED BY <3>1 DEF Or
  <2>2. Wrap(a - b) \in Int /\ Wrap(a * b) \in Int /\ Wrap(-b) \in Int /\ -b - 1 \in Int
    <3>1. a - b \in Int /\ a * b \in Int /\ -b \in Int
      OBVIOUS
    <3> QED BY <3>1, WrapIs
  <2>3. op \in Divisions => Wrap(Quotient(a, b)) \in Int /\ Remainder(a, b) \in Int
    BY QuotientIs, WrapIs
  <2>4. PICK x \in Int : NumResult(op, a, b) = Num(x)
    <3>1. CASE op \in {Op.BOR, Op.BAND}
      BY <2>1, <3>1 DEF NumResult, Op
    <3>2. CASE op \in {Op.MINUS, Op.STAR} \cup Negations
      BY <2>2, <3>2 DEF NumResult, Op, Negations
    <3>3. CASE op \in Divisions
      BY <2>3, <3>3 DEF NumResult, Op, Divisions
    <3> QED BY <1>3, <3>1, <3>2, <3>3 DEF NumOps
  <2> QED BY <1>1, <2>4
<1> QED BY <1>2, <1>3

LEMMA NumOpAllowed == ASSUME MachineOK(m), NumOp PROVE Allowed(m, m')
<1>1. PICK v : v = Peek(m)
  OBVIOUS
<1>2. PICK op \in NumOps :
         Fetch(op)
         /\ Becomes(IF ~IsNum(m.acc) \/ ~IsNum(v) THEN TypeError
                    ELSE IF op \in Divisions /\ m.acc = Num(0)
                         THEN Skip(Raise(m, "divide-by-zero", NullV), 1)
                    ELSE Skip([(IF op \in Negations THEN m ELSE Dropped(m)) EXCEPT
                                 !.acc = NumResult(op, v.num, m.acc.num)], 1))
  BY <1>1 DEF NumOp
<1>3. Harmless(m, TypeError)
  BY TypeErrorHarmless
<1>4. Harmless(m, Skip(Raise(m, "divide-by-zero", NullV), 1))
  <2>1. "divide-by-zero" \in Raised /\ NullV \in Values(m)
    BY Truths DEF Raised
  <2>2. PICK u : u = Raise(m, "divide-by-zero", NullV)
    OBVIOUS
  <2>3. Harmless(m, u)
    BY <2>1, <2>2, RaiseOne
  <2> QED BY <2>2, <2>3, ThenSkip
<1>5. ASSUME IsNum(m.acc), IsNum(v), ~(op \in Divisions /\ m.acc = Num(0))
      PROVE  Harmless(m, Skip([(IF op \in Negations THEN m ELSE Dropped(m)) EXCEPT
                                 !.acc = NumResult(op, v.num, m.acc.num)], 1))
  <2>1. v \in Values(m)
    <3>1. v # Outside
      BY <1>5 DEF IsNum, Outside
    <3> QED BY <1>1, <3>1, PeekIs DEF Found
  <2>2. v.num \in Int /\ m.acc.num \in Int
    BY <1>5, <2>1, NumIs, Registers
  <2>3. m.acc = Num(m.acc.num)
    <3>1. m.acc \in Values(m)
      BY Registers
    <3> QED BY <1>5, <3>1 DEF Values, Users, IsNum, Num, NullV, Undefined, EmptyV, Yield
  <2>4. PICK r : r = NumResult(op, v.num, m.acc.num)
    OBVIOUS
  <2>5. r \in Values(m)
    BY <1>5, <2>2, <2>3, <2>4, NumResultIs
  <2>6. Harmless(m, Skip([Dropped(m) EXCEPT !.acc = r], 1))
    BY <2>5, DroppedThen
  <2>7. PICK w : w = Returning(m, r)
    OBVIOUS
  <2>8. Harmless(m, w)
    BY <2>5, <2>7, ReturningHarmless
  <2>9. Harmless(m, Skip([m EXCEPT !.acc = r], 1))
    BY <2>7, <2>8, ThenSkip DEF Returning
  <2> QED BY <2>4, <2>6, <2>9
<1> DEFINE t == IF ~IsNum(m.acc) \/ ~IsNum(v) THEN TypeError
                ELSE IF op \in Divisions /\ m.acc = Num(0)
                     THEN Skip(Raise(m, "divide-by-zero", NullV), 1)
                ELSE Skip([(IF op \in Negations THEN m ELSE Dropped(m)) EXCEPT
                             !.acc = NumResult(op, v.num, m.acc.num)], 1)
<1>6. Harmless(m, t)
  BY <1>3, <1>4, <1>5
<1>7. Becomes(t)
  BY <1>2
<1> HIDE DEF t
<1> QED BY <1>6, <1>7, StepToHarmless

LEMMA PLUSAllowed == ASSUME MachineOK(m), PLUS PROVE Allowed(m, m')
<1>1. PICK v : v = Peek(m)
  OBVIOUS
<1> DEFINE t == IF IsNum(m.acc) /\ IsNum(v)
                THEN Skip([Dropped(m) EXCEPT !.acc = Num(Wrap(v.num + m.acc.num))], 1)
                ELSE IF IsVec(m, m.acc) /\ IsVec(m, v)
                THEN Skip(NewVec(Dropped(m), Elts(m, v) \o Elts(m, m.acc)), 1)
                ELSE TypeError
<1>2. Becomes(t)
  BY <1>1 DEF PLUS
<1>3. Harmless(m, TypeError)
  BY TypeErrorHarmless
<1>4. v \in Found(m) /\ m.acc \in Values(m) /\ m.acc \in Found(m)
  BY <1>1, PeekIs, Registers
<1>5. ASSUME IsNum(m.acc), IsNum(v)
      PROVE  Harmless(m, Skip([Dropped(m) EXCEPT !.acc = Num(Wrap(v.num + m.acc.num))], 1))
  <2>1. v \in Values(m)
    <3>1. v # Outside
      BY <1>5 DEF IsNum, Outside
    <3> QED BY <1>4, <3>1 DEF Found
  <2>2. v.num \in Int /\ m.acc.num \in Int
    BY <1>4, <1>5, <2>1, NumIs
  <2>3. PICK n \in Int : n = Wrap(v.num + m.acc.num)
    <3>1. v.num + m.acc.num \in Int
      BY <2>2
    <3> QED BY <3>1, WrapIs
  <2>4. PICK r : r = Num(n)
    OBVIOUS
  <2>5. r \in Values(m)
    BY <2>4 DEF Num, Values
  <2> QED BY <2>3, <2>4, <2>5, DroppedThen
<1>6. ASSUME IsVec(m, m.acc), IsVec(m, v)
      PROVE  Harmless(m, Skip(NewVec(Dropped(m), Elts(m, v) \o Elts(m, m.acc)), 1))
  <2>1. PICK u : u = Dropped(m)
    OBVIOUS
  <2>2. Harmless(m, u)
    BY <2>1, DroppedHarmless
  <2>3. PICK a, b : a = Elts(m, v) /\ b = Elts(m, m.acc)
    OBVIOUS
  <2>4. a \in Seq(Values(m)) /\ b \in Seq(Values(m))
    BY <1>4, <1>6, <2>3, VectorAt
  <2>5. PICK e : e = a \o b
    OBVIOUS
  <2>6. e \in Seq(Values(m))
    BY <2>4, <2>5
  <2>7. MachineOK(u) /\ Seq(Values(m)) \subseteq Seq(Values(u))
    BY <2>2, StillValues, LongerSeq
  <2>8. PICK w : w = NewVec(u, e)
    OBVIOUS
  <2>9. Harmless(u, w)
    BY <2>6, <2>7, <2>8, NewVecHarmless
  <2>10. Harmless(m, w)
    BY <2>2, <2>9, HarmlessTwice
  <2> QED BY <2>1, <2>3, <2>5, <2>8, <2>10, ThenSkip
<1>7. Harmless(m, t)
  BY <1>3, <1>5, <1>6
<1> HIDE DEF t
<1> QED BY <1>2, <1>7, StepToHarmless

LEMMA InstructionAllowed == ASSUME MachineOK(m), Instruction PROVE Allowed(m, m')
BY ATPUTAllowed, MOV_A_LOCLAllowed, MOV_LOCL_AAllowed, MOV_A_GLOBAllowed, MOV_GLOB_AAllowed,
   MOV_A_LITLAllowed, MOV_A_SELFAllowed, MOV_A_SLOTAllowed, MOV_SLOT_AAllowed, StackAllowed,
   VECTORAllowed, ENTER_SCOPEAllowed, LEAVE_SCOPEAllowed, MAKE_VECTORAllowed, CLOSUREAllowed,
   METHOD_CLOSUREAllowed, RETAllowed, CallsAllowed, APPLYAllowed, JumpsAllowed, NOTAllowed,
   ComparisonsAllowed, NumOpAllowed, PLUSAllowed DEF Instruction
-----------------------------------------------------------------------------
(* Exceptions from outside, and the next form.                             *)

LEMMA KilledAllowed == ASSUME MachineOK(m), Killed PROVE Allowed(m, m')
<1>1. "die" \in Raised /\ NullV \in Values(m)
  BY Truths DEF Raised
<1>2. PICK t : t = Raise(m, "die", NullV)
  OBVIOUS
<1>3. Harmless(m, t)
  BY <1>1, <1>2, RaiseOne
<1>4. m' = t
  BY <1>2 DEF Killed
<1> QED BY <1>3, <1>4, HarmlessAllowed

LEMMA QuotaExpiresAllowed == ASSUME MachineOK(m), QuotaExpires PROVE Allowed(m, m')
<1>1. "quota-expired" \in Raised /\ NullV \in Values(m)
  BY Truths DEF Raised
<1>2. PICK u : u = Raise(m, "quota-expired", NullV)
  OBVIOUS
<1>3. Harmless(m, u)
  BY <1>1, <1>2, RaiseOne
<1>4. PICK x : x = IF m.trap = NullV THEN "last" ELSE u.state
  OBVIOUS
<1>5. MachineOK(u) /\ Fits(u, u) /\ NullV \in Values(u) /\ DOMAIN u = DOMAIN Blank
  BY <1>3, Truths, FitsItself, StillValues, Registers
<1>6. PICK t : t = [u EXCEPT !.trap = NullV, !.state = x]
  OBVIOUS
<1>7. /\ Fits(t, u) /\ SamePlaces(t, u) /\ t.glob = u.glob /\ t.uid = u.uid /\ t.effuid = u.effuid
      /\ t.trap = NullV
  BY <1>5, <1>6 DEF Fits, SamePlaces, Blank
<1>8. m' = t
  BY <1>2, <1>4, <1>5, <1>6 DEF QuotaExpires, Blank
<1>9. Harmless(m, t)
  BY <1>3, <1>7, ThenSet
<1> QED BY <1>8, <1>9, HarmlessAllowed

LEMMA NoFormAllowed == ASSUME MachineOK(m), NoForm PROVE Allowed(m, m')
<1>1. "parse-error" \in Raised /\ NullV \in Values(m)
  BY Truths DEF Raised
<1>2. PICK t : t = Raise(m, "parse-error", NullV)
  OBVIOUS
<1>3. Harmless(m, t)
  BY <1>1, <1>2, RaiseOne
<1>4. m' = t
  BY <1>2 DEF NoForm
<1> QED BY <1>3, <1>4, HarmlessAllowed

\* More has been compiled, and the real user becomes the effective one.
AfterParse(s, tmpls) == [s EXCEPT !.tmpls = tmpls, !.effuid = s.uid]

LEMMA CompiledHarmless ==
    ASSUME NEW s, MachineOK(s), NEW tmpls, Compiled(s.tmpls, tmpls),
           NEW t, t = AfterParse(s, tmpls)
    PROVE  Harmless(s, t) /\ t.tmpls = tmpls /\ t.effuid = s.uid /\ t.uid = s.uid
<1>1. DOMAIN s = DOMAIN Blank /\ Fits(s, s) /\ s.effuid \in Users(s)
  BY Registers, FitsItself
<1>2. /\ DOMAIN t = DOMAIN Blank
      /\ t.acc = s.acc /\ t.env = s.env /\ t.self = s.self /\ t.trap = s.trap
      /\ t.frame = s.frame /\ t.meth = s.meth /\ t.uid = s.uid /\ t.effuid = s.uid
      /\ t.stack = s.stack /\ t.bottom = s.bottom /\ t.code = s.code /\ t.ip = s.ip
      /\ t.mem = s.mem /\ t.objs = s.objs /\ t.glob = s.glob /\ t.tmpls = tmpls
  BY <1>1 DEF Blank, AfterParse
<1>3. /\ Len(s.tmpls) \in Nat /\ DOMAIN s.tmpls = 1 .. Len(s.tmpls)
      /\ Len(tmpls) \in Nat /\ DOMAIN tmpls = 1 .. Len(tmpls) /\ Len(s.tmpls) <= Len(tmpls)
      /\ tmpls \in Seq(Templates(Len(tmpls)))
      /\ \A k \in 1 .. Len(s.tmpls) : tmpls[k] = s.tmpls[k]
  BY Lengths DEF Compiled
<1>4. Grown(s, t)
  BY <1>2, <1>3 DEF Grown
<1>5. /\ Users(s) \subseteq Users(t) /\ Values(s) \subseteq Values(t)
      /\ Methods(s) \subseteq Methods(t) /\ Frames(s) \subseteq Frames(t)
      /\ Stacks(s) \subseteq Stacks(t) /\ Memory(s) \subseteq Memory(t)
  BY <1>4, GrownValues, GrownMemory
<1>6. \A kind : Cells(t, kind) = Cells(s, kind)
  BY <1>2 DEF Cells
<1>7. MachineOK(t)
  <2>1. RegistersOK(t)
    <3>1. s.code \in 0 .. Len(s.tmpls) => s.code \in 0 .. Len(tmpls)
      BY <1>3
    <3> QED BY <1>1, <1>2, <1>5, <3>1 DEF RegistersOK, Fits
  <2>2. t.mem \in Seq(Memory(t))
    BY <1>2, <1>5, LongerSeq DEF MachineOK, MemoryOK
  <2>3. \A n \in DOMAIN t.glob : t.glob[n] \in Values(t)
    BY <1>2, <1>5 DEF MachineOK, MemoryOK
  <2>4. \A i \in 1 .. Len(t.objs) : ObjectOK(t, i)
    BY <1>2, <1>4, GrownObjects DEF MachineOK, MemoryOK
  <2>5. \A i \in Cells(t, "frame") :
           LET f == t.mem[i].frame.frame IN f = NullV \/ f.ref < i
    BY <1>2, <1>6 DEF MachineOK, MemoryOK
  <2> QED BY <1>2, <1>3, <2>1, <2>2, <2>3, <2>4, <2>5 DEF MachineOK, MemoryOK
<1>8. Captured(s, t)
  <2>1. Captured(s, s)
    BY StaysSound DEF Harmless, Sound
  <2> QED BY <1>2, <1>3, <2>1 DEF Captured
<1>9. Powers(t) \subseteq Powers(s) /\ PrivilegedObjects(t) = PrivilegedObjects(s)
  BY <1>2, <1>6 DEF Powers, PrivilegedObjects, Privileged
<1> QED BY <1>2, <1>7, <1>8, <1>9 DEF Harmless, Sound, NothingGained

LEMMA NewFormAllowed == ASSUME MachineOK(m), NewForm PROVE Allowed(m, m')
<1>1. PICK quota \in BOOLEAN :
         /\ Compiled(m.tmpls, m'.tmpls)
         /\ m' = Applied([m EXCEPT !.state = "run", !.quota = quota], m.uid, m'.tmpls)
  BY DEF NewForm
<1>2. PICK T : T = m'.tmpls
  OBVIOUS
<1>3. PICK r : r = [m EXCEPT !.state = "run", !.quota = quota]
  OBVIOUS
<1>4. Harmless(m, r) /\ r.tmpls = m.tmpls /\ r.uid = m.uid
  <2>1. DOMAIN m = DOMAIN Blank
    BY Registers
  <2>2. SameRegisters(r, m) /\ SamePlaces(r, m) /\ r.glob = m.glob
    BY <1>3, <2>1 DEF SameRegisters, SamePlaces, Blank
  <2>3. Harmless(m, m)
    BY StaysSound
  <2> QED BY <2>2, <2>3, ThenOther DEF SamePlaces, SameRegisters
<1>5. PICK s : s = AfterParse(r, T)
  OBVIOUS
<1>6. MachineOK(r)
  BY <1>4, StillValues
<1>7. Harmless(r, s) /\ s.tmpls = T /\ s.effuid = m.uid /\ s.uid = m.uid
  <2>1. Compiled(r.tmpls, T)
    BY <1>1, <1>2, <1>4
  <2>2. Harmless(r, s) /\ s.tmpls = T /\ s.effuid = r.uid /\ s.uid = r.uid
    BY <1>5, <1>6, <2>1, CompiledHarmless
  <2> QED BY <1>4, <2>2
<1>8. Harmless(m, s) /\ MachineOK(s)
  BY <1>4, <1>7, HarmlessTwice, StillValues

<1> DEFINE g == [argc |-> 0, code |-> Len(T), env |-> NullV, owner |-> m.uid,
                 setuid |-> FALSE, flags |-> 4095]
           c == [method |-> g]
<1>9. PICK h : h = New(s, c)
  OBVIOUS
<1>10. PICK f : f = New(h, [closure |-> [meth |-> Newest(h), self |-> NullV]])
  OBVIOUS
<1>11. PICK v : v = New(f, [vec |-> << NullV >>])
  OBVIOUS
<1>12. m' = ApplyClosure(v, Newest(f), Newest(v))
  BY <1>1, <1>2, <1>3, <1>4, <1>5, <1>9, <1>10, <1>11 DEF Applied, AfterParse
<1>13. c \in Memory(s) /\ "frame" \notin DOMAIN c /\ "method" \in DOMAIN c /\ ~c.method.setuid
  <2>1. Len(T) \in DOMAIN s.tmpls
    BY <1>1, <1>2, <1>7, Lengths DEF Compiled
  <2>2. NullV \in Values(s) /\ m.uid \in Users(s) /\ 0 \in Nat
    BY <1>7, <1>8, Truths DEF MachineOK, RegistersOK
  <2>3. g \in [argc : Nat, code : DOMAIN s.tmpls, env : Values(s), owner : Users(s),
               setuid : BOOLEAN, flags : Int]
    <3>1. PICK z \in Int : z = 4095
      OBVIOUS
    <3>2. PICK b \in BOOLEAN : b = FALSE
      OBVIOUS
    <3>3. [argc |-> 0, code |-> Len(T), env |-> NullV, owner |-> m.uid, setuid |-> b, flags |-> z]
            \in [argc : Nat, code : DOMAIN s.tmpls, env : Values(s), owner : Users(s),
                 setuid : BOOLEAN, flags : Int]
      BY <2>1, <2>2
    <3> QED BY <3>1, <3>2, <3>3
  <2>4. g.setuid = FALSE
    OBVIOUS
  <2> HIDE DEF g
  <2> QED BY <2>3, <2>4 DEF Memory
<1> HIDE DEF c, g
<1>14. Harmless(s, h) /\ Newest(h) \in Methods(h)
  BY <1>8, <1>9, <1>13, NewCell
<1>15. NullV \in Values(h)
  BY Truths
<1>16. Harmless(s, f) /\ Newest(f) \in Values(f)
  BY <1>8, <1>10, <1>14, <1>15, NewClosure
<1>17. MachineOK(f) /\ NullV \in Values(f)
  BY <1>8, <1>16, StillValues, Truths
<1>18. [vec |-> << NullV >>] \in Memory(f)
  <2>1. << NullV >> \in Seq(Values(f)) /\ << NullV >> # << >>
    BY <1>17
  <2> QED BY <1>17, <2>1, ValueElts
<1>19. Harmless(f, v) /\ Newest(v) \in Values(v) /\ \A i \in 1 .. Len(f.mem) : v.mem[i] = f.mem[i]
  <2>1. PICK e : e = [vec |-> << NullV >>]
    OBVIOUS
  <2>2. "frame" \notin DOMAIN e /\ "method" \notin DOMAIN e
    BY <2>1
  <2> QED BY <1>11, <1>17, <1>18, <2>1, <2>2, NewCell
<1>20. IsClosure(v, Newest(f)) /\ Newest(f) \in Values(v) /\ MachineOK(v)
  <2>1. PICK n \in Nat : n = Len(h.mem)
    BY <1>8, <1>14, StillValues, Lengths
  <2>2. Len(f.mem) = n + 1 /\ f.mem[n + 1] = [closure |-> [meth |-> Newest(h), self |-> NullV]]
    <3>1. MachineOK(h) /\ DOMAIN h = DOMAIN Blank
      BY <1>8, <1>14, StillValues, Registers
    <3>2. h.mem \in Seq(Memory(h))
      BY <3>1 DEF MachineOK, MemoryOK
    <3>3. f.mem = Append(h.mem, [closure |-> [meth |-> Newest(h), self |-> NullV]])
      BY <1>10, <3>1 DEF New, Blank
    <3>4. PICK e : e = [closure |-> [meth |-> Newest(h), self |-> NullV]]
      OBVIOUS
    <3>5. h.mem \in Seq(Memory(h) \cup {e})
      BY <3>2, LongerSeq
    <3> QED BY <2>1, <3>3, <3>4, <3>5
  <2>3. v.mem[n + 1] = [closure |-> [meth |-> Newest(h), self |-> NullV]]
    BY <1>19, <2>2
  <2>4. Newest(f) = Ref(n + 1)
    BY <2>2 DEF Newest
  <2>5. IsClosure(v, Newest(f))
    BY <2>3, <2>4 DEF IsClosure, Cell, Ref
  <2> QED BY <1>16, <1>17, <1>19, <2>5, StillValues
<1>21. PICK t : t = ApplyClosure(v, Newest(f), Newest(v))
  OBVIOUS
<1>22. Harmless(v, t)
  BY <1>19, <1>20, <1>21, ApplyClosureHarmless
<1>23. Harmless(m, t)
  <2>1. Harmless(m, f)
    BY <1>8, <1>16, HarmlessTwice
  <2>2. Harmless(m, v)
    BY <1>19, <2>1, HarmlessTwice
  <2> QED BY <1>22, <2>2, HarmlessTwice
<1> QED BY <1>12, <1>21, <1>23, HarmlessAllowed

-----------------------------------------------------------------------------
(* The theorems.                                                           *)

LEMMA NextAllowed == ASSUME MachineOK(m), MachineNext PROVE Allowed(m, m')
BY InstructionAllowed, KilledAllowed, QuotaExpiresAllowed, NewFormAllowed, NoFormAllowed DEF MachineNext

LEMMA BlankOK == MachineOK(Blank)
<1>1. Blank.glob = PutIn([p \in DOMAIN Argcs |-> Prim(p)], "Root", Obj(1))
  BY DEF Blank
<1>2. PICK flags \in Int : flags = OwnerMask
  BY DEF OwnerMask
<1>3. PICK root : root = [owner |-> NullV, parent |-> 0, flags |-> flags,
                          slots |-> << >>, methods |-> << >>]
  OBVIOUS
<1>4. /\ Blank.acc = NullV /\ Blank.env = NullV /\ Blank.self = NullV /\ Blank.trap = NullV
      /\ Blank.frame = NullV /\ Blank.meth = NullV /\ Blank.uid = NullV /\ Blank.effuid = NullV
      /\ Blank.stack = << >> /\ Blank.bottom = NullV /\ Blank.code = 0 /\ Blank.ip = 0 /\ Blank.tmpls = << >>
      /\ Blank.mem = << >> /\ Blank.objs = << root >>
  BY <1>2, <1>3 DEF Blank
<1>5. PICK s : s = Blank
  OBVIOUS
<1>6. NullV \in Values(s) /\ NullV \in Users(s) /\ NullV \in Frames(s)
  BY DEF Values, Users, Frames
<1>7. RegistersOK(s)
  <2>1. << >> \in Stacks(s)
    BY MachineAssumption DEF Stacks
  <2>2. Len(s.tmpls) = 0
    BY <1>4, <1>5
  <2> QED BY <1>4, <1>5, <1>6, <2>1, <2>2 DEF RegistersOK
<1>8. s.mem \in Seq(Memory(s)) /\ s.tmpls \in Seq(Templates(Len(s.tmpls))) /\ Cells(s, "frame") = {}
  <2>1. \A S : << >> \in Seq(S)
    OBVIOUS
  <2>2. s.mem \in Seq(Memory(s)) /\ s.tmpls \in Seq(Templates(Len(s.tmpls)))
    BY <1>4, <1>5, <2>1, Zenon
  <2>3. DOMAIN s.mem = {}
    BY <1>4, <1>5
  <2> QED BY <2>2, <2>3 DEF Cells
<1>9. \A n \in DOMAIN s.glob : s.glob[n] \in Values(s)
  <2>1. Obj(1) \in Values(s)
    BY <1>4, <1>5 DEF Obj, Values, Users
  <2>2. PICK table : table = [p \in DOMAIN Argcs |-> Prim(p)]
    OBVIOUS
  <2>3. \A n \in DOMAIN table : table[n] \in Values(s)
    BY <2>2 DEF Prim, Values
  <2> QED BY <1>1, <1>5, <2>1, <2>2, <2>3, PutInIs
<1>10. s.objs \in Seq(Range(s.objs)) /\ Len(s.objs) = 1 /\ s.objs[1] = root
  <2>1. PICK q : q = << root >>
    OBVIOUS
  <2>2. q \in Seq({root}) /\ Len(q) = 1 /\ q[1] = root
    BY <2>1
  <2>3. q \in Seq(Range(q))
    BY <2>2, OfItsElements
  <2>4. s.objs = q
    BY <1>4, <1>5, <2>1
  <2> QED BY <2>2, <2>3, <2>4
<1>11. ObjectOK(s, 1)
  BY <1>3, <1>6, <1>10 DEF ObjectOK
<1> QED BY <1>5, <1>7, <1>8, <1>9, <1>10, <1>11 DEF MachineOK, MemoryOK

\* Whatever code runs, with whatever exceptions from outside, until the state is wild -
\* memory or code left, or data applied that pass for something to call (Mistaken) - the
\* registers hold values;
\* what an instruction follows without a test - the saved frames of vm_frame, the method
\* of a closure, the stack of a continuation (vm.c, apply_closure and run_vm) - is what it
\* takes it for, every chain of frames ends, and the stack never exceeds VMSTACKLENGTH.
THEOREM MachineInvariance == MachineSpec => []MachineInv
<1>1. m = Blank => MachineInv
  BY BlankOK DEF MachineInv
<1>2. MachineInv /\ [MachineNext]_m => MachineInv'
  <2> SUFFICES ASSUME MachineInv, [MachineNext]_m PROVE MachineInv'
    OBVIOUS
  <2>1. CASE MachineNext
    <3>1. MachineOK(m')
      BY <2>1, NextAllowed DEF MachineInv, Allowed, Sound
    <3> QED BY <3>1 DEF MachineInv
  <2>2. CASE UNCHANGED m
    BY <2>2 DEF MachineInv
  <2> QED BY <2>1, <2>2
<1> QED BY <1>1, <1>2, PTL DEF MachineSpec

\* No step changes a saved frame, a continuation with its copy of the stack, a closure, or
\* the code, the environment and the owner of a method: a continuation can be resumed, and
\* a frame returned to, any number of times (vm.c, getcont_from, apply_closure).  Nothing
\* is said of what follows when the state has become wild (Mistaken, or memory left).
THEOREM CapturedUnchanged == MachineSpec => CapturedKept
<1>1. MachineInv /\ [MachineNext]_m => [Captured(m, m')]_m
  <2> SUFFICES ASSUME MachineInv, MachineNext PROVE Captured(m, m')
    OBVIOUS
  <2> QED BY NextAllowed DEF MachineInv, Allowed, Sound
<1> QED BY <1>1, MachineInvariance, PTL DEF MachineSpec, CapturedKept

\* What runs without a privilege gains none: no step of it makes a user effective whom no
\* frame, no setuid method and neither user register named already, marks an object
\* privileged, defines a global or installs a handler (object.c, vm.c, PRIM.object.c) -
\* until the state is wild, as when data are applied that pass for a closure (Mistaken).
THEOREM PowersNotGained == MachineSpec => PowersKept
<1>1. MachineInv /\ [MachineNext]_m => [MayAll(m) \/ NothingGained(m, m')]_m
  <2> SUFFICES ASSUME MachineInv, MachineNext PROVE MayAll(m) \/ NothingGained(m, m')
    OBVIOUS
  <2> QED BY NextAllowed DEF MachineInv, Allowed
<1> QED BY <1>1, MachineInvariance, PTL DEF MachineSpec, PowersKept
=============================================================================
