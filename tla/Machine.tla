------------------------------ MODULE Machine -------------------------------
(***************************************************************************)
(* The virtual machine of MOVE (vm.c): one action per instruction that     *)
(* the compiler generates, applications of closures, continuations and     *)
(* the primitives the compiler relies on, exceptions, and the raising of   *)
(* an exception from outside, by the quota or by another thread.           *)
(*                                                                         *)
(* m is the register file of one thread with the memory it reaches:        *)
(*   acc, env, self, frame, meth, trap, uid, effuid, stack, ip  registers  *)
(*   bottom    the first place of vm_stack, with what it was given last     *)
(*   code      the number of the template that runs, 0 for NULL; vm_lits   *)
(*             is always the literal table of the same template            *)
(*   state     "run", and "last" for the one instruction run_vm executes   *)
(*             on a thread that died as its quota expired; "done" and      *)
(*             "dying" (both VM_STATE_DYING: returned, or killed by an     *)
(*             exception); "idle" before anything is run; "exit" for an    *)
(*             unknown bytecode; "wild" where a C array is left or the C   *)
(*             stack runs out, or where data are taken for something to    *)
(*             call, and nothing can be said any more                      *)
(*   quota     vm_state > 0: the thread is counted                         *)
(*   mem       vectors, methods, closures, frames, continuations           *)
(*   glob      values of symbols; undefined if not in its domain           *)
(*   objs      objects, with one parent and no group (module Objects has   *)
(*             the rest)                                                   *)
(*   tmpls     templates; a template has the flags O_PERMS_MASK            *)
(***************************************************************************)
EXTENDS Bytecode, Integers

CONSTANT StackLength        \* VMSTACKLENGTH

ASSUME MachineAssumption == StackLength \in Nat \ {0}

VARIABLE m

Ref(i)    == [ref |-> i]
Obj(i)    == [obj |-> i]
Prim(p)   == [prim |-> p]
EmptyV    == [empty |-> 0]      \* zero_vector, the only vector of length 0
Yield     == [yield |-> 0]      \* yield_thread
Outside   == [outside |-> 0]    \* what an access outside of an array gives

IsObj(v)   == "obj" \in DOMAIN v
IsTagged(v) == {"num", "bool", "undefined", "yield"} \cap DOMAIN v # {}

-----------------------------------------------------------------------------
(* Memory.                                                                 *)

Cell(s, v)   == IF "ref" \in DOMAIN v THEN s.mem[v.ref] ELSE v
IsVec(s, v)  == {"vec", "empty"} \cap DOMAIN Cell(s, v) # {}
IsClosure(s, v) == "closure" \in DOMAIN Cell(s, v)
Elts(s, v)   == IF v = EmptyV THEN << >> ELSE Cell(s, v).vec
Elt(s, v, i) == IF IsVec(s, v) /\ i \in 0 .. Len(Elts(s, v)) - 1 THEN Elts(s, v)[i + 1]
                ELSE Outside

Wild(s) == [s EXCEPT !.state = "wild"]

New(s, cell) == [s EXCEPT !.mem = Append(@, cell)]
Newest(s)    == Ref(Len(s.mem))

\* acc <- a new vector
NewVec(s, elts) ==
    IF elts = << >> THEN [s EXCEPT !.acc = EmptyV]
    ELSE [New(s, [vec |-> elts]) EXCEPT !.acc = Ref(Len(s.mem) + 1)]

PutElt(s, v, i, x) ==
    IF Elt(s, v, i) = Outside THEN Wild(s) ELSE [s EXCEPT !.mem[v.ref].vec[i + 1] = x]

-----------------------------------------------------------------------------
(* The stack.                                                              *)

PushOn(s, v) ==
    IF Len(s.stack) < StackLength
    THEN [s EXCEPT !.stack = Append(@, v), !.bottom = IF s.stack = << >> THEN v ELSE @]
    ELSE [s EXCEPT !.stack = << v >>, !.bottom = v, !.state = "dying"]

\* pop.  Of an empty stack it gives what was first in it; the thread dies.
Top(s)     == IF s.stack = << >> THEN s.bottom ELSE Last(s.stack)
Dropped(s) == IF s.stack = << >> THEN [s EXCEPT !.state = "dying"]
              ELSE [s EXCEPT !.stack = Front(@)]
Popped(s)  == [Dropped(s) EXCEPT !.acc = Top(s)]

\* peek.  Below the stack lies the header of its vector, which no test takes for a value.
Peek(s) == IF s.stack = << >> THEN Outside ELSE Last(s.stack)

-----------------------------------------------------------------------------
(* Permissions (perms.h), of slots and methods, and of objects.            *)

R == 1
W == 2
X == 4
OwnerMask == 3840           \* O_OWNER_MASK; O_PERMS_MASK is 4095
PrivilegedFlag == 4096      \* O_PRIVILEGED
CFlag == 16384              \* O_C_FLAG: others may clone or override
HasFlag(flags, bit) == (flags \div bit) % 2 = 1
Settable(flags) == (flags % 4096) + CFlag * ((flags \div CFlag) % 2)   \* O_PERMS_MASK | O_C_FLAG
Privileged(s, u) == u = NullV \/ HasFlag(s.objs[u.obj].flags, PrivilegedFlag)
MayAll(s)      == Privileged(s, s.effuid)
Can(s, x, bit) == HasFlag(x.flags, bit) \/ MayAll(s)
                  \/ (s.effuid = x.owner /\ HasFlag(x.flags, 256 * bit))

-----------------------------------------------------------------------------
(* Frames, calls and continuations.                                        *)

PushFrame(s) ==
    [New(s, [frame |-> [code |-> s.code, ip |-> s.ip, self |-> s.self, env |-> s.env,
                        frame |-> s.frame, meth |-> s.meth, effuid |-> s.effuid]])
     EXCEPT !.frame = Ref(Len(s.mem) + 1)]

\* Mutant: the effective user of the caller is not restored.
RestoreFrame_effuid(s, f) ==
    IF "frame" \notin DOMAIN Cell(s, f) THEN Wild(s)
    ELSE LET r == Cell(s, f).frame
         IN  [s EXCEPT !.code = r.code, !.ip = r.ip, !.self = r.self, !.env = r.env,
                       !.frame = r.frame, !.meth = r.meth]

RestoreFrame(s, f) ==
    IF "frame" \notin DOMAIN Cell(s, f) THEN Wild(s)
    ELSE LET r == Cell(s, f).frame
         IN  [s EXCEPT !.code = r.code, !.ip = r.ip, !.self = r.self, !.env = r.env,
                       !.frame = r.frame, !.meth = r.meth, !.effuid = r.effuid]

\* getcont_from
Continuation(s) == New(s, [cont |-> [frame |-> s.frame, stack |-> s.stack]])

\* The common end of apply_closure, OP_CALL and OP_CALL_AS.
Activate(s, meth, self, argvec) ==
    LET h == Cell(s, meth).method
    IN  [PutElt(PushFrame(s), argvec, 0, h.env)
         EXCEPT !.env = argvec, !.code = h.code, !.self = self, !.ip = 0, !.meth = meth,
                !.effuid = IF h.setuid THEN h.owner ELSE @]

Argc(s, argvec) == Len(Elts(s, argvec)) - 1

Applicable(s, f, argc) ==
    LET h == Cell(s, Cell(s, f).closure.meth).method IN Can(s, h, X) /\ argc = h.argc

ApplyTo(s, f, argvec) ==
    LET c == Cell(s, f).closure IN Activate(s, c.meth, c.self, argvec)

\* vm_raise.  A handler that cannot be applied raises again, without end.
Raise(s, exception, arg) ==
    LET p == Continuation(PushFrame(s))
        v == New(p, [vec |-> << NullV, Sym(exception), arg, Newest(p), s.acc >>])
        h == [v EXCEPT !.stack = << >>]
    IN  IF s.trap = NullV THEN [s EXCEPT !.state = "dying"]
        ELSE IF IsClosure(h, s.trap) /\ Applicable(h, s.trap, 4)
             THEN [ApplyTo(h, s.trap, Newest(v)) EXCEPT !.frame = NullV]
             ELSE Wild(h)

\* apply_closure, of what is a closure (APPLY, Mistaken); methods have no name here,
\* so none is reported.
ApplyClosure(s, f, argvec) ==
    LET c == Cell(s, f).closure
        h == Cell(s, c.meth).method
    IN  IF ~Can(s, h, X) THEN Raise(s, "no-permission", Undefined)
        ELSE IF Argc(s, argvec) # h.argc THEN Raise(s, "wrong-argc", c.meth)
        ELSE ApplyTo(s, f, argvec)

\* Mutant: a continuation leaves the stack as it is.
Resume_stack(s, k, v) ==
    [RestoreFrame(s, Cell(s, k).cont.frame) EXCEPT !.acc = v]

\* apply_closure, of a continuation
Resume(s, k, v) ==
    IF v = Outside THEN Wild(s)
    ELSE [RestoreFrame(s, Cell(s, k).cont.frame)
          EXCEPT !.stack = Cell(s, k).cont.stack, !.acc = v,
                 !.bottom = IF Cell(s, k).cont.stack = << >> THEN @
                            ELSE Head(Cell(s, k).cont.stack)]

\* A closure over the last template, applied to no arguments by its owner.
Applied(s, u, tmpls) ==
    LET k == Len(tmpls)
        h == New([s EXCEPT !.tmpls = tmpls, !.effuid = u],
                 [method |-> [argc |-> 0, code |-> k, env |-> NullV, owner |-> u,
                              setuid |-> FALSE, flags |-> 4095]])
        f == New(h, [closure |-> [meth |-> Newest(h), self |-> NullV]])
        v == New(f, [vec |-> << NullV >>])
    IN  ApplyClosure(v, Newest(f), Newest(v))

-----------------------------------------------------------------------------
(* Objects (object.c, slot.c, method.c).                                   *)

\* findslot, findmethod: the object a search from o ends with, 0 if none.
Find(s, o, table, name) ==
    LET up[i \in 0 .. Len(s.objs)] ==
            IF i = 0 THEN 0
            ELSE IF name \in DOMAIN s.objs[i][table] THEN i ELSE up[s.objs[i].parent]
    IN  up[o.obj]

Slot(s, o, name)   == s.objs[Find(s, o, "slots", name)].slots[name]
Method(s, o, name) == s.objs[Find(s, o, "methods", name)].methods[name]

PutIn(table, name, x) ==
    [n \in DOMAIN table \cup {name} |-> IF n = name THEN x ELSE table[n]]

-----------------------------------------------------------------------------
(* The primitives the compiler calls, and those that change what calls do. *)

Argcs ==
    LET one   == {"call/cc", "set-exception-handler", "set-effuid", "set-realuid", "clone", "sleep"}
        two   == {"define-global", "element-ref", "set-setuid", "set-method-flags", "set-privileged",
                  "set-object-flags"}
        three == {"add-slot", "add-method", "element-set"}
    IN  [name \in {"effuid", "caller-effuid"} \cup one \cup two \cup three |->
            CASE name \in one -> 1 [] name \in two -> 2 [] name \in three -> 3 [] OTHER -> 0]

Returning(s, v) == [s EXCEPT !.acc = v]
Failing(s, exception, arg) == Returning(Raise(s, exception, arg), Undefined)

DefineGlobal(s, name, v) ==
    IF MayAll(s) THEN [s EXCEPT !.glob = PutIn(@, name.sym, v), !.acc = Bool(TRUE)]
    ELSE Returning(s, False)

\* A slot found in an ancestor is overridden by a new one; who may is MS_CAN_C,
\* without the flag O_C_FLAG.
AddSlot(s, av, o, name, v) ==
    LET at == Find(s, o, "slots", name.sym)
    IN  IF ~Can(s, s.objs[o.obj], W)
           \/ (at # 0 /\ s.effuid # Slot(s, o, name.sym).owner /\ ~MayAll(s))
        THEN Failing(s, "no-permission", av)
        ELSE [s EXCEPT !.acc = v, !.objs[o.obj].slots = PutIn(@, name.sym,
                [value |-> v, owner |-> s.effuid,
                 flags |-> IF at = o.obj THEN @[name.sym].flags ELSE OwnerMask])]

AddMethod(s, av, o, name, f) ==
    LET at == Find(s, o, "methods", name.sym)
        h  == Cell(s, Cell(s, f).closure.meth).method
        n  == New(s, [method |-> [h EXCEPT !.owner = s.effuid, !.setuid = TRUE, !.flags = 4095]])
    IN  IF ~Can(s, s.objs[o.obj], W)
           \/ (at # 0 /\ s.effuid # Cell(s, Method(s, o, name.sym)).method.owner
                      /\ ~HasFlag(Cell(s, Method(s, o, name.sym)).method.flags, CFlag)
                      /\ ~MayAll(s))
        THEN Failing(s, "no-permission", av)
        ELSE [n EXCEPT !.acc = f, !.objs[o.obj].methods = PutIn(@, name.sym, Newest(n))]

\* call/cc: the closure is applied first, the continuation is made then.
CallCC(s, f) ==
    LET v == New(s, [vec |-> << NullV, NullV >>])
        k == Continuation(ApplyClosure(v, f, Newest(v)))
    IN  [k EXCEPT !.mem[Len(s.mem) + 1].vec[2] = Newest(k)]

SetMethodFlags(s, av, f, n) ==
    LET meth == Cell(s, f).closure.meth
    IN  IF s.effuid # Cell(s, meth).method.owner /\ ~MayAll(s)
        THEN Failing(s, "no-permission", av)
        ELSE [s EXCEPT !.acc = Bool(TRUE), !.mem[meth.ref].method.flags = Settable(n)]

SetSetuid(s, f, v) ==
    IF MayAll(s)
    THEN [s EXCEPT !.acc = Bool(TRUE), !.mem[Cell(s, f).closure.meth.ref].method.setuid = v # False]
    ELSE Returning(s, False)

SetPrivileged(s, o, v) ==
    IF MayAll(s)
    THEN [s EXCEPT !.acc = Bool(TRUE), !.objs[o.obj].flags =
            @ - (IF HasFlag(@, PrivilegedFlag) THEN PrivilegedFlag ELSE 0)
              + (IF v = False THEN 0 ELSE PrivilegedFlag)]
    ELSE Returning(s, False)

\* The permissions and O_C_FLAG; O_PRIVILEGED stays.
SetObjectFlags(s, o, n) ==
    IF MayAll(s) \/ s.effuid = s.objs[o.obj].owner
    THEN [s EXCEPT !.acc = Bool(TRUE),
                   !.objs[o.obj].flags = (@ - Settable(@)) + Settable(n)]
    ELSE Returning(s, False)

Clone(s, p) ==
    IF MayAll(s) \/ s.effuid = s.objs[p.obj].owner \/ HasFlag(s.objs[p.obj].flags, CFlag)
    THEN [s EXCEPT !.acc = Obj(Len(s.objs) + 1),
                   !.objs = Append(@, [owner |-> s.effuid, parent |-> p.obj, flags |-> OwnerMask,
                                       slots |-> << >>, methods |-> << >>])]
    ELSE Returning(s, False)

\* TYPEERRIF: the types of the arguments each primitive insists on.
WellTyped(s, name, a) ==
    CASE name \in {"add-slot", "add-method"} ->
           IsObj(a[1]) /\ IsSym(a[2]) /\ (name = "add-method" => IsClosure(s, a[3]))
      [] name = "define-global" -> IsSym(a[1])
      [] name \in {"element-ref", "element-set"} -> IsVec(s, a[1]) /\ IsNum(a[2])
      [] name \in {"set-effuid", "set-realuid", "clone", "set-privileged"} -> IsObj(a[1])
      [] name \in {"call/cc", "set-setuid"} -> IsClosure(s, a[1])
      [] name = "set-method-flags" -> IsClosure(s, a[1]) /\ IsNum(a[2])
      [] name = "set-object-flags" -> IsObj(a[1]) /\ IsNum(a[2])
      [] name = "set-exception-handler" ->
           a[1] = NullV \/ IsClosure(s, a[1]) \/ "prim" \in DOMAIN a[1]
      [] name = "sleep" -> IsNum(a[1])
      [] OTHER -> TRUE

\* The vector and the index of the arguments; byte vectors and tables are not modelled.
ElementRef(s, av, v, i) ==
    IF Elt(s, v, i) = Outside THEN Failing(s, "range-error", av) ELSE Returning(s, Elt(s, v, i))

ElementSet(s, av, v, i, x) ==
    IF Elt(s, v, i) = Outside THEN Failing(s, "range-error", av)
    ELSE Returning(PutElt(s, v, i, x), x)

SetHandler(s, h) ==
    IF MayAll(s) THEN [s EXCEPT !.trap = h, !.acc = Bool(TRUE)] ELSE Returning(s, False)

\* Mutant: anybody may become anybody.
SetEffuid_unchecked(s, u) == [s EXCEPT !.effuid = u, !.acc = Bool(TRUE)]

SetEffuid(s, u) ==
    IF MayAll(s) THEN [s EXCEPT !.effuid = u, !.acc = Bool(TRUE)] ELSE Returning(s, False)

SetRealuid(s, u) ==
    IF MayAll(s) THEN [s EXCEPT !.uid = u, !.acc = Bool(TRUE)] ELSE Returning(s, False)

CallerEffuid(s) ==
    Returning(s, IF s.frame = NullV THEN Undefined ELSE Cell(s, s.frame).frame.effuid)

Sleep(s, n) ==
    Returning(s, IF n > 600 /\ ~MayAll(s) THEN False
                 ELSE IF n <= 0 THEN Bool(TRUE) ELSE Yield)

\* apply_closure, of a primitive: a are the arguments in argvec.
ApplyPrim(s, name, argvec) ==
    LET a == Tail(Elts(s, argvec)) IN
    IF Argc(s, argvec) # Argcs[name] THEN Raise(s, "wrong-argc", Prim(name))
    ELSE IF ~WellTyped(s, name, a) THEN Failing(s, "type-error", argvec)
    ELSE
    CASE name = "define-global" -> DefineGlobal(s, a[1], a[2])
      [] name = "add-slot"    -> AddSlot(s, argvec, a[1], a[2], a[3])
      [] name = "add-method"  -> AddMethod(s, argvec, a[1], a[2], a[3])
      [] name = "call/cc"     -> CallCC(s, a[1])
      [] name = "element-ref" -> ElementRef(s, argvec, a[1], a[2].num)
      [] name = "element-set" -> ElementSet(s, argvec, a[1], a[2].num, a[3])
      [] name = "set-exception-handler" -> SetHandler(s, a[1])
      [] name = "set-effuid"  -> SetEffuid(s, a[1])
      [] name = "set-realuid" -> SetRealuid(s, a[1])
      [] name = "set-setuid"  -> SetSetuid(s, a[1], a[2])
      [] name = "set-method-flags" -> SetMethodFlags(s, argvec, a[1], a[2].num)
      [] name = "set-privileged" -> SetPrivileged(s, a[1], a[2])
      [] name = "set-object-flags" -> SetObjectFlags(s, a[1], a[2].num)
      [] name = "clone"  -> Clone(s, a[1])
      [] name = "effuid" -> Returning(s, s.effuid)
      [] name = "caller-effuid" -> CallerEffuid(s)
      [] name = "sleep"  -> Sleep(s, a[1].num)

\* init_vm, in a world where only Root and the primitives have been made.
Blank == [acc |-> NullV, env |-> NullV, self |-> NullV, frame |-> NullV, meth |-> NullV,
          trap |-> NullV, uid |-> NullV, effuid |-> NullV, stack |-> << >>,
          bottom |-> NullV, ip |-> 0, code |-> 0, state |-> "idle", quota |-> FALSE, mem |-> << >>,
          glob |-> PutIn([p \in DOMAIN Argcs |-> Prim(p)], "Root", Obj(1)),
          objs |-> << [owner |-> NullV, parent |-> 0, flags |-> OwnerMask,
                       slots |-> << >>, methods |-> << >>] >>,
          tmpls |-> << >>]

-----------------------------------------------------------------------------
(* Numbers: Bits bits, of the 30 or 62 that an inum has; / and % as in C.  *)

Bits == 8
Modulus == 2 ^ Bits
Wrap(n) == LET r == n % Modulus IN IF r >= Modulus \div 2 THEN r - Modulus ELSE r
BitOf(n, i) == ((n % Modulus) \div 2 ^ i) % 2
FromBits(bit) ==
    LET from[i \in 0 .. Bits] == IF i = 0 THEN 0 ELSE from[i - 1] + 2 ^ (i - 1) * bit[i - 1]
    IN  Wrap(from[Bits])
And(a, b) == FromBits([i \in 0 .. Bits - 1 |-> BitOf(a, i) * BitOf(b, i)])
Or(a, b)  == a + b - And(a, b)

Abs(n) == IF n < 0 THEN -n ELSE n
Quotient(a, b)  == (Abs(a) \div Abs(b)) * (IF (a < 0) = (b < 0) THEN 1 ELSE -1)
Remainder(a, b) == a - b * Quotient(a, b)

Negations == {Op.NEG, Op.BNOT}
Divisions == {Op.SLASH, Op.PERCENT}
NumOps == Negations \cup Divisions \cup
          {Op.GT, Op.LT, Op.GE, Op.LE, Op.BOR, Op.BAND, Op.MINUS, Op.STAR}

\* a is popped, b is the accumulator.
NumResult(op, a, b) ==
    CASE op = Op.GT -> Bool(a > b)
      [] op = Op.LT -> Bool(a < b)
      [] op = Op.GE -> Bool(a >= b)
      [] op = Op.LE -> Bool(a <= b)
      [] op = Op.BOR  -> Num(Or(a, b))
      [] op = Op.BAND -> Num(And(a, b))
      [] op = Op.MINUS -> Num(Wrap(a - b))
      [] op = Op.STAR  -> Num(Wrap(a * b))
      [] op = Op.SLASH -> Num(Wrap(Quotient(a, b)))
      [] op = Op.PERCENT -> Num(Remainder(a, b))
      [] op = Op.NEG  -> Num(Wrap(-b))
      [] op = Op.BNOT -> Num(-b - 1)

-----------------------------------------------------------------------------
(* Instructions.                                                           *)

Running == m.state \in {"run", "last"} /\ m.acc # Yield
Code == IF m.code = 0 THEN << >> ELSE m.tmpls[m.code].code
At(i) == Code[m.ip + i + 1]

\* An opcode the machine does not know ends the process: nothing is enabled.
Fetch(op) == Running /\ m.ip \in 0 .. Len(Code) - 1 /\ At(0) = op

Lit == m.tmpls[m.code].lits[At(1) + 1]

\* Instructions with one operand, and with two; those whose operand is the number
\* of a literal that they take for a symbol.
Naming    == {Op.MOV_A_GLOB, Op.MOV_GLOB_A, Op.MOV_A_SLOT, Op.MOV_SLOT_A, Op.METHOD_CLOSURE,
              Op.CALL, Op.CALL_AS}
Literal   == Naming \cup {Op.MOV_A_LITL}
OneByte   == Literal \cup {Op.ATPUT, Op.VECTOR, Op.ENTER_SCOPE, Op.MAKE_VECTOR}
TwoBytes  == {Op.MOV_A_LOCL, Op.MOV_LOCL_A, Op.JUMP, Op.JUMP_TRUE, Op.JUMP_FALSE}

\* The operands are there, and what they number; nothing of this is tested.
Decoded ==
    /\ At(0) \in OneByte \cup TwoBytes => m.ip + 1 < Len(Code)
    /\ At(0) \in TwoBytes => m.ip + 2 < Len(Code)
    /\ At(0) \in Literal => At(1) < Len(m.tmpls[m.code].lits)
    /\ At(0) \in Naming => IsSym(Lit)
    /\ At(0) = Op.CLOSURE => "template" \in DOMAIN m.acc

\* run_vm goes on while vm_state is not VM_STATE_DYING.
Becomes(s) == m' = CASE ~Decoded -> Wild(m)
                     [] Decoded /\ s.state = "last" -> [s EXCEPT !.state = "dying"]
                     [] Decoded /\ s.state # "last" -> s

Skip(s, n)   == [s EXCEPT !.ip = @ + n]
Moves(v, n)  == Becomes(IF v = Outside THEN Wild(m) ELSE Skip([m EXCEPT !.acc = v], n))
TypeError    == Raise(m, "vm-runtime-type-error", m.acc)

\* The vector that holds the variables of a scope, counted from the innermost.
Scope(depth) ==
    LET up[d \in 0 .. depth] == IF d = 0 THEN m.env ELSE Elt(m, up[d - 1], 0) IN up[depth]

ATPUT == /\ Fetch(Op.ATPUT)
         /\ Becomes(IF ~IsVec(m, Peek(m)) THEN Wild(m)
                    ELSE IF Elt(m, Peek(m), At(1)) = Outside
                         THEN Raise(m, "range-check-error", Peek(m))
                         ELSE Skip(PutElt(m, Peek(m), At(1), m.acc), 2))

MOV_A_LOCL == Fetch(Op.MOV_A_LOCL) /\ Moves(Elt(m, Scope(At(1)), At(2) + 1), 3)

MOV_LOCL_A == /\ Fetch(Op.MOV_LOCL_A)
              /\ Becomes(Skip(PutElt(m, Scope(At(1)), At(2) + 1, m.acc), 3))

MOV_A_GLOB == /\ Fetch(Op.MOV_A_GLOB)
              /\ Moves(IF Lit.sym \in DOMAIN m.glob THEN m.glob[Lit.sym] ELSE Undefined, 2)

MOV_GLOB_A == /\ Fetch(Op.MOV_GLOB_A)
              /\ Becomes(IF ~MayAll(m)
                         THEN Raise(m, "no-permission", Sym("setting-global-value"))
                         ELSE Skip([m EXCEPT !.glob = PutIn(@, Lit.sym, m.acc)], 2))

MOV_A_LITL == Fetch(Op.MOV_A_LITL) /\ Moves(Lit, 2)
MOV_A_SELF == Fetch(Op.MOV_A_SELF) /\ Moves(m.self, 1)

MOV_A_SLOT ==
    /\ Fetch(Op.MOV_A_SLOT)
    /\ IF ~IsObj(m.acc) THEN Becomes(TypeError)
       ELSE IF ~Can(m, m.objs[m.acc.obj], X) THEN Becomes(Raise(m, "no-permission", Lit))
       ELSE IF Find(m, m.acc, "slots", Lit.sym) = 0 THEN Becomes(Raise(m, "slot-not-found", Lit))
       ELSE IF ~Can(m, Slot(m, m.acc, Lit.sym), R) THEN Becomes(Raise(m, "no-permission", Lit))
       ELSE Moves(Slot(m, m.acc, Lit.sym).value, 2)

\* The object is popped before anything is tested.  A slot found in an ancestor
\* is left alone: the object gets one of its own, with the same owner and flags.
MOV_SLOT_A ==
    LET o  == Top(m)
        s  == Dropped(m)
        at == Find(m, o, "slots", Lit.sym)
    IN  /\ Fetch(Op.MOV_SLOT_A)
        /\ Becomes(IF ~IsObj(o) THEN Raise(s, "vm-runtime-type-error", o)
                   ELSE IF ~Can(m, m.objs[o.obj], X) THEN Raise(s, "no-permission", Lit)
                   ELSE IF at = 0 THEN Raise(s, "slot-not-found", Lit)
                   ELSE IF ~Can(m, Slot(m, o, Lit.sym), W) THEN Raise(s, "no-permission", Lit)
                   ELSE Skip([s EXCEPT !.objs[o.obj].slots = PutIn(@, Lit.sym,
                                [Slot(m, o, Lit.sym) EXCEPT !.value = m.acc])], 2))

PUSH == Fetch(Op.PUSH) /\ Becomes(Skip(PushOn(m, m.acc), 1))
POP  == Fetch(Op.POP) /\ Becomes(Skip(Popped(m), 1))
SWAP == Fetch(Op.SWAP) /\ Becomes(Skip(PushOn(Popped(m), m.acc), 1))

Nulls(n) == [i \in 1 .. n |-> NullV]

VECTOR == Fetch(Op.VECTOR) /\ Becomes(Skip(NewVec(m, Nulls(At(1))), 2))

ENTER_SCOPE ==
    /\ Fetch(Op.ENTER_SCOPE)
    /\ Becomes(Skip([New(m, [vec |-> << m.env >> \o Nulls(At(1))])
                     EXCEPT !.env = Ref(Len(m.mem) + 1)], 2))

LEAVE_SCOPE ==
    /\ Fetch(Op.LEAVE_SCOPE)
    /\ Becomes(IF Elt(m, m.env, 0) = Outside THEN Wild(m)
               ELSE Skip([m EXCEPT !.env = Elt(m, m.env, 0)], 1))

MAKE_VECTOR ==
    LET d == Len(m.stack) - At(1)
        s == NewVec(m, [i \in 1 .. At(1) |-> IF d + i > 0 THEN m.stack[d + i] ELSE m.bottom])
    IN  /\ Fetch(Op.MAKE_VECTOR)
        /\ Becomes(Skip([s EXCEPT !.stack = SubSeq(@, 1, d),
                                  !.state = IF d < 0 THEN "dying" ELSE @], 2))

\* make_closure_from
CLOSURE ==
    LET t == m.tmpls[m.acc.template]
        n == New(m, [method |-> [argc |-> t.argc, code |-> m.acc.template, env |-> m.env,
                                 owner |-> m.effuid, setuid |-> FALSE, flags |-> 4095]])
        f == New(n, [closure |-> [meth |-> Newest(n), self |-> m.self]])
    IN  Fetch(Op.CLOSURE) /\ Becomes(Skip([f EXCEPT !.acc = Newest(f)], 1))

METHOD_CLOSURE ==
    LET meth == Method(m, m.acc, Lit.sym)
        f    == New(m, [closure |-> [meth |-> meth, self |-> m.acc]])
    IN  /\ Fetch(Op.METHOD_CLOSURE)
        /\ Becomes(IF ~IsObj(m.acc) THEN TypeError
                   ELSE IF Find(m, m.acc, "methods", Lit.sym) = 0
                        THEN Raise(m, "method-not-found", Lit)
                   ELSE IF ~Can(m, Cell(m, meth).method, R) THEN Raise(m, "no-permission", Lit)
                   ELSE Skip([f EXCEPT !.acc = Newest(f)], 2))

\* A frame without code is the one the first closure of a thread was called from.
RET == /\ Fetch(Op.RET)
       /\ LET s == RestoreFrame(m, m.frame)
          IN  Becomes(IF m.frame = NullV THEN [m EXCEPT !.state = "done"]
                      ELSE IF s.code = 0 THEN [s EXCEPT !.state = "done"] ELSE s)

\* OP_CALL and OP_CALL_AS.  The arguments are popped before they are counted.
Send(self, target) ==
    LET meth == Method(m, target, Lit.sym)
        s    == Dropped(m)
    IN  IF target = NullV \/ IsTagged(target) THEN Raise(m, "null-call-error", Lit)
        ELSE IF ~IsObj(target) THEN TypeError
        ELSE IF Find(m, target, "methods", Lit.sym) = 0 THEN Raise(m, "method-not-found", Lit)
        ELSE IF ~Can(m, Cell(m, meth).method, X) THEN Raise(m, "no-permission", Lit)
        ELSE IF ~IsVec(m, Top(m)) THEN Wild(m)
        ELSE IF Argc(m, Top(m)) # Cell(m, meth).method.argc THEN Raise(s, "wrong-argc", Lit)
        ELSE Activate(Skip(s, 2), meth, self, Top(m))

CALL == Fetch(Op.CALL) /\ Becomes(Send(m.acc, m.acc))

CALL_AS == /\ Fetch(Op.CALL_AS)
           /\ Becomes(IF m.self = NullV THEN Raise(m, "null-call-error", Lit)
                      ELSE Send(m.self, m.acc))

\* apply_closure goes by closure->type, also of what is no opaque vector: where that lies
\* an object has its flags, a vector the low half of its first element - twice the number
\* it is, if it is one - and the empty vector nothing of its own.
CallableTypes == {4, 6, 10}     \* T_CLOSURE, T_PRIM, T_CONTINUATION
Mistaken(s, f) ==
    \/ IsObj(f) /\ s.objs[f.obj].flags \in CallableTypes
    \/ f = EmptyV
    \/ IsVec(s, f) /\ LET first == Elt(s, f, 0)
                      IN  IsNum(first) /\ 2 * (first.num % 2 ^ 30) \in CallableTypes

\* What apply_closure makes of data it mistakes for something to call is not followed.
APPLY ==
    LET f == m.acc
        s == Skip(Dropped(m), 1)
    IN  /\ Fetch(Op.APPLY)
        /\ Becomes(IF ~IsVec(m, Top(m)) \/ Mistaken(m, f) THEN Wild(m)
                   ELSE IF "prim" \in DOMAIN f THEN ApplyPrim(s, f.prim, Top(m))
                   ELSE IF IsClosure(m, f) THEN ApplyClosure(s, f, Top(m))
                   ELSE IF "cont" \in DOMAIN Cell(m, f) THEN Resume(s, f, Elt(m, Top(m), 1))
                   ELSE Raise(s, "invalid-callable", f))

JUMP == Fetch(Op.JUMP) /\ Becomes(Skip(m, 3 + Offset(At(1), At(2))))

JUMP_TRUE == /\ Fetch(Op.JUMP_TRUE)
             /\ Becomes(Skip(m, IF m.acc = False THEN 3 ELSE 3 + Offset(At(1), At(2))))

JUMP_FALSE == /\ Fetch(Op.JUMP_FALSE)
              /\ Becomes(Skip(m, IF m.acc # False THEN 3 ELSE 3 + Offset(At(1), At(2))))

NOT == Fetch(Op.NOT) /\ Moves(Bool(m.acc = False), 1)

EQ == Fetch(Op.EQ) /\ Becomes(Skip([Dropped(m) EXCEPT !.acc = Bool(Top(m) = m.acc)], 1))
NE == Fetch(Op.NE) /\ Becomes(Skip([Dropped(m) EXCEPT !.acc = Bool(Top(m) # m.acc)], 1))

\* NUMOP wants a number on the stack even where the operation takes none from it,
\* and moves on after a division by zero although a handler may be about to start.
NumOp ==
    \E op \in NumOps :
        /\ Fetch(op)
        /\ Becomes(IF ~IsNum(m.acc) \/ ~IsNum(Peek(m)) THEN TypeError
                   ELSE IF op \in Divisions /\ m.acc = Num(0)
                        THEN Skip(Raise(m, "divide-by-zero", NullV), 1)
                   ELSE Skip([(IF op \in Negations THEN m ELSE Dropped(m)) EXCEPT
                                !.acc = NumResult(op, Peek(m).num, m.acc.num)], 1))

\* Numbers are added, vectors are joined.
PLUS ==
    /\ Fetch(Op.PLUS)
    /\ Becomes(IF IsNum(m.acc) /\ IsNum(Peek(m))
               THEN Skip([Dropped(m) EXCEPT !.acc = Num(Wrap(Peek(m).num + m.acc.num))], 1)
               ELSE IF IsVec(m, m.acc) /\ IsVec(m, Peek(m))
               THEN Skip(NewVec(Dropped(m), Elts(m, Peek(m)) \o Elts(m, m.acc)), 1)
               ELSE TypeError)

Instruction ==
    \/ ATPUT \/ MOV_A_LOCL \/ MOV_LOCL_A \/ MOV_A_GLOB \/ MOV_GLOB_A \/ MOV_A_LITL \/ MOV_A_SELF
    \/ MOV_A_SLOT \/ MOV_SLOT_A \/ PUSH \/ POP \/ SWAP \/ VECTOR \/ ENTER_SCOPE \/ LEAVE_SCOPE
    \/ MAKE_VECTOR \/ CLOSURE \/ METHOD_CLOSURE \/ RET \/ CALL \/ CALL_AS \/ APPLY
    \/ JUMP \/ JUMP_TRUE \/ JUMP_FALSE \/ NOT \/ EQ \/ NE \/ NumOp \/ PLUS

-----------------------------------------------------------------------------
(* Exceptions from outside.                                                *)

\* The quota has run out: the thread is given another, but no handler for its end.
\* The instruction at hand follows at once; here a kill may come between.
QuotaExpires ==
    /\ m.state = "run" /\ m.acc # Yield /\ m.quota
    /\ m' = [Raise(m, "quota-expired", NullV) EXCEPT
                !.trap = NullV, !.state = IF m.trap = NullV THEN "last" ELSE @]

\* kill, by another thread.
Killed == m.state = "run" /\ m.acc # Yield /\ m' = Raise(m, "die", NullV)

-----------------------------------------------------------------------------
(* The machine with any code: the forms of a boot script, or the first form *)
(* of a thread, compiled from whatever text to whatever bytes.              *)

\* The exceptions of the machine and its primitives, and what else they raise.
Raised == {"no-permission", "setting-global-value", "wrong-argc", "type-error", "range-error",
               "vm-runtime-type-error", "range-check-error", "slot-not-found", "method-not-found",
               "null-call-error", "invalid-callable", "divide-by-zero", "quota-expired", "die",
               "parse-error"}
SymbolNames == STRING \cup Raised

Literals(n)  == [num : Int] \cup [sym : SymbolNames] \cup [bool : BOOLEAN]
                \cup {NullV, Undefined, EmptyV} \cup [template : 1 .. n]
Bytes        == 0 .. 255
Templates(n) == [argc : Nat, code : Seq(Bytes), lits : Seq(Literals(n))]

\* More has been compiled, and what was is as it was.
Compiled(old, new) ==
    /\ new \in Seq(Templates(Len(new))) /\ Len(old) < Len(new)
    /\ \A k \in DOMAIN old : new[k] = old[k]

Between == m.state \in {"idle", "done", "dying"}

NewForm == \E quota \in BOOLEAN :
    /\ Between /\ Compiled(m.tmpls, m'.tmpls)
    /\ m' = Applied([m EXCEPT !.state = "run", !.quota = quota], m.uid, m'.tmpls)

NoForm == Between /\ m' = Raise(m, "parse-error", NullV)

MachineNext == NewForm \/ NoForm \/ Instruction \/ QuotaExpires \/ Killed

MachineSpec == m = Blank /\ [][MachineNext]_m

-----------------------------------------------------------------------------
(* What holds of it.                                                       *)

\* A value is tagged, or refers to what there is.
Users(s)  == {NullV} \cup [obj : DOMAIN s.objs]
Values(s) == [num : Int] \cup [sym : SymbolNames] \cup [bool : BOOLEAN] \cup [prim : DOMAIN Argcs]
             \cup {Undefined, EmptyV, Yield} \cup [template : DOMAIN s.tmpls]
             \cup Users(s) \cup [ref : DOMAIN s.mem]

Cells(s, kind) == {i \in DOMAIN s.mem : kind \in DOMAIN s.mem[i]}
Methods(s) == [ref : Cells(s, "method")]
Frames(s)  == {NullV} \cup [ref : Cells(s, "frame")]
Stacks(s)  == {v \in Seq(Values(s)) : Len(v) <= StackLength}

\* What the machine takes from memory without a test of its type has that type.
Memory(s) ==
    [vec : Seq(Values(s)) \ {<< >>}]
    \cup [method : [argc : Nat, code : DOMAIN s.tmpls, env : Values(s), owner : Users(s),
                    setuid : BOOLEAN, flags : Int]]
    \cup [closure : [meth : Methods(s), self : Values(s)]]
    \cup [frame : [code : 0 .. Len(s.tmpls), ip : Int, self : Values(s), env : Values(s),
                   frame : Frames(s), meth : {NullV} \cup Methods(s), effuid : Users(s)]]
    \cup [cont : [frame : Frames(s), stack : Stacks(s)]]

\* An object and its tables; it was made after its parent.
ObjectOK(s, i) ==
    LET x == s.objs[i]
    IN  /\ DOMAIN x = {"owner", "parent", "flags", "slots", "methods"}
        /\ x.owner \in Users(s) /\ x.parent \in 0 .. i - 1 /\ x.flags \in Int
        /\ \A n \in DOMAIN x.slots :
              x.slots[n] \in [value : Values(s), owner : Users(s), flags : Int]
        /\ \A n \in DOMAIN x.methods : x.methods[n] \in Methods(s)

RegistersOK(s) ==
    /\ DOMAIN s = DOMAIN Blank
    /\ {s.acc, s.env, s.self, s.trap, s.bottom} \subseteq Values(s)
    /\ s.frame \in Frames(s) /\ s.meth \in {NullV} \cup Methods(s)
    /\ {s.uid, s.effuid} \subseteq Users(s)
    /\ s.stack \in Stacks(s) /\ s.code \in 0 .. Len(s.tmpls) /\ s.ip \in Int

MemoryOK(s) ==
    /\ s.mem \in Seq(Memory(s))
    /\ s.tmpls \in Seq(Templates(Len(s.tmpls)))
    /\ \A n \in DOMAIN s.glob : s.glob[n] \in Values(s)
    /\ s.objs \in Seq(Range(s.objs))
    /\ \A i \in 1 .. Len(s.objs) : ObjectOK(s, i)
    \* a frame returns to an older one
    /\ \A i \in Cells(s, "frame") :
          LET f == s.mem[i].frame.frame IN f = NullV \/ f.ref < i

MachineOK(s) == RegistersOK(s) /\ MemoryOK(s)

\* Whatever code is run, until the state is wild, what the machine takes unchecked for a
\* frame, a method, a continuation is one, and no continuation holds more than the stack can.
MachineInv == MachineOK(m)

\* What has been captured: frames, continuations, closures, the code of methods.
KeptCell(old, new) ==
    /\ DOMAIN new = DOMAIN old
    /\ {"frame", "cont", "closure"} \cap DOMAIN old # {} => new = old
    /\ "vec" \in DOMAIN old => Len(new.vec) = Len(old.vec)
    /\ "method" \in DOMAIN old => \A part \in {"argc", "code", "env", "owner"} :
                                     new.method[part] = old.method[part]

Captured(s, t) ==
    /\ Len(s.mem) <= Len(t.mem) /\ \A i \in 1 .. Len(s.mem) : KeptCell(s.mem[i], t.mem[i])
    /\ Len(s.objs) <= Len(t.objs)
    /\ Len(s.tmpls) <= Len(t.tmpls) /\ \A k \in 1 .. Len(s.tmpls) : t.tmpls[k] = s.tmpls[k]

\* A continuation or a closure can be used again and again, and a frame returned to
\* by several: none of them is ever changed by what runs in between, until the state is wild.
CapturedKept == [][Captured(m, m')]_m

\* The users that can become the effective one without a privilege.
Powers(s) == {s.uid, s.effuid}
             \cup {s.mem[i].frame.effuid : i \in Cells(s, "frame")}
             \cup {s.mem[i].method.owner :
                      i \in {j \in Cells(s, "method") : s.mem[j].method.setuid}}

PrivilegedObjects(s) == {i \in DOMAIN s.objs : Privileged(s, Obj(i))}

\* Nothing is gained from s to t.
NothingGained(s, t) ==
    /\ Powers(t) \subseteq Powers(s) /\ PrivilegedObjects(t) = PrivilegedObjects(s)
    /\ t.glob = s.glob /\ t.trap \in {s.trap, NullV}

\* A step of an unprivileged program changes no global, no handler and no privilege,
\* and makes nobody the effective user whom no frame and no setuid method made so already.
\* It may do so once the state is wild, as after an application of data (Mistaken).
PowersKept == [][MayAll(m) \/ NothingGained(m, m')]_m
=============================================================================
