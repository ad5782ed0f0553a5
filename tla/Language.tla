------------------------------ MODULE Language ------------------------------
(***************************************************************************)
(* MOVE as its programmer understands it: what a program prints, without   *)
(* compiler, bytecode, registers, stack or frames.  The specification that *)
(* the compiler and the machine together are checked against.              *)
(*                                                                         *)
(* An expression is a tuple whose head names its kind.  Eval gives an      *)
(* outcome [k, v, s]: k is "ok"; "return", on its way to the call of the   *)
(* function; "escape", on its way to the place where continuation to was   *)
(* made; "dead", if nothing handles an exception; "over", if its handler   *)
(* returns, which ends the form.  s is the store:                          *)
(*   cells   vectors, functions, variables of a scope                      *)
(*   glob, objs, trap, uid, effuid   as in the machine                     *)
(*   places  continuations made so far                                     *)
(* x is the lexical context: env, a sequence of scopes [names, at], the    *)
(* innermost first, and self.                                              *)
(***************************************************************************)
EXTENDS Machine

Outcome(k, v, s) == [k |-> k, v |-> v, s |-> s]
Ok(v, s)   == Outcome("ok", v, s)
Then(r, F(_, _)) == IF r.k = "ok" THEN F(r.v, r.s) ELSE r

Fn(i, self) == [fn |-> i, self |-> self]
Vec(i)  == [vec |-> i]
Cont(i) == [to |-> i]
IsFn(v)  == "fn" \in DOMAIN v
IsArray(v) == "vec" \in DOMAIN v \/ v = EmptyV
IsCont(v) == "to" \in DOMAIN v

Store == [cells |-> << >>, glob |-> [p \in DOMAIN Argcs |-> Prim(p)] @@ [Root |-> Obj(1)],
          objs |-> << [owner |-> NullV, parent |-> 0, flags |-> OwnerMask,
                       slots |-> << >>, methods |-> << >>] >>,
          trap |-> NullV, uid |-> NullV, effuid |-> NullV, places |-> 0]

Alloc(s, c) == [s EXCEPT !.cells = Append(@, c)]
ArrayOf(s, es) == IF es = << >> THEN Ok(EmptyV, s) ELSE Ok(Vec(Len(s.cells) + 1), Alloc(s, es))
Array(s, v) == IF v = EmptyV THEN << >> ELSE s.cells[v.vec]

-----------------------------------------------------------------------------
(* Variables.  A definition is known from where it stands to the end of    *)
(* its block, whether or not it is executed.                               *)

RECURSIVE Defs(_)
Defs(e) ==
    CASE e[1] = "define" -> {e[2]} \cup Defs(e[3])
      [] e[1] = "defun"  -> {e[2]}
      [] e[1] \in {"if", "while"} -> Defs(e[2]) \cup Defs(e[3])
      [] e[1] = "ifelse" -> Defs(e[2]) \cup Defs(e[3]) \cup Defs(e[4])
      [] OTHER -> {}

Inner(names, at, x) == [x EXCEPT !.env = << [names |-> names, at |-> at] >> \o @]
Knowing(x, names) == IF x.env = << >> THEN x ELSE [x EXCEPT !.env[1].names = @ \cup names]

ScopeOf(name, x) ==
    LET known == {i \in DOMAIN x.env : name \in x.env[i].names}
    IN  IF known = {} THEN 0 ELSE x.env[Min(known)].at

Read(name, x, s) ==
    LET at == ScopeOf(name, x)
    IN  IF at # 0 THEN IF name \in DOMAIN s.cells[at] THEN s.cells[at][name] ELSE NullV
        ELSE IF name \in DOMAIN s.glob THEN s.glob[name] ELSE Undefined

Written(name, v, x, s) == [s EXCEPT !.cells[ScopeOf(name, x)] = PutIn(@, name, v)]

-----------------------------------------------------------------------------
RECURSIVE Eval(_, _, _), EvalAll(_, _, _, _), Sequence(_, _, _), Call(_, _, _, _),
          Throw(_, _, _), Binop(_, _, _, _), Invoke(_, _, _, _, _), Builtin(_, _, _),
          Get(_, _, _), Assign(_, _, _), Loop(_, _, _)

\* es[i], es[i + 1], ... from left to right
EvalAll(es, i, x, s) ==
    IF i > Len(es) THEN Ok(<< >>, s)
    ELSE Then(Eval(es[i], x, s), LAMBDA v, t :
         Then(EvalAll(es, i + 1, Knowing(x, Defs(es[i])), t), LAMBDA vs, u : Ok(<< v >> \o vs, u)))

Sequence(es, x, s) ==
    IF Len(es) = 1 THEN Eval(es[1], x, s)
    ELSE Then(Eval(es[1], x, s), LAMBDA v, t : Sequence(Tail(es), Knowing(x, Defs(es[1])), t))

Returned(r, s) ==
    IF r.k \in {"ok", "return"} THEN Ok(r.v, [r.s EXCEPT !.effuid = s.effuid]) ELSE r

\* A function runs as its owner if it is setuid, else as its caller; the caller
\* is itself again when the call is over.
Body(f, self, args, s) ==
    LET t == [Alloc(s, [i \in {} |-> 0]) EXCEPT !.effuid = IF f.setuid THEN f.owner ELSE @]
        at == Len(t.cells)
        bound == [t EXCEPT !.cells[at] =
                    [name \in ToSet(f.params) |->
                        args[Min({i \in DOMAIN args : f.params[i] = name})]]]
    IN  Returned(Eval(f.body, Inner(ToSet(f.params), at, [env |-> f.env, self |-> self]), bound), s)

\* The place at which continuation k is made: an escape to it ends here.
Catch(r, k, s) ==
    IF r.k = "escape" /\ r.to = k THEN Ok(r.v, [r.s EXCEPT !.effuid = s.effuid]) ELSE r

\* A handler that returns ends the form.
Handled(r, k, s) == IF r.k = "ok" THEN Outcome("over", r.v, r.s) ELSE Catch(r, k, s)

\* An exception: the handler is called with a continuation to go on with.
Throw(exception, acc, s) ==
    LET k == s.places + 1
    IN  IF s.trap = NullV THEN Outcome("dead", NullV, s)
        ELSE Handled(Body(s.cells[s.trap.fn], s.trap.self, << Sym(exception), NullV, Cont(k), acc >>,
                          [s EXCEPT !.places = k]), k, s)

Callable(v) == IsFn(v) \/ IsCont(v) \/ "prim" \in DOMAIN v

Call(v, self, args, s) ==
    LET f     == s.cells[v.fn]
        argc  == IF IsFn(v) THEN Len(f.params) ELSE Argcs[v.prim]
        wrong == IF ~Callable(v) THEN "invalid-callable"
                 ELSE IF IsFn(v) /\ ~Can(s, f, X) THEN "no-permission"
                 ELSE IF ~IsCont(v) /\ Len(args) # argc THEN "wrong-argc"
                 ELSE "nothing"
    IN  IF wrong # "nothing" THEN Throw(wrong, v, s) ELSE
        CASE IsFn(v)   -> Body(f, v.self, args, s)
          [] IsCont(v) -> [k |-> "escape", v |-> args[1], s |-> s, to |-> v.to]
          [] OTHER     -> Builtin(v, args, s)

\* Found in the object itself or the nearest ancestor: 0 if in none.
Holder(s, o, table, name) == Find(s, o, table, name)

\* A message: o's method name, with self as `this'.  What fails before the call
\* is tried again with the object a handler supplies.
Invoke(o, self, name, args, s) ==
    LET at == Holder(s, o, "methods", name)
        f  == s.cells[s.objs[at].methods[name]]
        wrong == IF o = NullV \/ IsTagged(o) THEN "null-call-error"
                 ELSE IF ~IsObj(o)     THEN "vm-runtime-type-error"
                 ELSE IF at = 0        THEN "method-not-found"
                 ELSE IF ~Can(s, f, X) THEN "no-permission"
                 ELSE IF Len(args) # Len(f.params) THEN "wrong-argc"
                 ELSE "nothing"
        again(r) == Then(r, LAMBDA v, t : Invoke(v, self, name, args, t))
    IN  CASE wrong = "nothing" -> Body(f, IF self = Outside THEN o ELSE self, args, s)
          [] wrong = "wrong-argc" -> Throw(wrong, o, s)
          [] OTHER -> again(Throw(wrong, o, s))

\* What is wrong with the use of slot name of o, a use that needs the permission p.
SlotFault(o, name, p, s) ==
    LET at == Holder(s, o, "slots", name)
    IN  IF ~IsObj(o) THEN "vm-runtime-type-error"
        ELSE IF ~Can(s, s.objs[o.obj], X) THEN "no-permission"
        ELSE IF at = 0 THEN "slot-not-found"
        ELSE IF ~Can(s, s.objs[at].slots[name], p) THEN "no-permission"
        ELSE "nothing"

Get(o, name, s) ==
    LET wrong == SlotFault(o, name, R, s)
    IN  IF wrong = "nothing" THEN Ok(s.objs[Holder(s, o, "slots", name)].slots[name].value, s)
        ELSE Then(Throw(wrong, o, s), LAMBDA v, t : Get(v, name, t))

Put(o, name, v, s) ==
    LET wrong == SlotFault(o, name, W, s)
    IN  IF wrong # "nothing" THEN Throw(wrong, v, s)
        ELSE Ok(v, [s EXCEPT !.objs[o.obj].slots = PutIn(@, name,
                    [s.objs[Holder(s, o, "slots", name)].slots[name] EXCEPT !.value = v])])

Assign(name, v, s) ==
    IF MayAll(s) THEN Ok(v, [s EXCEPT !.glob = PutIn(@, name, v)])
    ELSE Then(Throw("no-permission", v, s), LAMBDA w, t : Assign(name, w, t))

Opcode == [op \in {"<", ">", "<=", ">=", "&", "|", "-", "*", "/", "%"} |->
              CASE op = "<" -> Op.LT [] op = ">" -> Op.GT [] op = "<=" -> Op.LE [] op = ">=" -> Op.GE
                [] op = "&" -> Op.BAND [] op = "|" -> Op.BOR [] op = "-" -> Op.MINUS
                [] op = "*" -> Op.STAR [] op = "/" -> Op.SLASH [] op = "%" -> Op.PERCENT]

\* An operation that fails is tried again with the operand a handler supplies.
Binop(op, a, b, s) ==
    CASE op = "==" -> Ok(Bool(a = b), s)
      [] op = "!=" -> Ok(Bool(a # b), s)
      [] op = "+" /\ IsNum(a) /\ IsNum(b) -> Ok(Num(Wrap(a.num + b.num)), s)
      [] op = "+" /\ IsArray(a) /\ IsArray(b) -> ArrayOf(s, Array(s, a) \o Array(s, b))
      [] op \in {"/", "%"} /\ IsNum(a) /\ b = Num(0) -> Throw("divide-by-zero", b, s)
      [] op \in {"neg", "bnot"} /\ IsNum(b) -> Ok(Num(IF op = "neg" THEN Wrap(-b.num) ELSE -b.num - 1), s)
      [] op \in DOMAIN Opcode /\ IsNum(a) /\ IsNum(b) /\ ~(op \in {"/", "%"} /\ b = Num(0)) ->
           Ok(NumResult(Opcode[op], a.num, b.num), s)
      [] OTHER -> Then(Throw("vm-runtime-type-error", b, s), LAMBDA w, t : Binop(op, a, w, t))

Closure(params, body, x, s) ==
    Ok(Fn(Len(s.cells) + 1, x.self),
       Alloc(s, [params |-> params, body |-> body, env |-> x.env, owner |-> s.effuid, setuid |-> FALSE, flags |-> 4095]))

CallCont(v, s) ==
    LET k == s.places + 1
        r == Call(v, NullV, << Cont(k) >>, [s EXCEPT !.places = k])
    IN  Catch(r, k, s)

\* The primitives.
Builtin(p, a, s) ==
    LET name == p.prim
        typed == CASE name \in {"add-slot", "add-method"} ->
                        IsObj(a[1]) /\ IsSym(a[2]) /\ (name = "add-method" => IsFn(a[3]))
                   [] name \in {"element-ref", "element-set"} -> IsArray(a[1]) /\ IsNum(a[2])
                   [] name \in {"set-effuid", "set-realuid", "clone", "set-privileged"} -> IsObj(a[1])
                   [] name = "set-object-flags" -> IsObj(a[1]) /\ IsNum(a[2])
                   [] name \in {"call/cc", "set-setuid", "set-method-flags"} -> IsFn(a[1])
                   [] OTHER -> TRUE
        mine(o) == s.effuid = o.owner \/ MayAll(s)
        \* what name is in o or the nearest ancestor, if anything
        foreign(o, table, x) == \E at \in {Find(s, o, table, x)} \ {0} :
            LET old == IF table = "slots" THEN s.objs[at].slots[x] ELSE s.cells[s.objs[at].methods[x]]
            IN  ~mine(old) /\ ~HasFlag(old.flags, CFlag)
        denied == CASE name = "add-slot"   -> ~Can(s, s.objs[a[1].obj], W) \/ foreign(a[1], "slots", a[2].sym)
                    [] name = "add-method" -> ~Can(s, s.objs[a[1].obj], W) \/ foreign(a[1], "methods", a[2].sym)
                    [] name = "set-method-flags" -> ~mine(s.cells[a[1].fn])
                    [] OTHER -> FALSE
        outside == name \in {"element-ref", "element-set"} /\ a[2].num \notin 0 .. Len(Array(s, a[1])) - 1
        wrong == IF ~typed THEN "type-error" ELSE IF denied THEN "no-permission"
                 ELSE IF outside THEN "range-error" ELSE "nothing"
        fresh == Alloc(s, [s.cells[a[3].fn] EXCEPT !.owner = s.effuid, !.setuid = TRUE, !.flags = 4095])
    IN
    \* a primitive that fails gives `undefined' only to a handler that never starts
    CASE wrong # "nothing" -> Throw(wrong, p, s)
      [] name = "define-global" ->
           IF MayAll(s) THEN Ok(Bool(TRUE), [s EXCEPT !.glob = PutIn(@, a[1].sym, a[2])])
           ELSE Ok(False, s)
      [] name = "add-slot" -> Ok(a[3], [s EXCEPT !.objs[a[1].obj].slots = PutIn(@, a[2].sym,
                    [value |-> a[3], owner |-> s.effuid, flags |-> OwnerMask])])
      [] name = "add-method" -> Ok(a[3], [fresh EXCEPT !.objs[a[1].obj].methods =
                    PutIn(@, a[2].sym, Len(fresh.cells))])
      [] name = "call/cc" -> CallCont(a[1], s)
      [] name = "element-ref" -> Ok(Array(s, a[1])[a[2].num + 1], s)
      [] name = "element-set" -> Ok(a[3], [s EXCEPT !.cells[a[1].vec][a[2].num + 1] = a[3]])
      [] name = "set-method-flags" -> Ok(Bool(TRUE), [s EXCEPT !.cells[a[1].fn].flags = a[2].num])
      [] name \in {"set-exception-handler", "set-effuid", "set-realuid", "set-setuid",
                    "set-privileged"} /\ MayAll(s) ->
           Ok(Bool(TRUE),
              CASE name = "set-exception-handler" -> [s EXCEPT !.trap = a[1]]
                [] name = "set-effuid"  -> [s EXCEPT !.effuid = a[1]]
                [] name = "set-realuid" -> [s EXCEPT !.uid = a[1]]
                [] name = "set-privileged" -> [s EXCEPT !.objs[a[1].obj].flags =
                     Settable(@) + IF a[2] = False THEN 0 ELSE PrivilegedFlag]
                [] name = "set-setuid"  -> [s EXCEPT !.cells[a[1].fn].setuid = a[2] # False])
      [] name = "clone" ->
           IF mine(s.objs[a[1].obj]) \/ HasFlag(s.objs[a[1].obj].flags, CFlag)
           THEN Ok(Obj(Len(s.objs) + 1),
                   [s EXCEPT !.objs = Append(@, [owner |-> s.effuid, parent |-> a[1].obj,
                        flags |-> OwnerMask, slots |-> << >>, methods |-> << >>])])
           ELSE Ok(False, s)
      [] name = "set-object-flags" /\ mine(s.objs[a[1].obj]) ->
           Ok(Bool(TRUE), [s EXCEPT !.objs[a[1].obj].flags =
                Settable(a[2].num) + IF Settable(@) = @ THEN 0 ELSE PrivilegedFlag])
      [] name = "effuid" -> Ok(s.effuid, s)
      [] name = "sleep"  -> Ok(IF a[1].num <= 0 THEN Bool(TRUE) ELSE Yield, s)
      [] OTHER -> Ok(False, s)

Loop(e, x, s) ==
    Then(Eval(e[2], x, s), LAMBDA c, t :
        IF c = False THEN Ok(c, t)
        ELSE Then(Eval(e[3], Knowing(x, Defs(e[2])), t), LAMBDA v, u : Loop(e, x, u)))

Eval(e, x, s) ==
    LET kind == e[1]
        y == Knowing(x, Defs(e[2]))
    IN
    CASE kind = "lit"  -> Ok(e[2], s)
      [] kind = "var"  -> Ok(Read(e[2], x, s), s)
      [] kind = "this" -> Ok(x.self, s)
      [] kind = "set"  -> Then(Eval(e[3], x, s), LAMBDA v, t :
            IF ScopeOf(e[2], x) = 0 THEN Assign(e[2], v, t) ELSE Ok(v, Written(e[2], v, x, t)))
      [] kind \in {"define", "defun"} ->
            LET z == IF x.env = << >> THEN x ELSE Knowing(x, {e[2]})
            IN  Then(IF kind = "define" THEN Eval(e[3], z, s) ELSE Closure(e[3], e[4], z, s),
                     LAMBDA v, t : IF x.env = << >> THEN Builtin(Prim("define-global"), << Sym(e[2]), v >>, t)
                                   ELSE Ok(v, Written(e[2], v, z, t)))
      [] kind = "bin" -> Then(Eval(e[3], x, s), LAMBDA a, t :
                         Then(Eval(e[4], x, t), LAMBDA b, u : Binop(e[2], a, b, u)))
      [] kind = "and" -> Then(Eval(e[2], x, s), LAMBDA a, t : IF a = False THEN Ok(a, t) ELSE Eval(e[3], x, t))
      [] kind = "or"  -> Then(Eval(e[2], x, s), LAMBDA a, t : IF a # False THEN Ok(a, t) ELSE Eval(e[3], x, t))
      [] kind = "not" -> Then(Eval(e[2], x, s), LAMBDA a, t : Ok(Bool(a = False), t))
      [] kind \in {"neg", "bnot"} -> Then(Eval(e[2], x, s), LAMBDA a, t : Binop(kind, a, a, t))
      [] kind = "if" -> Then(Eval(e[2], x, s), LAMBDA c, t : IF c = False THEN Ok(Undefined, t) ELSE Eval(e[3], y, t))
      [] kind = "ifelse" -> Then(Eval(e[2], x, s), LAMBDA c, t :
            IF c = False THEN Eval(e[4], Knowing(y, Defs(e[3])), t) ELSE Eval(e[3], y, t))
      [] kind = "while" -> Loop(e, x, s)
      [] kind = "block" /\ e[2] = << >> -> Ok(Undefined, s)
      [] kind = "block" /\ e[2] # << >> ->
            LET t == Alloc(s, [i \in {} |-> 0]) IN Sequence(e[2], Inner({}, Len(t.cells), x), t)
      [] kind = "return" -> Then(Eval(e[2], x, s), LAMBDA v, t : Outcome("return", v, t))
      [] kind = "fun"    -> Closure(e[2], e[3], x, s)
      [] kind = "bindcc" -> Then(Closure(<< e[2] >>, e[3], x, s), LAMBDA f, t : CallCont(f, t))
      [] kind = "call" /\ e[2][1] = "var" -> Then(EvalAll(e[3], 1, x, s), LAMBDA as, t :
            Call(Read(e[2][2], x, t), NullV, as, t))
      [] kind = "call" /\ e[2][1] # "var" -> Then(Eval(e[2], x, s), LAMBDA f, t :
            Then(EvalAll(e[3], 1, x, t), LAMBDA as, u : Call(f, NullV, as, u)))
      [] kind \in {"send", "as"} -> Then(Eval(e[2], x, s), LAMBDA o, t :
            Then(EvalAll(e[4], 1, x, t), LAMBDA as, u :
                Invoke(o, IF kind = "as" THEN x.self ELSE Outside, e[3], as, u)))
      [] kind = "slot" -> Then(Eval(e[2], x, s), LAMBDA o, t : Get(o, e[3], t))
      [] kind = "setslot" -> Then(EvalAll(<< e[2], e[4] >>, 1, x, s), LAMBDA ov, t : Put(ov[1], e[3], ov[2], t))
      [] kind = "defslot" -> Then(EvalAll(<< e[2], e[4] >>, 1, x, s), LAMBDA ov, t :
            Builtin(Prim("add-slot"), << ov[1], Sym(e[3]), ov[2] >>, t))
      [] kind = "defmethod" -> Then(Eval(e[2], x, s), LAMBDA o, t :
            Then(Closure(e[4], e[5], x, t), LAMBDA f, u :
                Builtin(Prim("add-method"), << o, Sym(e[3]), f >>, u)))
      [] kind = "method" -> Then(Eval(e[2], x, s), LAMBDA o, t :
            LET f == t.objs[Holder(t, o, "methods", e[3])].methods[e[3]]
                wrong == IF ~IsObj(o) THEN "vm-runtime-type-error"
                         ELSE IF Holder(t, o, "methods", e[3]) = 0 THEN "method-not-found"
                         ELSE IF ~Can(t, t.cells[f], R) THEN "no-permission"
                         ELSE "nothing"
            IN  IF wrong = "nothing" THEN Ok(Fn(f, o), t) ELSE Throw(wrong, o, t))
      [] kind = "vec" -> Then(EvalAll(e[2], 1, x, s), LAMBDA es, t : ArrayOf(t, es))
      [] kind = "elt" -> Then(EvalAll(<< e[2], e[3] >>, 1, x, s), LAMBDA a, t : Builtin(Prim("element-ref"), a, t))
      [] kind = "setelt" -> Then(EvalAll(<< e[2], e[3], e[4] >>, 1, x, s), LAMBDA a, t : Builtin(Prim("element-set"), a, t))

-----------------------------------------------------------------------------
(* What the forms of a program print, one after the other.                 *)

Printed(s, v) ==
    LET kind(w) == IF IsArray(w) THEN [a |-> "vector"]
                   ELSE IF Callable(w) THEN [a |-> "callable"] ELSE w
    IN  IF IsArray(v) THEN [elements |-> [i \in DOMAIN Array(s, v) |-> kind(Array(s, v)[i])]]
        ELSE kind(v)

RECURSIVE Answers(_, _)
AnswersAfter(r, forms) ==
    IF r.k \in {"ok", "return", "over"} THEN << Printed(r.s, r.v) >> \o Answers(forms, r.s)
    ELSE << [died |-> 0] >>

Answers(forms, s) ==
    IF forms = << >> THEN << >>
    ELSE AnswersAfter(Eval(Head(forms), [env |-> << >>, self |-> NullV], [s EXCEPT !.effuid = s.uid]),
                      Tail(forms))
=============================================================================
