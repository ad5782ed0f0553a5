------------------------------ MODULE Compiler ------------------------------
(***************************************************************************)
(* The compiler of MOVE (parser.c): one pass over the tokens of a form,    *)
(* by recursive descent, that emits the bytecode as it goes.               *)
(*                                                                         *)
(* A state of the compiler is a record                                     *)
(*   toks, held   the tokens to come; how many of them the scanner has     *)
(*                given away already (scan_result, other_scan_result)      *)
(*   brace        was_close_brace: the token dropped last was a `}'        *)
(*   ok           no ERR so far; nothing is read or matters after one      *)
(*   buf, lits    code buffer and literal table of the function at hand    *)
(*   scope        names of each frame, innermost first; << >> at top level *)
(*   tmpls        the templates finished so far                            *)
(*                                                                         *)
(* A token is [k |-> keyword or delimiter], [id |-> name], [lit |-> value].*)
(* Infix operators other than `-' are names, as for the scanner.           *)
(***************************************************************************)
EXTENDS Bytecode, FiniteSetsExt, TLC

K(k) == [k |-> k]
EOF  == K("eof")

-----------------------------------------------------------------------------
(* Tokens.                                                                 *)

Tok(c) == IF ~c.ok \/ c.toks = << >> THEN EOF ELSE Head(c.toks)

Is(c, k)   == Tok(c) = K(k)
IsIdent(c) == "id" \in DOMAIN Tok(c)
IsLit(c)   == "lit" \in DOMAIN Tok(c)
Ident(c)   == IF IsIdent(c) THEN Tok(c).id ELSE ""
TokName(c) == IF Is(c, "-") THEN "-" ELSE Ident(c)

\* A token has been asked for: the scanner has moved past it.
Look(c) == IF c.held = 0 /\ c.toks # << >> THEN [c EXCEPT !.held = 1] ELSE c

StuffToken(c, k) ==
    IF c.ok THEN [c EXCEPT !.toks = << K(k) >> \o @, !.held = @ + 1] ELSE c

Drop(c) ==
    IF ~c.ok THEN c
    ELSE [c EXCEPT !.brace = Is(c, "}"), !.toks = IF @ = << >> THEN @ ELSE Tail(@),
                   !.held = IF @ = 0 THEN 0 ELSE @ - 1]

\* check(';'): a `}' just dropped stands for the `;' as well.
CheckSemi(c) == IF c.brace THEN StuffToken([c EXCEPT !.brace = FALSE], ";") ELSE Look(c)

Fail(c) == [Look(c) EXCEPT !.ok = FALSE]

\* CHKERR and DROP.
Expect(c, k)  == IF Is(c, k) THEN Drop(c) ELSE Fail(c)
ExpectIdent(c) == IF IsIdent(c) THEN Drop(c) ELSE Fail(c)

-----------------------------------------------------------------------------
(* Code.                                                                   *)

Gen(c, bytes) == [c EXCEPT !.buf = @ \o bytes]

\* gen(op) and GEN_LIT: literals are found by identity, and added at the end.
GenLit(c, op, v) ==
    LET lits == IF v \in Range(c.lits) THEN c.lits ELSE Append(c.lits, v)
        i    == CHOOSE j \in DOMAIN lits : lits[j] = v
    IN  [c EXCEPT !.lits = lits, !.buf = @ \o << op, Byte(i - 1) >>]

Patch16(c, at, w) == [c EXCEPT !.buf[at + 1] = w \div 256, !.buf[at + 2] = w % 256]

\* Where the operand of the jump that is generated next will be.
Operand(c) == Len(c.buf) + 1

GenJump(c, op) == Gen(c, << op, 0, 0 >>)

JumpHereFrom(c, at) == Patch16(c, at, (Len(c.buf) - at - 2) % Word)

GenJumpTo(c, op, to) ==
    LET d == GenJump(c, op) IN Patch16(d, Operand(c), (Word + to - Len(d.buf)) % Word)

AddScope(c) == [c EXCEPT !.scope = << << >> >> \o @]
DelScope(c) == [c EXCEPT !.scope = Tail(@)]
AddBinding(c, name) == [c EXCEPT !.scope[1] = Append(@, name)]

\* The frame (from the innermost, 0) and the offset in it of name, or << >>.
Lookup(c, name) ==
    LET frames == {f \in DOMAIN c.scope : name \in Range(c.scope[f])}
    IN  IF frames = {} THEN << >>
        ELSE << Min(frames) - 1, Min({i \in DOMAIN c.scope[Min(frames)] :
                                        c.scope[Min(frames)][i] = name}) - 1 >>

CompileVarref(c, name) ==
    LET at == Lookup(c, name)
    IN  IF at = << >> THEN GenLit(c, Op.MOV_A_GLOB, Sym(name))
        ELSE Gen(c, << Op.MOV_A_LOCL, Byte(at[1]), Byte(at[2]) >>)

CompileVarset(c, name) ==
    LET at == Lookup(c, name)
    IN  IF at = << >> THEN GenLit(c, Op.MOV_GLOB_A, Sym(name))
        ELSE Gen(c, << Op.MOV_LOCL_A, Byte(at[1]), Byte(at[2]) >>)

GenUndefined(c)   == GenLit(c, Op.MOV_A_LITL, Undefined)
PrepareCall(argc) == << Op.VECTOR, argc + 1, Op.PUSH >>
CallGlobal(c, f)  == Gen(GenLit(c, Op.MOV_A_GLOB, Sym(f)), << Op.APPLY >>)

Infix == << "*" :> Op.STAR @@ "/" :> Op.SLASH @@ "%" :> Op.PERCENT,
            "+" :> Op.PLUS @@ "-" :> Op.MINUS,
            "&" :> Op.BAND,
            "|" :> Op.BOR,
            "==" :> Op.EQ @@ "!=" :> Op.NE @@ ">" :> Op.GT @@ "<" :> Op.LT
                @@ ">=" :> Op.GE @@ "<=" :> Op.LE >>

-----------------------------------------------------------------------------
(* Expressions.                                                            *)

RECURSIVE Expr(_), Args(_, _), Applic(_, _, _), Elements(_, _), Constant(_),
          Binary(_, _), BinaryRest(_, _), Logic(_, _), IdList(_), Statements(_)

\* The rest of an argument list, n of which have been put into the vector before c.
ArgsRest(c, n) ==
    CASE Is(c, ")") -> [c |-> Drop(c), argc |-> n]
      [] Is(c, ",") -> Args(Drop(c), n)
      [] OTHER      -> [c |-> Fail(c), argc |-> n]

Args(c, n) == ArgsRest(Gen(Expr(c), << Op.ATPUT, Byte(n + 1) >>), n + 1)

ArgsFrom(c) == IF Is(c, ")") THEN [c |-> Drop(c), argc |-> 0] ELSE Args(c, 0)

Sized(a, at) == [a.c EXCEPT !.buf[at] = Byte(a.argc + 1)]

\* `(' ... `)': a new vector on the stack, its first element left for the environment.
ArgVector(c) ==
    Sized(ArgsFrom(Gen(Drop(c), << Op.VECTOR, 0, Op.PUSH >>)), Len(c.buf) + 2)

MethodReference(c, asMethod) ==
    LET name == Sym(Ident(c))
        d    == ExpectIdent(c)
    IN  IF Is(d, "(")
        THEN GenLit(Gen(ArgVector(Gen(d, << Op.PUSH >>)), << Op.POP, Op.SWAP >>),
                    IF asMethod THEN Op.CALL_AS ELSE Op.CALL, name)
        ELSE IF asMethod THEN Fail(d) ELSE GenLit(d, Op.METHOD_CLOSURE, name)

\* What is called must wait on the stack for its arguments, unless it is a variable.
Callee(c, id, mode) ==
    CASE mode = "slot" -> Gen(GenLit(c, Op.MOV_A_SLOT, Sym(id)), << Op.PUSH >>)
      [] mode = "var"  -> c
      [] mode = "none" -> Gen(c, << Op.PUSH >>)

Called(c, id, mode) ==
    Gen(IF mode = "var" THEN CompileVarref(c, id) ELSE Gen(c, << Op.POP, Op.SWAP >>), << Op.APPLY >>)

Fetched(c, id, mode) ==
    CASE mode = "var"  -> CompileVarref(c, id)
      [] mode = "slot" -> GenLit(c, Op.MOV_A_SLOT, Sym(id))
      [] mode = "none" -> c

\* `[' index `]' on the value just fetched, for element-ref.
Index(c) ==
    Expect(Gen(Expr(Gen(Drop(c), << Op.PUSH, Op.VECTOR, 3, Op.SWAP, Op.ATPUT, 1 >>)),
               << Op.ATPUT, 2 >>), "]")

\* Followed by `=' it is for element-set, with one argument more in the vector at at.
Element(c, at) ==
    IF Is(c, "=")
    THEN CallGlobal(Gen(Expr([Drop(c) EXCEPT !.buf[at] = 4]), << Op.ATPUT, 3 >>), "element-set")
    ELSE Applic(CallGlobal(c, "element-ref"), "", "none")

\* What may follow a primary expression: calls, assignment, elements, slots, methods.
\* mode: "var" and "slot" if id is still to be fetched or assigned, else "none".
Applic(c, id, mode) ==
    LET fetched == Fetched(c, id, mode)
        slot    == Drop(fetched)
    IN  CASE Is(c, "(") -> Applic(Called(ArgVector(Callee(c, id, mode)), id, mode), id, "none")
          [] Is(c, "=") /\ mode = "none" -> Fail(Drop(c))
          [] Is(c, "=") /\ mode = "slot" ->
               GenLit(Expr(Gen(Drop(c), << Op.PUSH >>)), Op.MOV_SLOT_A, Sym(id))
          [] Is(c, "=") /\ mode = "var"  -> CompileVarset(Expr(Drop(c)), id)
          [] Is(c, "[") -> Element(Index(fetched), Len(fetched.buf) + 3)
          [] Is(c, ".") -> Applic(ExpectIdent(slot), Ident(slot), "slot")
          [] Is(c, ":") -> Applic(MethodReference(slot, FALSE), id, "none")
          [] OTHER      -> fetched

\* The rest of a vector, n elements of which are on the stack.
ElementsRest(c, n) ==
    CASE Is(c, "]") -> Gen(Drop(c), << Op.MAKE_VECTOR, Byte(n) >>)
      [] Is(c, ",") -> Elements(Drop(c), n)
      [] OTHER      -> Fail(c)

Elements(c, n) == ElementsRest(Gen(Expr(c), << Op.PUSH >>), n + 1)

\* What is not a variable and has its code before what may follow it.
Simplest(c) ==
    LET d == Drop(c) IN
    CASE Is(c, "this") -> Gen(d, << Op.MOV_A_SELF >>)
      [] Is(c, "[")    -> IF Is(d, "]") THEN GenLit(Drop(d), Op.MOV_A_LITL, [empty |-> 0])
                          ELSE Elements(d, 0)
      [] Is(c, "(")    -> Expect(Expr(d), ")")
      [] Is(c, "as")   -> MethodReference(Expect(Expect(Expr(Expect(d, "(")), ")"), ":"), TRUE)

\* id_parse and constant_parse.
Constant(c) ==
    LET d == Drop(c) IN
    CASE IsLit(c)    -> Drop(GenLit(c, Op.MOV_A_LITL, Tok(c).lit))
      [] Is(c, "!")  -> Gen(Constant(d), << Op.NOT >>)
      [] Is(c, "~")  -> Gen(Constant(d), << Op.BNOT >>)
      [] Is(c, "-")  -> Gen(Constant(d), << Op.NEG >>)
      [] IsIdent(c)  -> Applic(d, Ident(c), "var")
      [] Is(c, ";")  -> d
      [] Tok(c) \in {K("this"), K("["), K("("), K("as")} -> Applic(Simplest(c), "", "none")
      [] OTHER       -> Fail(d)

\* mul_op_parse (level 1) to eq_op_parse (level 5): all associate to the left.
Binary(c, level) ==
    IF level = 0 THEN Constant(c) ELSE BinaryRest(Binary(c, level - 1), level)

BinaryRest(c, level) ==
    IF TokName(c) \in DOMAIN Infix[level]
    THEN BinaryRest(Gen(Binary(Gen(Drop(c), << Op.PUSH >>), level - 1),
                        << Infix[level][TokName(c)] >>), level)
    ELSE Look(c)

\* and_op_parse, or_op_parse: these associate to the right, and jump.
LogicRest(d, op) ==
    LET at   == Operand(d)
        test == GenJump(Drop(d), IF op = "||" THEN Op.JUMP_FALSE ELSE Op.JUMP_TRUE)
    IN  IF TokName(d) = op
        THEN JumpHereFrom(Logic(JumpHereFrom(GenJump(test, Op.JUMP), at), op), at + 3)
        ELSE d

Logic(c, op) == LogicRest(IF op = "||" THEN Logic(c, "&&") ELSE Binary(c, 5), op)

-----------------------------------------------------------------------------
(* Functions.                                                              *)

\* parse_id_list: names may be missing between the commas.
IdList(c) ==
    LET d == IF IsIdent(c) THEN Drop(AddBinding(c, Ident(c))) ELSE c
    IN  CASE Is(d, ")") -> Drop(d)
          [] Is(d, ",") -> IdList(Drop(d))
          [] OTHER      -> Fail(d)

\* compile_template and newcompilertemplate: c has the scope of the parameters.
CompileTemplate(c) ==
    LET d == Gen(Expr([c EXCEPT !.buf = << >>, !.lits = << >>]), << Op.RET >>)
    IN  [d EXCEPT !.buf = c.buf, !.lits = c.lits,
                  !.tmpls = Append(@, [argc |-> Len(c.scope[1]), code |-> d.buf, lits |-> d.lits])]

Closed(c) == Gen(GenLit(c, Op.MOV_A_LITL, Template(Len(c.tmpls))), << Op.CLOSURE >>)

\* A function after the `(' of its parameters.
Function(c) == Closed(DelScope(CompileTemplate(IdList(AddScope(c)))))

\* define method (target) name and define (target) name, up to the name.
Target(c) ==
    LET d == Gen(Expect(Expr(Gen(Expect(c, "("), PrepareCall(3))), ")"), << Op.ATPUT, 1 >>)
    IN  Gen(ExpectIdent(GenLit(d, Op.MOV_A_LITL, Sym(Ident(d)))), << Op.ATPUT, 2 >>)

DefineMethod(c) ==
    CallGlobal(Gen(Function(Expect(Target(c), "(")), << Op.ATPUT, 3 >>), "add-method")

DefineSlot(c) ==
    LET d == Target(c)
    IN  CallGlobal(Gen(IF Is(d, "=") THEN Expr(Drop(d)) ELSE GenUndefined(d),
                       << Op.ATPUT, 3 >>), "add-slot")

\* The name is bound, once per frame, before its value is compiled.
Bound(c, name) ==
    IF c.scope = << >> \/ name \in Range(c.scope[1]) THEN c ELSE AddBinding(c, name)

Valued(c, isFun) ==
    IF isFun THEN Function(Expect(c, "("))
    ELSE IF Is(c, "=") THEN Expr(Drop(c)) ELSE GenUndefined(c)

Assigned(v, name, global) ==
    IF global
    THEN CallGlobal(Gen(GenLit(Gen(v, << Op.ATPUT, 2 >>), Op.MOV_A_LITL, Sym(name)),
                        << Op.ATPUT, 1 >>), "define-global")
    ELSE IF v.ok THEN CompileVarset(v, name) ELSE v

\* define [function] name: a global at top level, else a local variable.
DefineVariable(c) ==
    LET global == c.scope = << >>
        isFun  == Is(c, "function")
        d      == IF isFun THEN Drop(c) ELSE c
        e      == IF global THEN Gen(d, PrepareCall(2)) ELSE d
    IN  Assigned(Valued(Bound(ExpectIdent(e), Ident(d)), isFun), Ident(d), global)

BindCC(c) ==
    LET d == Expect(AddScope(Gen(c, PrepareCall(1))), "(")
        e == Expect(ExpectIdent(AddBinding(d, Ident(d))), ")")
    IN  CallGlobal(Gen(Closed(DelScope(CompileTemplate(e))), << Op.ATPUT, 1 >>), "call/cc")

-----------------------------------------------------------------------------
(* Control.                                                                *)

NoElse(c) == StuffToken(c, ";")

Otherwise(c) ==
    LET behind == Look(Drop(c))
    IN  CASE ~Is(c, ";") -> GenUndefined(c)
          [] Is(c, ";") /\ Is(behind, "else")  -> Expr(Drop(behind))
          [] Is(c, ";") /\ ~Is(behind, "else") -> GenUndefined(NoElse(behind))

IfFalse(then, at) ==
    JumpHereFrom(Otherwise(CheckSemi(JumpHereFrom(GenJump(then, Op.JUMP), at))), Operand(then))

IfTrue(cond) == IfFalse(Expr(Expect(GenJump(cond, Op.JUMP_FALSE), ")")), Operand(cond))

\* if: a `;' before `else' belongs to it, any other to whoever comes next.
If(c) == IfTrue(Expr(Expect(c, "(")))

\* Mutant: the jump out of the loop leads nowhere.
While_open(c) ==
    LET cond == Expr(Expect(c, "("))
        body == Expr(Expect(GenJump(cond, Op.JUMP_FALSE), ")"))
    IN  GenJumpTo(body, Op.JUMP, Len(c.buf))

While(c) ==
    LET cond == Expr(Expect(c, "("))
        body == Expr(Expect(GenJump(cond, Op.JUMP_FALSE), ")"))
    IN  JumpHereFrom(GenJumpTo(body, Op.JUMP, Len(c.buf)), Operand(cond))

StatementsRest(c) ==
    IF ~c.ok THEN c ELSE IF Is(c, "}") THEN Drop(c) ELSE Statements(Look(c))

Statements(c) == StatementsRest(Expect(CheckSemi(Expr(c)), ";"))

\* How many variables the block has is known at its end.
EndBlock(c, at) ==
    LET n == Len(c.scope[1])
    IN  IF n > 255 THEN Fail(c)
        ELSE DelScope(Gen([c EXCEPT !.buf[at] = n], << Op.LEAVE_SCOPE >>))

Block(c) ==
    IF Is(c, "}") THEN GenUndefined(Drop(c))
    ELSE EndBlock(Statements(Gen(AddScope(c), << Op.ENTER_SCOPE, 0 >>)), Len(c.buf) + 2)

Return(c) == Gen(IF Is(c, ";") THEN GenUndefined(Look(c)) ELSE Expr(c), << Op.RET >>)

Define(c) ==
    CASE Is(c, "method") -> DefineMethod(Drop(c))
      [] Is(c, "(")      -> DefineSlot(c)
      [] OTHER           -> DefineVariable(c)

Expr(c) ==
    LET d == Drop(c) IN
    CASE Is(c, "define")   -> Define(d)
      [] Is(c, "function") -> Function(Expect(d, "("))
      [] Is(c, "if")       -> If(d)
      [] Is(c, "while")    -> While(d)
      [] Is(c, "{")        -> Block(d)
      [] Is(c, "return")   -> Return(d)
      [] Is(c, "bind-cc")  -> BindCC(d)
      [] OTHER             -> Logic(c, "||")

-----------------------------------------------------------------------------
(* parse: one form, up to its `;'.  What the scanner has given away and    *)
(* the form did not use is lost with the state of the parser.              *)

Start(toks, tmpls) ==
    [toks |-> toks, held |-> 0, brace |-> FALSE, ok |-> TRUE,
     buf |-> << >>, lits |-> << >>, scope |-> << >>, tmpls |-> tmpls]

\* Mutant: it has been looked at what comes next.
Unread_peek(c) == SubSeq(c.toks, Look(c).held + 1, Len(c.toks))

Unread(c) == SubSeq(c.toks, c.held + 1, Len(c.toks))

Parsed(c) == [ok    |-> c.ok, rest |-> Unread(c),
              tmpls |-> Append(c.tmpls, [argc |-> 0, code |-> c.buf, lits |-> c.lits])]

Parse(toks, tmpls) ==
    Parsed(Gen(Expect(CheckSemi(Expr(Start(toks, tmpls))), ";"), << Op.RET >>))
=============================================================================
