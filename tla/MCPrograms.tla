----------------------------- MODULE MCPrograms -----------------------------
(***************************************************************************)
(* Programs for the compiler and the machine: how an expression is         *)
(* written, families of expressions, and what the machine must do with     *)
(* their texts.  Language says what they mean.                             *)
(***************************************************************************)
EXTENDS BootScript, Language

-----------------------------------------------------------------------------
(* Writing: as few parentheses as the grammar allows.                      *)

Levels == [kind \in {"lit", "var", "this", "call", "send", "as", "slot", "method", "elt", "vec",
                     "not", "neg", "bnot"} |-> 0] @@ ("and" :> 6) @@ ("or" :> 7)

Level(e) ==
    CASE e[1] = "bin" -> CHOOSE i \in DOMAIN Infix : e[2] \in DOMAIN Infix[i]
      [] e[1] \in DOMAIN Levels -> Levels[e[1]]
      [] OTHER -> 8

TakesSuffix == {"var", "this", "call", "send", "as", "slot", "elt", "vec"}

\* It ends with an `if' to which an `else' could be added.
RECURSIVE OpenIf(_)
OpenIf(e) ==
    CASE e[1] = "if" -> TRUE
      [] e[1] \in {"set", "define", "while", "fun", "bindcc"} -> OpenIf(e[3])
      [] e[1] \in {"ifelse", "setslot", "setelt", "defslot", "defun"} -> OpenIf(e[4])
      [] e[1] = "defmethod" -> OpenIf(e[5])
      [] e[1] = "return" -> OpenIf(e[2])
      [] OTHER -> FALSE

Name(x) == [id |-> x]
Paren(ts) == << K("(") >> \o ts \o << K(")") >>
RECURSIVE Commas(_)
Commas(tss) == IF Len(tss) < 2 THEN FlattenSeq(tss) ELSE Head(tss) \o << K(",") >> \o Commas(Tail(tss))
Params(ps) == Paren(Commas([i \in DOMAIN ps |-> << Name(ps[i]) >>]))

Closing(ts) == ts # << >> /\ Last(ts) = K("}")
Ended(ts) == IF Closing(ts) THEN ts ELSE Append(ts, K(";"))

RECURSIVE Written2(_)
Unparse(e, level) == IF Level(e) <= level THEN Written2(e) ELSE Paren(Written2(e))
Primary(e) == IF e[1] \in TakesSuffix THEN Written2(e) ELSE Paren(Written2(e))
ArgList(es) == Paren(Commas([i \in DOMAIN es |-> Written2(es[i])]))

Written2(e) ==
    LET l == Level(e) IN
    CASE e[1] = "lit"  -> << [lit |-> e[2]] >>
      [] e[1] = "var"  -> << Name(e[2]) >>
      [] e[1] = "this" -> << K("this") >>
      [] e[1] = "set"  -> << Name(e[2]), K("=") >> \o Written2(e[3])
      [] e[1] = "bin"  -> Unparse(e[3], l) \o << IF e[2] = "-" THEN K("-") ELSE Name(e[2]) >>
                          \o Unparse(e[4], l - 1)
      [] e[1] = "and"  -> Unparse(e[2], 5) \o << Name("&&") >> \o Unparse(e[3], 6)
      [] e[1] = "or"   -> Unparse(e[2], 6) \o << Name("||") >> \o Unparse(e[3], 7)
      [] e[1] = "not"  -> << K("!") >> \o Unparse(e[2], 0)
      [] e[1] = "neg"  -> << K("-") >> \o Unparse(e[2], 0)
      [] e[1] = "bnot" -> << K("~") >> \o Unparse(e[2], 0)
      [] e[1] = "if"   -> << K("if") >> \o Paren(Written2(e[2])) \o Written2(e[3])
      [] e[1] = "ifelse" ->
            << K("if") >> \o Paren(Written2(e[2]))
            \o Ended(IF OpenIf(e[3]) THEN Paren(Written2(e[3])) ELSE Written2(e[3]))
            \o << K("else") >> \o Written2(e[4])
      [] e[1] = "while"  -> << K("while") >> \o Paren(Written2(e[2])) \o Written2(e[3])
      [] e[1] = "block"  -> << K("{") >> \o FlattenSeq([i \in DOMAIN e[2] |-> Ended(Written2(e[2][i]))])
                            \o << K("}") >>
      [] e[1] = "define" -> << K("define"), Name(e[2]) >>
                            \o (IF e[3] = <<"lit", Undefined>> THEN << >> ELSE << K("=") >> \o Written2(e[3]))
      [] e[1] = "defun"  -> << K("define"), K("function"), Name(e[2]) >> \o Params(e[3]) \o Written2(e[4])
      [] e[1] = "fun"    -> << K("function") >> \o Params(e[2]) \o Written2(e[3])
      [] e[1] = "return" -> << K("return") >> \o (IF e[2] = <<"lit", Undefined>> THEN << >> ELSE Written2(e[2]))
      [] e[1] = "bindcc" -> << K("bind-cc") >> \o Params(<< e[2] >>) \o Written2(e[3])
      [] e[1] = "call"   -> Primary(e[2]) \o ArgList(e[3])
      [] e[1] = "send"   -> Primary(e[2]) \o << K(":"), Name(e[3]) >> \o ArgList(e[4])
      [] e[1] = "as"     -> << K("as") >> \o Paren(Written2(e[2])) \o << K(":"), Name(e[3]) >> \o ArgList(e[4])
      [] e[1] = "method" -> Primary(e[2]) \o << K(":"), Name(e[3]) >>
      [] e[1] = "slot"   -> Primary(e[2]) \o << K("."), Name(e[3]) >>
      [] e[1] = "setslot" -> Primary(e[2]) \o << K("."), Name(e[3]), K("=") >> \o Written2(e[4])
      [] e[1] = "defslot" -> << K("define") >> \o Paren(Written2(e[2])) \o << Name(e[3]) >>
                             \o (IF e[4] = <<"lit", Undefined>> THEN << >> ELSE << K("=") >> \o Written2(e[4]))
      [] e[1] = "defmethod" -> << K("define"), K("method") >> \o Paren(Written2(e[2])) \o << Name(e[3]) >>
                               \o Params(e[4]) \o Written2(e[5])
      [] e[1] = "vec"    -> << K("[") >> \o Commas([i \in DOMAIN e[2] |-> Written2(e[2][i])]) \o << K("]") >>
      [] e[1] = "elt"    -> Primary(e[2]) \o << K("[") >> \o Written2(e[3]) \o << K("]") >>
      [] e[1] = "setelt" -> Primary(e[2]) \o << K("[") >> \o Written2(e[3]) \o << K("]"), K("=") >> \o Written2(e[4])

\* The token after the form is read before the form is known to end.
RECURSIVE LosesNext(_)
LosesNext(e) ==
    CASE e[1] \in {"set", "setslot", "setelt"} -> Closing(Written2(Last(e))) \/ LosesNext(Last(e))
      [] e[1] \in {"define", "while", "fun", "bindcc"} -> LosesNext(e[3])
      [] e[1] \in {"ifelse", "defun"} -> LosesNext(e[4])
      [] OTHER -> OpenIf(e)

-----------------------------------------------------------------------------
(* Abbreviations.                                                          *)

N(n) == <<"lit", Num(n)>>
B(b) == <<"lit", Bool(b)>>
S(x) == <<"lit", Sym(x)>>
V(x) == <<"var", x>>
Null == <<"lit", NullV>>
Call1(f, as) == <<"call", V(f), as>>
Do(es) == <<"block", es>>
Bin(op, a, b) == <<"bin", op, a, b>>
Set(x, e) == <<"set", x, e>>
Def(x, e) == <<"define", x, e>>
Fun(ps, e) == <<"fun", ps, e>>
If1(c, t) == <<"if", c, t>>
IfElse(c, t, e) == <<"ifelse", c, t, e>>
VecOf(es) == <<"vec", es>>
SlotOf(o, x) == <<"slot", o, x>>
SetSlot(o, x, e) == <<"setslot", o, x, e>>
DefSlot(o, x, e) == <<"defslot", o, x, e>>
MethodOf(o, x) == <<"method", o, x>>
DefMethod(o, x, ps, e) == <<"defmethod", o, x, ps, e>>
SendTo(o, x, as) == <<"send", o, x, as>>
SendAs(o, x, as) == <<"as", o, x, as>>
BindCC1(k, e) == <<"bindcc", k, e>>
Inc(x) == Set(x, Bin("+", V(x), N(1)))

\* Handlers: go on with a value or with what was interrupted; leave for a place.
Handle(body) == Call1("set-exception-handler", << Fun(<<"e", "arg", "k", "acc">>, body) >>)
GoOnWith(e) == Handle(Call1("k", <<e>>))

-----------------------------------------------------------------------------
(* Families of programs; each is a sequence of sequences of forms.         *)

Pairs(as, bs, Form(_, _)) ==
    FlattenSeq([i \in DOMAIN as |-> [j \in DOMAIN bs |-> Form(as[i], bs[j])]])

Ops == << "*", "/", "%", "-", "+", "&", "|", "<", ">", "<=", ">=", "==", "!=", "and", "or" >>
Apply2(op, a, b) == IF op \in {"and", "or"} THEN <<op, a, b>> ELSE Bin(op, a, b)

\* Every pair of operators, grouped either way.
Precedence ==
    Pairs(Ops, Ops, LAMBDA p, q : << Apply2(p, Apply2(q, N(7), N(5)), N(2)),
                                     Apply2(p, N(7), Apply2(q, N(5), N(2))) >>)

\* Statements over x and c in a function, in pairs.
Simple == << Inc("x"), Def("x", N(5)), Set("y", Fun(<< >>, V("x"))) >>
Statement ==
    Simple
    \o [i \in DOMAIN Simple |-> <<"if", Bin("<", V("x"), N(1)), Simple[i]>>]
    \o Pairs(Simple, << Inc("x"), <<"if", V("c"), Inc("x")>> >>, LAMBDA s, t : IfElse(V("c"), s, t))
    \o << IfElse(V("c"), <<"if", V("c"), Inc("x")>>, <<"return", V("x")>>),
          <<"while", Bin("<", V("x"), N(2)), Inc("x")>>,
          Do(<< Def("x", N(8)), Set("y", Fun(<< >>, V("x"))) >>),
          Do(<< >>), <<"return", V("x")>>, Def("x", <<"lit", Undefined>>) >>

ControlOf(c) ==
    Pairs(Statement, Statement, LAMBDA s, t :
        << Def("f", Fun(<<"c", "y">>,
                Do(<< Def("x", N(0)), s, t, <<"vec", <<V("x"), <<"call", V("y"), << >> >> >> >> >>))),
           Call1("f", << B(c), Fun(<< >>, N(3)) >>) >>)
Control == ControlOf(TRUE) \o ControlOf(FALSE)

\* Functions, closures, and the order in which parts are evaluated.
Functions == <<
    << <<"defun", "fact", <<"n">>, IfElse(Bin("<", V("n"), N(2)), N(1),
            Bin("*", V("n"), Call1("fact", <<Bin("-", V("n"), N(1))>>)))>>,
       Call1("fact", <<N(5)>>) >>,
    << Def("make", Fun(<<"n">>, Fun(<<"d">>, Set("n", Bin("+", V("n"), V("d")))))),
       Def("a", Call1("make", <<N(10)>>)), Def("b", Call1("make", <<N(20)>>)),
       <<"vec", << Call1("a", <<N(1)>>), Call1("b", <<N(1)>>), Call1("a", <<N(1)>>) >> >> >>,
    << Def("v", <<"vec", <<N(1), N(2)>> >>), <<"setelt", V("v"), <<"elt", V("v"), N(0)>>, N(9)>>,
       Bin("+", V("v"), <<"vec", << >> >>),
       <<"elt", <<"vec", <<V("v"), Fun(<<"q">>, Bin("==", V("q"), N(9)))>> >>, N(1)>>,
       <<"call", <<"elt", <<"vec", <<V("v"), Fun(<<"q">>, Bin("==", V("q"), N(9)))>> >>, N(1)>>, << <<"elt", V("v"), N(1)>> >> >> >>,
    << Def("f", Fun(<<"a">>, N(1))),
       Call1("f", << Do(<< Set("f", Fun(<<"a">>, Bin("-", N(2), V("a")))), N(5) >>) >>),
       Do(<< Def("f", Fun(<<"a">>, Bin("+", V("a"), N(1)))), Call1("f", << Call1("f", <<N(5)>>) >>),
             <<"call", Fun(<<"a", "b">>, Bin("-", V("a"), V("b"))), << N(9), Call1("f", <<N(1)>>) >> >> >>),
       Bin("-", N(1), <<"neg", N(4)>>), <<"not", <<"not", N(4)>> >>, Bin("&", N(7), <<"bnot", N(2)>>) >>,
    << Do(<< Def("x", N(1)), Def("y", <<"if", B(FALSE), Def("x", N(2))>>),
             Do(<< Def("g", Fun(<< >>, V("x"))), <<"if", B(FALSE), Def("x", N(3))>>, <<"vec", <<V("x"), V("y"), Call1("g", << >>)>> >> >>) >>),
       V("nothing"), Def("u", <<"lit", Undefined>>), V("u"), Call1("sleep", <<N(0)>>), Call1("sleep", <<N(1)>>), N(1) >>,
    << Call1("f", << >>), N(1) >>, << <<"call", N(1), << >> >>, N(2) >>, << Call1("effuid", <<N(1)>>) >> >>

\* Objects o and its child p, with a slot and a method; u is somebody else.
MakeO == << Def("o", Call1("clone", <<V("Root")>>)), DefSlot(V("o"), "x", N(1)),
            DefMethod(V("o"), "add", <<"d">>, Bin("+", SlotOf(<<"this">>, "x"), V("d"))) >>
MakeP == << Def("p", Call1("clone", <<V("o")>>)) >>
MakeU == << Def("u", Call1("clone", <<V("Root")>>)),
            DefMethod(V("o"), "who", << >>, Call1("effuid", << >>)) >>
AsU(e) == Do(<< Call1("set-effuid", <<V("u")>>), e >>)
ObjectFlags(o, n) == Call1("set-object-flags", <<o, n>>)
Whoami == VecOf(<< Call1("effuid", << >>), SendTo(V("o"), "who", << >>), Call1("effuid", << >>) >>)

ObjectForms == <<
    MakeO \o MakeP \o << SlotOf(V("p"), "x"), SetSlot(V("p"), "x", N(5)),
        VecOf(<< SlotOf(V("o"), "x"), SlotOf(V("p"), "x") >>),
        SendTo(V("p"), "add", <<N(2)>>), Def("q", MethodOf(V("p"), "add")), Call1("q", <<N(3)>>),
        <<"call", MethodOf(V("o"), "add"), <<N(3)>> >>,
        DefMethod(V("p"), "add", <<"d">>, SendAs(V("o"), "add", <<Bin("*", V("d"), N(2))>>)),
        VecOf(<< SendTo(V("p"), "add", <<N(3)>>), SendTo(V("o"), "add", <<N(3)>>) >>),
        SlotOf(SlotOf(V("p"), "x"), "y") >>,
    MakeO \o << DefSlot(V("o"), "f", Fun(<<"a">>, Bin("-", V("a"), N(1)))), DefSlot(V("o"), "v", VecOf(<<N(4), N(6)>>)),
        <<"call", SlotOf(V("o"), "f"), << SlotOf(V("o"), "x") >> >>, <<"setelt", SlotOf(V("o"), "v"), N(0), N(8)>>,
        Bin("-", <<"elt", SlotOf(V("o"), "v"), N(0)>>, <<"call", SlotOf(V("o"), "f"), <<N(3)>> >>),
        DefSlot(V("o"), "next", V("o")), SetSlot(SlotOf(V("o"), "next"), "x", N(7)), SlotOf(V("o"), "x"),
        SetSlot(V("o"), "y", N(1)) >>,
    MakeO \o MakeU \o << AsU(Whoami), Call1("set-setuid", <<MethodOf(V("o"), "who"), B(FALSE)>>), AsU(Whoami),
        Whoami, Call1("set-realuid", <<V("u")>>), Call1("effuid", << >>), Def("z", N(1)), V("z"),
        Call1("clone", <<V("o")>>), Do(<< Def("f", Fun(<< >>, N(2))),
            Call1("set-method-flags", <<V("f"), N(0)>>), N(3) >>),
        Call1("set-effuid", <<V("o")>>), Set("z", N(1)) >>,
    MakeO \o MakeU \o << AsU(Call1("set-privileged", <<V("u"), B(TRUE)>>)), Call1("set-privileged", <<V("u"), B(TRUE)>>),
        AsU(Call1("set-effuid", <<V("o")>>)), Call1("set-privileged", <<N(1), B(FALSE)>>),
        AsU(Do(<< Call1("set-privileged", <<V("u"), B(FALSE)>>), Call1("set-effuid", <<V("o")>>) >>)) >>,
    MakeO \o MakeU \o << BindCC1("back", Do(<< Call1("set-effuid", <<V("u")>>), Call1("back", <<N(5)>>) >>)),
        Do(<< BindCC1("back", AsU(Call1("back", <<N(5)>>))), Call1("effuid", << >>) >>) >> >>
    \o Pairs(<< N(3840), N(4), N(1), N(16386) >>, << SendTo(V("o"), "who", << >>), <<"call", MethodOf(V("o"), "who"), << >> >>,
                SlotOf(V("o"), "x"), SetSlot(V("o"), "x", N(2)), DefSlot(V("o"), "w", N(2)),
                DefMethod(V("o"), "who", << >>, N(4)), Call1("set-method-flags", <<MethodOf(V("o"), "who"), N(0)>>) >>,
             LAMBDA n, e : MakeO \o MakeU \o
                << Handle(V("e")), Call1("set-method-flags", <<MethodOf(V("o"), "who"), n>>), AsU(e) >>)
    \o [n \in 1 .. 9 |-> LET flags == IF n = 9 THEN Bin("-", N(0), N(1)) ELSE N(n - 1) IN
            MakeO \o MakeU \o << Handle(V("e")), ObjectFlags(V("u"), N(5000)), ObjectFlags(V("o"), flags),
               Call1("set-privileged", <<V("o"), B(TRUE)>>),
               AsU(VecOf(<< ObjectFlags(V("o"), N(7)), DefSlot(V("o"), "w", N(2)) >>)), SetSlot(V("o"), "w", N(3)),
               AsU(VecOf(<< SetSlot(V("o"), "w", N(4)), SlotOf(V("o"), "w") >>)),
               AsU(Call1("clone", <<V("o")>>)), ObjectFlags(V("o"), N(18432)), AsU(Call1("clone", <<V("o")>>)),
               Do(<< Call1("set-effuid", <<V("o")>>), ObjectFlags(V("u"), B(TRUE)) >>) >>]

\* What fails, and what a handler does about it.
Failures == << Bin("+", N(1), Null), Bin("-", N(1), B(TRUE)), Bin("-", N(9), <<"neg", Null>>),
    SlotOf(Null, "x"), SendTo(Null, "add", <<N(2)>>), SlotOf(V("o"), "y"), SendTo(V("o"), "sub", << >>),
    SendTo(V("o"), "add", << >>), Call1("o", << >>), Call1("f", << >>), Call1("clone", << >>),
    Call1("clone", <<N(1)>>), <<"elt", VecOf(<<N(1)>>), N(1)>>, <<"setelt", VecOf(<<N(1)>>), N(2), N(1)>>,
    Call1("f", <<Null>>), <<"call", VecOf(<<N(1), V("f"), V("o")>>), << >> >> >>

Handlers == << N(42), Call1("k", <<N(3)>>), Call1("k", <<V("o")>>), Call1("leave", <<V("e")>>) >>

\* Left out: handlers that would be called for ever, and those that go on after a
\* method was called with too few arguments, for OP_CALL has popped them and pops again.
Endless(h, e) ==
    \/ h = Handlers[2] /\ e[1] \in {"slot", "send"}
    \/ h = Handlers[3] /\ e = SendTo(V("o"), "add", << >>)
    \/ h = Handlers[3] /\ (e[1] = "bin" \/ e \in {SlotOf(V("o"), "y"), SendTo(V("o"), "sub", << >>), Call1("f", <<Null>>)})

Exceptions ==
    Pairs(Handlers, Failures, LAMBDA h, e :
        MakeO \o << Def("f", Fun(<<"a">>, Bin("*", N(2), V("a")))), Def("leave", Null),
            Handle(h), BindCC1("there", Do(<< Set("leave", V("there")),
                VecOf(<< N(5), IF Endless(h, e) THEN N(0) ELSE e >>) >>)), N(6) >>)
    \o [i \in DOMAIN Failures |-> MakeO \o << Def("f", Fun(<<"a">>, Bin("*", N(2), V("a")))), Failures[i] >>]
    \o << << Bin("/", N(1), N(0)), N(2) >> >>

\* Leaving for a place: out of operands, blocks, loops and calls.
Places == <<
    << Bin("+", N(1), BindCC1("k", Do(<< Call1("k", <<N(5)>>), N(6) >>))),
       Def("f", Fun(<<"k", "a">>, Bin("*", N(2), Call1("k", <<V("a")>>)))),
       Bin("+", N(1), BindCC1("k", Bin("*", N(3), Call1("f", <<V("k"), N(9)>>)))),
       BindCC1("j", Bin("-", N(1), BindCC1("k", Call1("f", <<V("k"), Call1("j", <<N(7)>>)>>)))) >>,
    << Do(<< Def("i", N(0)), Def("x", N(4)),
             Def("r", BindCC1("break", <<"while", B(TRUE), Do(<< Def("x", Inc("i")),
                    If1(Bin("==", V("i"), N(3)), Call1("break", <<V("x")>>)) >>)>>)),
             VecOf(<< V("i"), V("x"), V("r") >>) >>),
       Do(<< Def("x", N(1)), BindCC1("k", Set("x", Bin("+", V("x"), N(1)))), V("x") >>) >>,
    MakeO \o << DefMethod(V("o"), "leave", <<"k">>, Call1("k", << SlotOf(<<"this">>, "x") >>)),
       Def("g", Fun(<< >>, VecOf(<< BindCC1("k", SendTo(V("o"), "leave", <<V("k")>>)), <<"this">> >>))), Call1("g", << >>) >> >>

\* Going back to a place that has been left, what a function cannot do in Language:
\* the answers are given.
True == Bool(TRUE)
GoneBack == <<
    [forms |-> << Def("kk", Null), Bin("+", N(1), BindCC1("k", Do(<< Set("kk", V("k")), N(10) >>))),
                  Call1("kk", <<N(20)>>), Bin("*", N(2), Call1("kk", <<N(5)>>)) >>,
     answers |-> << True, Num(11), Num(21), Num(6) >>],
    [forms |-> << Def("kk", Null), <<"defun", "f", << >>, Do(<< Def("n", N(0)),
                        VecOf(<< BindCC1("k", Set("kk", V("k"))), Inc("n"), N(7) >>) >>)>>,
                  Do(<< Call1("f", << >>), N(0) >>), <<"defun", "g", <<"v">>, <<"elt", V("v"), N(1)>>>>,
                  Call1("kk", <<N(20)>>) >>,
     answers |-> << True, True, Num(0), True, Num(0) >>],
    [forms |-> MakeO \o MakeU \o << DefMethod(V("o"), "caller", << >>, Call1("caller-effuid", << >>)),
                  AsU(SendTo(V("o"), "caller", << >>)) >>,
     answers |-> << True, Num(1), [a |-> "callable"], True, [a |-> "callable"], [a |-> "callable"], Obj(3) >>] >>

\* Forms that end in each way, one after the other: what is left for the next.
Endings == << N(1), Do(<< N(1) >>), If1(B(TRUE), N(1)), If1(B(TRUE), Do(<< N(1) >>)),
              IfElse(B(TRUE), N(1), Do(<< N(1) >>)), IfElse(B(TRUE), Do(<< N(1) >>), N(1)),
              IfElse(B(FALSE), N(1), If1(B(TRUE), N(1))), Fun(<< >>, Do(<< N(1) >>)) >>

After(kind, e) ==
    CASE kind = "set"    -> Set("x", e)
      [] kind = "define" -> Def("x", e)
      [] kind = "defun"  -> <<"defun", "x", << >>, e>>
      [] kind = "slot"   -> SetSlot(V("Root"), "x", e)
      [] kind = "elt"    -> <<"setelt", VecOf(<<N(1)>>), N(0), e>>
      [] kind = "new"    -> DefSlot(V("Root"), "x", e)
      [] kind = "method" -> DefMethod(V("Root"), "x", << >>, e)
      [] kind = "while"  -> <<"while", B(FALSE), e>>
      [] kind = "bindcc" -> BindCC1("k", e)
      [] kind = "return" -> <<"return", e>>
      [] kind = "none"   -> e

Lookahead ==
    Pairs(<< "set", "define", "defun", "slot", "elt", "new", "method", "while", "bindcc", "return", "none" >>,
          Endings, LAMBDA kind, e : << DefSlot(V("Root"), "x", N(0)), After(kind, e), N(2), N(3) >>)

\* Threads: what is interrupted goes on as if nothing had happened.
GoingOn == GoOnWith(V("acc"))
Threads == <<
    [forms |-> << Do(<< GoingOn, Def("f", Fun(<<"a">>, Bin("*", N(2), V("a")))),
                        VecOf(<< N(5), Bin("-", N(9), Call1("f", <<N(3)>>)), N(7) >>) >>) >>, also |-> {}, raises |-> 1],
    [forms |-> << Do(<< GoingOn, Def("i", N(0)),
                        <<"while", Bin("<", V("i"), N(2)), Do(<< Def("j", Inc("i")), If1(V("j"), V("i")) >>)>>,
                        V("i") >>) >>, also |-> {}, raises |-> 1],
    [forms |-> << Do(<< GoingOn, Def("o", Call1("clone", <<V("Root")>>)), DefSlot(V("o"), "x", N(3)),
                        DefMethod(V("o"), "add", <<"d">>, Bin("+", SlotOf(<<"this">>, "x"), V("d"))),
                        SetSlot(V("o"), "x", SendTo(V("o"), "add", <<N(1)>>)),
                        VecOf(<< SlotOf(V("o"), "x"), BindCC1("k", Call1("k", <<N(2)>>)) >>) >>) >>, also |-> {}, raises |-> 1],
    [forms |-> << Do(<< GoingOn, Def("o", Call1("clone", <<V("Root")>>)), Def("u", Call1("clone", <<V("Root")>>)),
                        DefMethod(V("o"), "who", << >>, Call1("effuid", << >>)),
                        Call1("set-effuid", <<V("u")>>), Whoami >>) >>, also |-> {}, raises |-> 1],
    [forms |-> << Do(<< Def("n", N(0)), Def("r", BindCC1("leave", Do(<< Handle(Call1("leave", <<N(4)>>)),
                                        Inc("n"), Bin("*", V("n"), N(7)) >>))),
                        VecOf(<< V("r"), V("n") >>) >>) >>,
     also |-> {[elements |-> << Num(4), Num(n) >>] : n \in 0 .. 1}, raises |-> 1],
    [forms |-> << Do(<< GoingOn, Def("x", N(4)), VecOf(<< N(5), Bin("-", V("x"), N(2)) >>) >>) >>,
     also |-> {}, raises |-> 2] >>

-----------------------------------------------------------------------------
(* The programs of the run.                                                *)

Source(forms) == FlattenSeq([i \in DOMAIN forms |-> Ended(Written2(forms[i]))])

Program(forms, answers, also, max) ==
    [forms |-> forms, toks |-> Source(forms), answers |-> answers, also |-> also, raises |-> max]

AllPrograms ==
    LET families == Precedence \o Control \o Functions \o ObjectForms \o Exceptions \o Places \o Lookahead
    IN  [i \in DOMAIN families |-> Program(families[i], Answers(families[i], Store), {}, 0)]
        \o [i \in DOMAIN GoneBack |-> Program(GoneBack[i].forms, GoneBack[i].answers, {}, 0)]
        \o [i \in DOMAIN Threads |->
                Program(Threads[i].forms, Answers(Threads[i].forms, Store), Threads[i].also, Threads[i].raises)]

ProgramNumbers == DOMAIN AllPrograms
TextOf(p) == AllPrograms[p].toks
RaisesOf(p) == AllPrograms[p].raises
ThreadPrograms == LET all == AllPrograms IN {p \in DOMAIN all : all[p].raises > 0}

This == AllPrograms[prog]

-----------------------------------------------------------------------------
(* Properties.                                                             *)

\* The first n forms have returned, and each has left the next as it was written.
Regular(forms, n) == \A i \in 1 .. n : out[i] \notin {Died, NullCode} /\ ~LosesNext(forms[i])

\* What a form leaves in the accumulator is what the language says, whatever
\* exceptions from outside it has been interrupted by.
RightAnswer ==
    LET Right(p) == \A i \in DOMAIN out :
            Regular(p.forms, i - 1) => \/ out[i] = p.answers[i]
                                       \/ out[i] \in p.also
                                       \/ helpless /\ out[i] = Died
    IN  Right(This)

\* A form that returns takes from the stack all it has put there.
NothingLeft == m.state = "done" /\ Regular(This.forms, Len(out)) => m.stack = << >>

\* Of a form no more and no less is read than was written of it; one that can be
\* continued by the token behind it takes that token away from the next.
FormsKept ==
    LET Kept(forms, n) ==
            LET rest  == Source(SubSeq(forms, n + 1, Len(forms)))
                sound == out[n] # NullCode /\ \A i \in 1 .. n - 1 : out[i] # NullCode /\ ~LosesNext(forms[i])
            IN  sound => toks = IF LosesNext(forms[n]) /\ rest # << >> THEN Tail(rest) ELSE rest
    IN  m.state \in {"done", "dying"} /\ prog \notin InThread /\ out # << >> => Kept(This.forms, Len(out))

\* What has been begun returns or dies, unless it sleeps: a form that does is never woken.
\* No code is run that is none, nothing is read or written outside of a vector, a frame or
\* the stack, no exception is raised without end, and no loop is entered without a way out.
FormEnds == m.state = "run" ~> (m.state \in {"done", "dying"} \/ m.acc = Yield)
=============================================================================
