----------------------------- MODULE BootScript -----------------------------
(***************************************************************************)
(* Source text that runs: the compiler and the virtual machine composed.   *)
(*                                                                         *)
(* A boot script is compiled and run form by form, by compile_main of      *)
(* main.c, on one register file that all its forms share.  A thread runs   *)
(* the closure that the primitive compile makes of the first form of a     *)
(* text, on registers of its own, with a quota, and other threads may      *)
(* kill it.                                                                *)
(***************************************************************************)
EXTENDS Compiler, Machine

CONSTANTS
    Programs,       \* their names
    Text(_),        \* the tokens of a program
    InThread,       \* the programs that are run in a thread
    MaxRaises(_)    \* bound: exceptions from outside in a run of it

VARIABLES
    prog,           \* which of the programs this is
    toks,           \* the tokens still to be scanned
    out,            \* what run_vm has left in vm_acc, form by form
    raises,         \* exceptions from outside so far
    helpless        \* one of them found no handler

bvars == <<m, prog, toks, out, raises, helpless>>

NullCode == [failed |-> 0]      \* parse returned NULL
Died     == [died |-> 0]        \* the form did not return

\* As printed by print: vectors element by element, other objects by kind.
Shown(s, v) ==
    LET kind(x) == IF IsVec(s, x) THEN [a |-> "vector"]
                   ELSE IF {"ref", "prim"} \cap DOMAIN x # {} THEN [a |-> "callable"] ELSE x
    IN  IF IsVec(s, v) THEN [elements |-> [i \in DOMAIN Elts(s, v) |-> kind(Elts(s, v)[i])]]
        ELSE kind(v)

Init ==
    /\ m = Blank /\ prog \in Programs /\ toks = Text(prog)
    /\ out = << >> /\ raises = 0 /\ helpless = FALSE

\* Mutant: a form runs as whoever the form before has made effective.
Load_effuid ==
    /\ prog \notin InThread /\ m.state \in {"idle", "done", "dying"} /\ toks # << >>
    /\ \E p \in {Parse(toks, m.tmpls)} :
           /\ toks' = p.rest
           /\ IF p.ok
              THEN m' = Applied([m EXCEPT !.state = "run"], m.effuid, p.tmpls) /\ UNCHANGED out
              ELSE m' = Raise(m, "parse-error", NullV) /\ out' = Append(out, NullCode)
    /\ UNCHANGED <<prog, raises, helpless>>

\* compile_main: parse the next form and apply it.  The registers are those the
\* form before has left; only vm_state and vm_effuid are set again.
Load ==
    /\ prog \notin InThread /\ m.state \in {"idle", "done", "dying"} /\ toks # << >>
    /\ \E p \in {Parse(toks, m.tmpls)} :
           /\ toks' = p.rest
           /\ IF p.ok
              THEN m' = Applied([m EXCEPT !.state = "run"], m.uid, p.tmpls) /\ UNCHANGED out
              ELSE m' = Raise(m, "parse-error", NullV) /\ out' = Append(out, NullCode)
    /\ UNCHANGED <<prog, raises, helpless>>

\* compile, then begin_thread in a thread that is privileged and has no handler.
Begin ==
    /\ prog \in InThread /\ m.state = "idle"
    /\ \E p \in {Parse(toks, << >>)} :
           p.ok /\ m' = Applied([m EXCEPT !.state = "run", !.quota = TRUE], NullV, p.tmpls)
    /\ toks' = << >>
    /\ UNCHANGED <<prog, out, raises, helpless>>

Step ==
    /\ Instruction
    /\ out' = CASE m'.state = "done" -> Append(out, Shown(m', m'.acc))
                [] m'.state = "dying" -> Append(out, Died)
                [] OTHER -> out
    /\ UNCHANGED <<prog, toks, raises, helpless>>

Interrupt ==
    /\ prog \in InThread /\ raises < MaxRaises(prog) /\ raises' = raises + 1
    /\ QuotaExpires \/ Killed
    /\ helpless' = (helpless \/ m.trap = NullV)
    /\ UNCHANGED <<prog, toks, out>>

Next == Load \/ Begin \/ Step \/ Interrupt

Spec == Init /\ [][Next]_bvars /\ WF_bvars(Step)
=============================================================================
