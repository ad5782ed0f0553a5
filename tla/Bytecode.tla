------------------------------ MODULE Bytecode ------------------------------
(***************************************************************************)
(* What compiled code consists of (bytecode.h), and the values that occur  *)
(* in its literal tables and in the machine's registers.                   *)
(*                                                                         *)
(* Code is a sequence of bytes.  A value is a record of one field; which   *)
(* field says what it is, as the tag or the type of an OBJ does.           *)
(***************************************************************************)
EXTENDS Naturals, Sequences, SequencesExt

Op == [ATPUT |-> 1, MOV_A_LOCL |-> 16, MOV_A_GLOB |-> 17, MOV_A_SLOT |-> 18,
       MOV_A_LITL |-> 19, MOV_A_SELF |-> 20, MOV_LOCL_A |-> 22, MOV_GLOB_A |-> 23,
       MOV_SLOT_A |-> 24, PUSH |-> 26, POP |-> 27, SWAP |-> 28,
       VECTOR |-> 32, ENTER_SCOPE |-> 33, LEAVE_SCOPE |-> 34, MAKE_VECTOR |-> 35,
       CLOSURE |-> 49, METHOD_CLOSURE |-> 50, RET |-> 51, CALL |-> 52, CALL_AS |-> 53,
       APPLY |-> 54, JUMP |-> 64, JUMP_TRUE |-> 65, JUMP_FALSE |-> 66,
       NOT |-> 80, EQ |-> 81, NE |-> 82, GT |-> 83, LT |-> 84, GE |-> 85, LE |-> 86,
       NEG |-> 96, BNOT |-> 97, BOR |-> 98, BAND |-> 99, PLUS |-> 100, MINUS |-> 101,
       STAR |-> 102, SLASH |-> 103, PERCENT |-> 104]

Num(n)    == [num |-> n]
Sym(x)    == [sym |-> x]            \* a symbol, interned: equal names, equal objects
Bool(b)   == [bool |-> b]
NullV     == [null |-> 0]
Undefined == [undefined |-> 0]
Template(k) == [template |-> k]     \* the k-th template compiled, a new object

IsNum(v) == "num" \in DOMAIN v
IsSym(v) == "sym" \in DOMAIN v
False    == Bool(FALSE)

Word == 65536
Byte(n) == n % 256

\* CODE16AT, taken as a signed 16-bit offset.
Offset(hi, lo) == LET w == 256 * hi + lo IN IF w >= 32768 THEN w - Word ELSE w
=============================================================================
