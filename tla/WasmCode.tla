------------------------------ MODULE WasmCode ------------------------------
(***************************************************************************)
(* Function bodies as the injection passes and the JIT see them: a flat    *)
(* sequence of operators in which block, loop and if open a label that a   *)
(* matching end closes, and whose last end closes the function.  Operators *)
(* that behave alike and cost the same are one member of Op.               *)
(***************************************************************************)
EXTENDS Naturals, Sequences, FiniteSets

(* gas_table, by class of operator:                                        *)
(*   const     the four constants                                          *)
(*   alu       integer comparison, addition, and, or, xor, and nop         *)
(*   shift     shifts and rotations                                        *)
(*   local     locals, globals, loads, stores, drop, select, mul, wrap     *)
(*   div       integer division and remainder                              *)
(*   bits, bits64  clz, ctz and popcnt on 32 and 64 bits                   *)
(*   float     float comparison, sign and rounding, conversion, also       *)
(*             current_memory                                              *)
(*   fadd, fmul, fdiv, sqrt  float arithmetic; fdiv also grow_memory       *)
gas_table ==
    [unreachable |-> 0, block |-> 0, loop |-> 0, if |-> 0, else |-> 2, end |-> 0,
     br |-> 2, br_if |-> 3, br_table |-> 2, return |-> 2,
     call |-> 2, call_indirect |-> 10,
     const |-> 0, alu |-> 1, shift |-> 2, local |-> 3, div |-> 80,
     bits |-> 105, bits64 |-> 150, float |-> 100,
     fadd |-> 200, fmul |-> 400, fdiv |-> 1000, sqrt |-> 2000]

Op == DOMAIN gas_table

(* An operator with its immediate: the label of a branch, the largest      *)
(* label of a br_table, the amount of a use_gas.                           *)
Instr(op, n) == [op |-> op, n |-> n]

Opens(i) == i.op \in {"block", "loop", "if"}
Branches(i) == i.op \in {"br", "br_if", "br_table"}

(* Labels open after the first p operators, the one of the function        *)
(* included.                                                               *)
Opened(c, p) == Cardinality({k \in 1..p : Opens(c[k])})
Closed(c, p) == Cardinality({k \in 1..p : c[k].op = "end"})
Labels(c, p) == 1 + Opened(c, p) - Closed(c, p)

(* The operators between the opener at o and the end of its label.         *)
Inside(c, o, q) == o < q /\ \A k \in o..q - 1 : Labels(c, k) >= Labels(c, o)

(* Where the label opened at o ends, and where its else is.                *)
Ends(c, o) == {q \in 1..Len(c) :
                  Inside(c, o, q) /\ c[q].op = "end" /\ Labels(c, q) = Labels(c, o) - 1}
Elses(c, o) == {q \in 1..Len(c) :
                  Inside(c, o, q) /\ c[q].op = "else" /\ Labels(c, q) = Labels(c, o)}

(* What the operator validator of the IR lets through (operand types       *)
(* aside).                                                                 *)
WellFormed(c) ==
    /\ c # <<>>
    /\ \A p \in 1..Len(c) - 1 : Labels(c, p) > 0
    /\ Labels(c, Len(c)) = 0 /\ c[Len(c)].op = "end"
    /\ \A p \in 1..Len(c) :
          /\ Branches(c[p]) => c[p].n < Labels(c, p)
          /\ c[p].op = "else" =>
                \E o \in 1..p - 1 : c[o].op = "if" /\ Elses(c, o) = {p}

(* Control leaves the function.                                            *)
Exit == 0

(* Where a branch at p to its n-th innermost label goes: behind the end of *)
(* the label, but to the start of a loop.                                  *)
Target(c, p, n) ==
    IF Labels(c, p) = n + 1 THEN {Exit}
    ELSE UNION {IF c[o].op = "loop" THEN {o + 1} ELSE {q + 1 : q \in Ends(c, o)} :
                o \in {o \in 1..p - 1 : /\ Opens(c[o]) /\ Inside(c, o, p)
                                        /\ Labels(c, o) = Labels(c, p) - n}}

(* Where control may go from the operator at p, a condition being either.  *)
Successors(c, p) ==
    LET i == c[p] IN
    CASE i.op = "br" -> Target(c, p, i.n)
      [] i.op = "br_if" -> Target(c, p, i.n) \cup {p + 1}
      [] i.op = "br_table" -> UNION {Target(c, p, n) : n \in 0..i.n}
      [] i.op = "return" -> {Exit}
      [] i.op = "if" -> {p + 1} \cup
             {q + 1 : q \in IF Elses(c, p) = {} THEN Ends(c, p) ELSE Elses(c, p)}
      [] i.op = "else" -> Target(c, p, 0)
      [] i.op = "end" /\ p = Len(c) -> {Exit}
      [] i.op = "unreachable" -> {}
      [] OTHER -> {p + 1}

(* Operators that may raise a hardware trap or a Runtime::Exception.       *)
MayTrap(i) == i.op \in {"unreachable", "local", "div", "float", "call_indirect"}

Calls(i) == i.op \in {"call", "call_indirect"}
=============================================================================
