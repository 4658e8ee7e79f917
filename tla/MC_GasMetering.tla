--------------------------- MODULE MC_GasMetering ---------------------------
(* All well-formed function bodies up to a length, over a few operators.   *)
EXTENDS GasMetering

CONSTANTS
    MaxLen, Alphabet,           \* short bodies over many operators
    MaxLongLen, LongAlphabet    \* longer bodies over few

Immediate(op) ==
    CASE op \in {"br", "br_if"} -> 0..1
      [] op = "br_table" -> {1}
      [] OTHER -> {0}

InstrOf(ops) == UNION {{Instr(op, n) : n \in Immediate(op)} : op \in ops}

(* Beginnings of bodies of at most max operators: complete bodies, and     *)
(* sequences of n operators whose labels exist and can still be closed.    *)
Bodies(max, ops) ==
    LET Prefix[n \in 0..max] ==
          IF n = 0 THEN {<<>>}
          ELSE LET shorter == Prefix[n - 1]
               IN  {c \in shorter : Len(c) < n - 1}
                   \cup {c \in shorter : n > 1 /\ Labels(c, Len(c)) = 0}
                   \cup {c \in {Append(p, i) : p \in {p \in shorter : Len(p) = n - 1 /\ Labels(p, n - 1) > 0},
                                               i \in InstrOf(ops)} :
                           /\ Labels(c, n) <= max - n
                           /\ Branches(c[n]) => c[n].n < Labels(c, n)}
    IN  {c \in Prefix[max] : WellFormed(c)}

MCProgram == Bodies(MaxLen, Alphabet) \cup Bodies(MaxLongLen, LongAlphabet)
=============================================================================
