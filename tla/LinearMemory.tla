---------------------------- MODULE LinearMemory ----------------------------
(***************************************************************************)
(* The MemoryInstance that contracts use one after the other, and the      *)
(* TableInstance each of them calls through.                               *)
(*                                                                         *)
(* instantiateModule creates the memory for the first contract and hands   *)
(* it to the next ones; before a contract runs, resetMemory brings it to   *)
(* that contract's size and wipes it and the image of the data segments is *)
(* copied in; while it runs the contract may grow it.  The table is        *)
(* created with the module instance and filled from its segments.  Sizes   *)
(* are unsigned machine words (Uptr), so a subtraction may wrap.           *)
(***************************************************************************)
EXTENDS Integers, Sequences

CONSTANTS
    Contract,       \* the contracts with a memory
    Min, Max,       \* Min[c], Max[c]: the declared limits in pages
    ImagePages,     \* ImagePages[c]: pages the data segments of c reach
    MaxMemory,      \* maximum_linear_memory / wasm_page_size
    MaxPages,       \* IR::maxMemoryPages
    Word,           \* Uptr counts modulo Word
    Delta,          \* operands of grow_memory (I32)
    TableMin,       \* TableMin[c]: the declared size of the table
    Segments,       \* Segments[c]: [offset, functions], the functions by their types
    Signature,      \* the types of functions
    Index,          \* operands of call_indirect
    maximum_table_elements,
    ElementBytes,   \* sizeof(TableInstance::FunctionElement)
    PlatformPage,   \* bytes of a page of the platform
    None

ASSUME MemoryAssumption ==
    /\ MaxPages \in Nat /\ MaxMemory \in 1..MaxPages
    /\ Word \in Nat /\ Word > 2 * (MaxPages + 1)
    /\ Min \in [Contract -> 0..MaxPages] /\ Max \in [Contract -> 0..MaxPages]
    /\ ImagePages \in [Contract -> 0..MaxPages]
    /\ \A c \in Contract : Min[c] <= Max[c] /\ ImagePages[c] <= Min[c]
    /\ Delta \subseteq -(Word \div 2)..(Word \div 2) - 1
    /\ None \notin Contract \cup Signature

(* table_constraints accepts no larger table.                              *)
ASSUME TableAssumption ==
    /\ maximum_table_elements \in 0..Word - 1
    /\ TableMin \in [Contract -> 0..maximum_table_elements]
    /\ ElementBytes \in Nat \ {0} /\ PlatformPage \in Nat \ {0}
    /\ PlatformPage % ElementBytes = 0
    /\ Segments \in [Contract -> Seq([offset: Nat, functions: Seq(Signature)])]
    /\ Index \subseteq Nat

VARIABLES
    contract,   \* the contract that is loaded, or None
    phase,      \* "idle", "loaded", "running", or "escaped" by an exception
    memory,     \* *theMemoryInstance, or None
    table,      \* the table of the contract's module instance, or None
    called      \* the last call_indirect: its operand, its type, what it reached

vars == <<contract, phase, memory, table, called>>

Page == 0..MaxPages - 1

(* A MemoryInstance: its limits, its size, the pages of its address space  *)
(* that are committed, and in data[p] the contracts whose data page p      *)
(* holds.                                                                  *)
MemoryInstance ==
    [type: [min: 0..MaxPages, max: 0..MaxPages], numPages: 0..MaxPages,
     committed: SUBSET Page, data: [Page -> SUBSET Contract]]

(* Conversion to Uptr.                                                     *)
Uptr(n) == n % Word

(* max_memory_injection_visitor clamps the declared maximum.               *)
TypeOf(c) == [min |-> Min[c], max |-> IF Max[c] > MaxMemory THEN MaxMemory ELSE Max[c]]

-----------------------------------------------------------------------------
(* Memory.cpp.  A function that may return -1 is the set of the memories   *)
(* it may leave behind, empty for -1.                                      *)

Zeroed(d, ps) == [p \in Page |-> IF p \in ps THEN {} ELSE d[p]]

(* "If the number of pages to grow would cause the memory's size to exceed *)
(* its maximum"                                                            *)
ExceedsMaximum(m, n) == n > m.type.max \/ m.numPages > Uptr(m.type.max - n)

growMemory(m, n) ==
    LET new == m.numPages..m.numPages + n - 1
    IN  IF n = 0 THEN {m}
        ELSE IF ExceedsMaximum(m, n) THEN {}
        ELSE {[m EXCEPT !.numPages = @ + n, !.committed = @ \cup new,
                        !.data = Zeroed(@, new)]}

(* Fault: the pages are not decommitted.                                   *)
shrinkMemoryCommitted(m, n) ==
    IF n = 0 THEN {m}
    ELSE IF n > m.numPages \/ m.numPages - n < m.type.min THEN {}
    ELSE {[m EXCEPT !.numPages = @ - n]}

shrinkMemory(m, n) ==
    LET gone == m.numPages - n..m.numPages - 1
    IN  IF n = 0 THEN {m}
        ELSE IF n > m.numPages \/ m.numPages - n < m.type.min THEN {}
        ELSE {[m EXCEPT !.numPages = @ - n, !.committed = @ \ gone,
                        !.data = Zeroed(@, gone)]}

(* createMemory, when the address space can be reserved.                   *)
createMemory(t) ==
    growMemory([type |-> t, numPages |-> 0, committed |-> {},
                data |-> [p \in Page |-> {}]], t.min)

(* Fault: the page that is left after shrinking is not wiped.              *)
resetMemoryUnwiped(m, t) ==
    UNION {growMemory([m1 EXCEPT !.type = t], Uptr(t.min - 1)) :
           m1 \in shrinkMemory([m EXCEPT !.type.min = 1], Uptr(m.numPages - 1))}

resetMemory(m, t) ==
    UNION {growMemory([m1 EXCEPT !.data = Zeroed(@, {0}), !.type = t], Uptr(t.min - 1)) :
           m1 \in shrinkMemory([m EXCEPT !.type.min = 1], Uptr(m.numPages - 1))}

(* memcpy of the initial memory.                                           *)
WithImage(m, c) ==
    [m EXCEPT !.data = [p \in Page |-> IF p < ImagePages[c] THEN @[p] \cup {c} ELSE @[p]]]

-----------------------------------------------------------------------------
(* Table.cpp                                                               *)

getNumPlatformPages(numBytes) == (numBytes + PlatformPage - 1) \div PlatformPage

(* A TableInstance: its size, the pages reserved and committed for it, and *)
(* the type of the function in each place, or None.                        *)
emptyTable ==
    [size |-> 0, committed |-> {},
     reserved |-> 0..(maximum_table_elements * ElementBytes) \div PlatformPage,
     elements |-> [i \in 0..maximum_table_elements - 1 |-> None]]

(* Only createTable grows a table, to the declared minimum, which no       *)
(* declared maximum is below.                                              *)
growTable(t, n) ==
    LET previous == getNumPlatformPages(t.size * ElementBytes)
        new      == getNumPlatformPages((t.size + n) * ElementBytes)
    IN  [t EXCEPT !.size = @ + n, !.committed = @ \cup previous..new - 1]

createTable(c) == growTable(emptyTable, TableMin[c])

(* Fault: a segment is written to the start of the table.                  *)
setTableElementUnbased(t, base, functions) ==
    [t EXCEPT !.elements = [i \in DOMAIN @ |-> IF i \in 0..Len(functions) - 1 THEN functions[i + 1] ELSE @[i]]]

(* setTableElement for every function of a segment.                        *)
setTableElement(t, base, functions) ==
    [t EXCEPT !.elements =
        [i \in DOMAIN @ |-> IF i - base \in 0..Len(functions) - 1 THEN functions[i - base + 1] ELSE @[i]]]

(* The segments fit in the table.                                          *)
Fits(t, segments) ==
    \A k \in DOMAIN segments :
        segments[k].offset <= t.size /\ Uptr(t.size - segments[k].offset) >= Len(segments[k].functions)

Filled(t, segments) ==
    LET After[k \in 0..Len(segments)] ==
            IF k = 0 THEN t
            ELSE setTableElement(After[k - 1], segments[k].offset, segments[k].functions)
    IN  After[Len(segments)]

(* An access to a page that is not committed raises a signal, which is a   *)
(* fatal error outside the reservations.                                   *)
handleHardwareTrap(t, page) ==
    IF page \in t.reserved THEN "undefinedTableElement" ELSE "unsandboxed access violation"

(* The intrinsic that tells an empty place from one of another type.       *)
signatureMismatch(t, i) ==
    IF t.elements[i] = None THEN "undefinedTableElement" ELSE "indirectCallSignatureMismatch"

(* What call_indirect reaches: a function of the type, or a trap.          *)
call_indirect(t, i, type) ==
    LET page == (i * ElementBytes) \div PlatformPage
    IN  IF i >= maximum_table_elements THEN "undefinedTableElement"
        ELSE IF page \notin t.committed THEN handleHardwareTrap(t, page)
        ELSE IF t.elements[i] # type THEN signatureMismatch(t, i)
        ELSE type

-----------------------------------------------------------------------------
NotCalled == [index |-> 0, type |-> None, reached |-> None]

Init ==
    /\ contract = None
    /\ phase = "idle"
    /\ memory = None
    /\ table = None
    /\ called = NotCalled

(* instantiateModule: the table is created, the memory created or reused,  *)
(* and the segments are copied, unless one does not fit.                   *)
Instantiate(c) ==
    /\ phase = "idle"
    /\ contract' = c
    /\ IF memory # None THEN UNCHANGED memory
       ELSE memory' \in createMemory(TypeOf(c))
    /\ IF Fits(createTable(c), Segments[c])
       THEN phase' = "loaded" /\ table' = Filled(createTable(c), Segments[c])
       ELSE phase' = "escaped" /\ UNCHANGED table
    /\ UNCHANGED called

(* No address space, no pages, or an address below the minimum: -1 or null *)
(* becomes a Runtime::Exception.                                           *)
OutOfMemory ==
    /\ phase \in {"idle", "loaded"}
    /\ phase' = "escaped"
    /\ UNCHANGED <<contract, memory, table, called>>

(* call(): resetMemory and the copy of the image.                          *)
Call ==
    /\ phase = "loaded"
    /\ phase' = "running"
    /\ \E m \in resetMemory(memory, TypeOf(contract)) : memory' = WithImage(m, contract)
    /\ UNCHANGED <<contract, table, called>>

(* grow_memory: the intrinsic of WAVMIntrinsics.cpp, which returns -1 and  *)
(* changes nothing also when the pages cannot be committed.                *)
GrowMemory(delta) ==
    /\ phase = "running"
    /\ memory' \in growMemory(memory, Uptr(delta)) \cup {memory}
    /\ UNCHANGED <<contract, phase, table, called>>

(* A store to page p, or an intrinsic that writes there.                   *)
Store(p) ==
    /\ phase = "running"
    /\ p \in memory.committed
    /\ memory' = [memory EXCEPT !.data[p] = @ \cup {contract}]
    /\ UNCHANGED <<contract, phase, table, called>>

(* An indirect call; a trap ends the run.                                  *)
CallIndirect(i, type) ==
    /\ phase = "running"
    /\ LET reached == call_indirect(table, i, type)
       IN  /\ called' = [index |-> i, type |-> type, reached |-> reached]
           /\ phase' = IF reached = type THEN phase ELSE "escaped"
    /\ UNCHANGED <<contract, memory, table>>

(* execute() returns to the host or to a caller.                           *)
Return ==
    /\ phase \in {"loaded", "running"}
    /\ phase' = "idle"
    /\ contract' = None
    /\ table' = None
    /\ called' = NotCalled
    /\ UNCHANGED memory

(* The last runtime_guard collects the memory.                             *)
Collect ==
    /\ phase = "idle" /\ memory # None
    /\ memory' = None
    /\ UNCHANGED <<contract, phase, table, called>>

Escaped == phase = "escaped" /\ UNCHANGED vars

Next ==
    \/ \E c \in Contract : Instantiate(c)
    \/ OutOfMemory \/ Call
    \/ \E d \in Delta : GrowMemory(d)
    \/ \E p \in Page : Store(p)
    \/ \E i \in Index, type \in Signature : CallIndirect(i, type)
    \/ Return \/ Collect \/ Escaped

Spec == Init /\ [][Next]_vars

-----------------------------------------------------------------------------
(* Exactly the pages below the size are committed, so that an access of    *)
(* the JIT code beyond it traps and one below does not; a running contract *)
(* has between its minimum and its maximum of pages, whatever the contracts *)
(* before it grew the memory to; and the pages of its table are those of   *)
(* its elements, all of them inside the reservation.                       *)
CommittedExactly ==
    /\ memory # None => memory.committed = 0..memory.numPages - 1
    /\ phase = "running" =>
           /\ memory.type = TypeOf(contract)
           /\ memory.numPages \in memory.type.min..memory.type.max
    /\ table # None =>
           /\ table.committed = {(i * ElementBytes) \div PlatformPage : i \in 0..table.size - 1}
           /\ table.committed \subseteq table.reserved

(* A contract finds its own data in its memory and zeros otherwise, never  *)
(* what an earlier contract left, also in pages it grows into.             *)
NoLeftovers ==
    phase = "running" => \A p \in memory.committed : memory.data[p] \subseteq {contract}

(* The function the segments of the contract put at a place of its table,  *)
(* the last of them that covers it.                                        *)
Declared(c, i) ==
    LET covering == {k \in DOMAIN Segments[c] :
                        i - Segments[c][k].offset \in 0..Len(Segments[c][k].functions) - 1}
        last == CHOOSE k \in covering : \A l \in covering : l <= k
    IN  IF covering = {} THEN None ELSE Segments[c][last].functions[i - Segments[c][last].offset + 1]

(* An indirect call reaches a function exactly if the contract's segments  *)
(* put one of that type there; otherwise it traps with the cause that says *)
(* what is there, and never as an access outside every reservation.        *)
IndirectCallsDeclared ==
    called # NotCalled =>
        LET declared == Declared(contract, called.index)
        IN  called.reached = CASE declared = None -> "undefinedTableElement"
                               [] declared = called.type -> called.type
                               [] OTHER -> "indirectCallSignatureMismatch"
=============================================================================
