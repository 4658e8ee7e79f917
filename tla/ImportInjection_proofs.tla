----------------------- MODULE ImportInjection_proofs -----------------------
(***************************************************************************)
(* Proofs about ImportInjection: for every module that validation accepts  *)
(* and any number of injected imports, every function index in the module  *)
(* keeps naming the function it named when the module was loaded. The      *)
(* argument is the invariant IInv below: where the injected imports stand, *)
(* which indices their calls carry until the last pass, and what the       *)
(* operators read and written by each pass may be.                         *)
(***************************************************************************)
EXTENDS ImportInjection, SequenceTheorems, WellFoundedInduction, TLAPS

(* A set of natural numbers that is not empty has a least element.         *)
(* build_type_slots finds the first of equal types; its place exists by    *)
(* this lemma.                                                             *)
LEMMA LeastNatural ==
    ASSUME NEW T \in SUBSET Nat, T # {}
    PROVE  \E x \in T : \A y \in T : x <= y
<1> DEFINE R == {ss \in Nat \X Nat : ss[1] < ss[2]}
<1>1. IsWellFoundedOn(R, Nat)
  BY NatLessThanWellFounded, Zenon DEF OpToRel
<1>2. \E x \in T : \A y \in T : ~(<<y, x>> \in R)
  BY <1>1, WFMin, Zenon
<1>3. \A x, y \in T : ~(<<y, x>> \in R) => x <= y
  OBVIOUS
<1>4. QED BY <1>2, <1>3, Zenon

-----------------------------------------------------------------------------
(* The imports injected so far, the functions of the module as loaded, and *)
(* the index calls of the k-th injected import carry until the last pass.  *)
Count == Len(registered_injected)
Functions == Len(module.imports) + Len(module.defs)
Provisional(k) == Functions + 2 * (k - 1)

(* An operator of the code; imports as loaded and as they may become; an   *)
(* entry of registered_injected.                                           *)
Operator ==
    [op: {"call", "float", "other"}, field: Nat, callee: Own \cup Def \cup Injected \cup {None}]

OwnImport == [name: Own, type: Nat]
Import == [name: Own \cup Injected, type: Nat]
Registration == [name: Injected, index: Nat]

(* The types of the sequences.                                             *)
TypeOK ==
    /\ module \in Module
    /\ types \in Seq(Type)
    /\ imports \in Seq(Import)
    /\ registered_injected \in Seq(Registration)
    /\ pass \in {"init", "usegas", "pre", "post", "done"}
    /\ code \in Seq(Operator)
    /\ out \in Seq(Operator)

(* type_slots finds types where they stand.                                *)
SlotsExact ==
    \A t \in DOMAIN type_slots : type_slots[t] \in 0..Len(types) - 1 /\ types[type_slots[t] + 1] = t

(* The injected imports stand in front, in the order they were registered  *)
(* and with the type of their intrinsic; the contract's own follow         *)
(* unchanged.                                                              *)
ImportsInFront ==
    /\ Len(imports) = Count + Len(module.imports)
    /\ \A k \in 1..Count :
          /\ imports[k].name = registered_injected[k].name
          /\ imports[k].type + 1 \in 1..Len(types)
          /\ types[imports[k].type + 1] = Sig[imports[k].name]
    /\ \A k \in 1..Len(module.imports) : imports[k + Count] = module.imports[k]

(* Calls of the k-th injected import carry Provisional(k), and             *)
(* injected_index_mapping maps it to the import's index, k - 1.            *)
IndicesDistinct ==
    /\ \A k \in 1..Count : registered_injected[k].index = Provisional(k)
    /\ DOMAIN injected_index_mapping = {Provisional(k) : k \in 1..Count}
    /\ \A k \in 1..Count : injected_index_mapping[Provisional(k)] = k - 1
    /\ next_injected_index = Count

(* An intrinsic is registered once.                                        *)
NamesDistinct ==
    \A j, k \in 1..Count : registered_injected[j].name = registered_injected[k].name => j = k

(* Exports, table segments and start function have moved up by the imports *)
(* in front.                                                               *)
Shifted ==
    /\ exports = [k \in DOMAIN module.exports |-> module.exports[k] + Count]
    /\ table = [k \in DOMAIN module.table |-> module.table[k] + Count]
    /\ start = IF module.start = None THEN None ELSE module.start + Count

(* What holds of injector_utils between two calls of add_import.           *)
UtilInv == SlotsExact /\ ImportsInFront /\ IndicesDistinct /\ NamesDistinct /\ Shifted

(* The first import injected is use_gas, and it opens the passes. *)
Started ==
    /\ pass = "init" <=> Count = 0
    /\ Count # 0 => registered_injected[1].name = UseGas

(* The operators a pass reads and writes: calls as they were loaded, calls *)
(* of injected imports with their provisional index, calls that are final. *)
OwnCall(o) ==
    o.op = "call" /\ o.field \in IndexSpace(module.imports, module.defs) /\ o.callee = Loaded(o.field)
InjectedCall(o) ==
    o.op = "call" /\ \E k \in 1..Count : o.field = Provisional(k) /\ o.callee = registered_injected[k].name
FinalCall(o) == o.op = "call" => Now(o.field) = o.callee
IsFloat(o) == o.op = "float" /\ o.callee \in Injected
Pending(o) == OwnCall(o) \/ InjectedCall(o) \/ o.op = "other"

(* Before the last pass no call is final; the pre pass leaves no float     *)
(* operator, the last pass writes final calls only.                        *)
CodeInv ==
    /\ pass \in {"init", "usegas", "pre"} =>
          \A k \in 1..Len(code) : Pending(code[k]) \/ IsFloat(code[k])
    /\ pass = "init" => out = <<>>
    /\ pass = "usegas" => \A k \in 1..Len(out) : Pending(out[k]) \/ IsFloat(out[k])
    /\ pass = "pre" => \A k \in 1..Len(out) : Pending(out[k])
    /\ pass = "post" => \A k \in 1..Len(code) : Pending(code[k])
    /\ pass \in {"post", "done"} =>
          \A k \in 1..Len(out) : out[k].op # "float" /\ FinalCall(out[k])

(* The inductive invariant. TargetsKept alone is not inductive: that       *)
(* fix_call_index reaches the right function rests on which indices are    *)
(* provisional, which no property mentions.                                *)
IInv == TypeOK /\ UtilInv /\ Started /\ CodeInv

-----------------------------------------------------------------------------
(* What the validation of a module grants: every index it holds is an      *)
(* index of its own functions or types.                                    *)
LEMMA ModuleTyped ==
    ASSUME NEW m \in Module
    PROVE  /\ m.types \in Seq(Type) /\ m.defs \in Seq(Def)
           /\ m.imports \in Seq(OwnImport)
           /\ \A k \in 1..Len(m.imports) : m.imports[k].type + 1 \in 1..Len(m.types)
           /\ m.exports \in Seq(IndexSpace(m.imports, m.defs))
           /\ m.table \in Seq(IndexSpace(m.imports, m.defs))
           /\ m.start \in IndexSpace(m.imports, m.defs) \cup {None}
           /\ m.code \in Seq({Call(i, At(m.imports, m.defs, i)) : i \in IndexSpace(m.imports, m.defs)}
                             \cup {Float(n) : n \in Injected \ {UseGas}} \cup {Other})
<1>1. IsModule(m)
  BY InjectionAssumption
<1>2. m.imports \in Seq([name: Own, type: 0..Len(m.types) - 1]) /\ m.types \in Seq(Type)
  BY <1>1 DEF IsModule
<1>3. m.imports \in Seq(OwnImport)
  <2> DEFINE Narrow == [name: Own, type: 0..Len(m.types) - 1]
  <2>1. Narrow \subseteq OwnImport
    BY DEF OwnImport
  <2>2. m.imports \in Seq(Narrow)
    BY <1>2
  <2> HIDE DEF Narrow
  <2>3. QED BY <2>1, <2>2, SeqMonotonic
<1>4. ASSUME NEW k \in 1..Len(m.imports) PROVE m.imports[k].type + 1 \in 1..Len(m.types)
  <2>1. m.imports[k] \in [name: Own, type: 0..Len(m.types) - 1]
    BY <1>2, ElementOfSeq
  <2>2. Len(m.types) \in Nat
    BY <1>2, LenProperties
  <2>3. QED BY <2>1, <2>2
<1>5. QED BY <1>1, <1>2, <1>3, <1>4 DEF IsModule

(* The function behind an index of the module is one of its own. *)
LEMMA AtTyped ==
    ASSUME NEW imps \in Seq(OwnImport), NEW defs \in Seq(Def), NEW i \in IndexSpace(imps, defs)
    PROVE  i \in Nat /\ At(imps, defs, i) \in Own \cup Def
<1>1. Len(imps) \in Nat /\ Len(defs) \in Nat
  BY LenProperties
<1>2. i \in Nat /\ i <= Len(imps) + Len(defs) - 1
  BY <1>1 DEF IndexSpace
<1>3. CASE i < Len(imps)
  <2>1. imps[i + 1] \in OwnImport
    BY <1>1, <1>2, <1>3, ElementOfSeq
  <2>2. QED BY <1>2, <1>3, <2>1 DEF At, OwnImport
<1>4. CASE ~(i < Len(imps))
  <2>1. defs[i - Len(imps) + 1] \in Def
    BY <1>1, <1>2, <1>4, ElementOfSeq
  <2>2. QED BY <1>2, <1>4, <2>1 DEF At
<1>5. QED BY <1>3, <1>4

(* The operators of a loaded module are calls of its own functions, float  *)
(* operators that have an intrinsic, or others.                            *)
LEMMA CodeTyped ==
    ASSUME NEW m \in Module
    PROVE  /\ m.code \in Seq(Operator)
           /\ \A k \in 1..Len(m.code) :
                 LET o == m.code[k]
                 IN  \/ /\ o.op = "call" /\ o.field \in IndexSpace(m.imports, m.defs)
                        /\ o.callee = At(m.imports, m.defs, o.field)
                     \/ IsFloat(o)
                     \/ o.op = "other"
<1> DEFINE Space == IndexSpace(m.imports, m.defs)
           Ops == {Call(i, At(m.imports, m.defs, i)) : i \in Space}
                  \cup {Float(n) : n \in Injected \ {UseGas}} \cup {Other}
           Good(o) == \/ /\ o.op = "call" /\ o.field \in Space
                        /\ o.callee = At(m.imports, m.defs, o.field)
                      \/ IsFloat(o)
                      \/ o.op = "other"
<1>1. m.code \in Seq(Ops)
  BY ModuleTyped
<1>2. ASSUME NEW o \in Ops PROVE o \in Operator /\ Good(o)
  <2>1. ASSUME NEW i \in Space, o = Call(i, At(m.imports, m.defs, i)) PROVE o \in Operator /\ Good(o)
    <3>1. i \in Nat /\ At(m.imports, m.defs, i) \in Own \cup Def
      BY AtTyped, ModuleTyped
    <3>2. QED BY <2>1, <3>1 DEF Call, Operator
  <2>2. ASSUME NEW n \in Injected, o = Float(n) PROVE o \in Operator /\ Good(o)
    BY <2>2 DEF Float, Operator, IsFloat
  <2>3. ASSUME o = Other PROVE o \in Operator /\ Good(o)
    BY <2>3 DEF Other, Operator
  <2>4. QED BY <1>2, <2>1, <2>2, <2>3
<1> HIDE DEF Ops, Good
<1>3. m.code \in Seq(Operator) /\ \A k \in 1..Len(m.code) : Good(m.code[k])
  BY <1>1, <1>2
<1>4. QED BY <1>3 DEF Good

(* build_type_slots maps a type to a place in the types where it stands.   *)
LEMMA TypeSlotsExact ==
    ASSUME NEW ts \in Seq(Type)
    PROVE  \A t \in DOMAIN TypeSlots(ts) : TypeSlots(ts)[t] \in 0..Len(ts) - 1 /\ ts[TypeSlots(ts)[t] + 1] = t
<1> DEFINE First(t, k) == ts[k] = t /\ \A j \in 1..k - 1 : ts[j] # t
<1>1. ASSUME NEW t \in {ts[k] : k \in DOMAIN ts} PROVE \E k \in DOMAIN ts : First(t, k)
  <2> DEFINE Where == {k \in 1..Len(ts) : ts[k] = t}
  <2>1. Where \in SUBSET Nat /\ Where # {}
    OBVIOUS
  <2>2. PICK k \in Where : \A j \in Where : k <= j
    <3> HIDE DEF Where
    <3>1. QED BY <2>1, LeastNatural
  <2>3. QED BY <2>2
<1>2. ASSUME NEW t \in {ts[k] : k \in DOMAIN ts}
      PROVE  TypeSlots(ts)[t] \in 0..Len(ts) - 1 /\ ts[TypeSlots(ts)[t] + 1] = t
  <2> DEFINE f == CHOOSE k \in DOMAIN ts : First(t, k)
  <2>1. f \in DOMAIN ts /\ First(t, f)
    BY <1>1
  <2>2. TypeSlots(ts)[t] = f - 1
    BY DEF TypeSlots
  <2> HIDE DEF f
  <2>3. f \in 1..Len(ts) /\ TypeSlots(ts)[t] + 1 = f /\ TypeSlots(ts)[t] \in 0..Len(ts) - 1
    <3>1. f \in 1..Len(ts) /\ Len(ts) \in Nat
      BY <2>1, LenProperties
    <3>2. QED BY <2>2, <3>1
  <2>4. QED BY <2>1, <2>3
<1>3. DOMAIN TypeSlots(ts) = {ts[k] : k \in DOMAIN ts}
  BY DEF TypeSlots
<1>4. QED BY <1>2, <1>3

-----------------------------------------------------------------------------
(* IInv holds of a module as it is loaded.                                 *)
LEMMA InitIInv == Init => IInv
<1> SUFFICES ASSUME Init PROVE IInv
  OBVIOUS
<1> USE DEF Init
<1>1. module \in Module /\ module.types \in Seq(Type) /\ module.imports \in Seq(OwnImport)
      /\ module.code \in Seq(Operator) /\ Len(module.imports) \in Nat
  BY ModuleTyped, CodeTyped, LenProperties
<1>2. Count = 0
  BY DEF Count
<1>3. TypeOK
  <2>1. OwnImport \subseteq Import
    BY DEF OwnImport, Import
  <2>2. imports \in Seq(Import)
    BY <1>1, <2>1, SeqMonotonic
  <2>3. QED BY <1>1, <2>2 DEF TypeOK
<1>4. SlotsExact
  BY <1>1, TypeSlotsExact DEF SlotsExact
<1>5. ImportsInFront
  BY <1>1, <1>2 DEF ImportsInFront
<1>6. IndicesDistinct
  BY <1>2 DEF IndicesDistinct
<1>7. NamesDistinct
  BY <1>2 DEF NamesDistinct
<1>8. Shifted
  <2> DEFINE Space == IndexSpace(module.imports, module.defs)
  <2>1. module.exports \in Seq(Space) /\ module.table \in Seq(Space)
    BY <1>1, ModuleTyped
  <2>2. \A i \in Space : i \in Nat
    BY <1>1, AtTyped, ModuleTyped
  <2>3. module.start \in Space \cup {None}
    BY <1>1, ModuleTyped
  <2> HIDE DEF Space
  <2>4. \A k \in DOMAIN module.exports : module.exports[k] \in Nat
    BY <2>1, <2>2, LenProperties, ElementOfSeq
  <2>5. \A k \in DOMAIN module.table : module.table[k] \in Nat
    BY <2>1, <2>2, LenProperties, ElementOfSeq
  <2>6. exports = [k \in DOMAIN module.exports |-> module.exports[k] + Count]
    BY <1>2, <2>1, <2>4
  <2>7. table = [k \in DOMAIN module.table |-> module.table[k] + Count]
    BY <1>2, <2>1, <2>5
  <2>8. start = IF module.start = None THEN None ELSE module.start + Count
    BY <1>2, <2>2, <2>3
  <2>9. QED BY <2>6, <2>7, <2>8 DEF Shifted
<1>9. CodeInv
  BY <1>1, CodeTyped DEF CodeInv, Pending, OwnCall, Loaded
<1>10. QED BY <1>2, <1>3, <1>4, <1>5, <1>6, <1>7, <1>8, <1>9 DEF IInv, UtilInv, Started

(* The types of the lengths that the other lemmas reason about. *)
LEMMA Lengths ==
    ASSUME TypeOK
    PROVE  /\ Count \in Nat /\ Len(module.imports) \in Nat /\ Len(module.defs) \in Nat
           /\ Functions \in Nat /\ Len(types) \in Nat /\ Len(imports) \in Nat
           /\ module.imports \in Seq(OwnImport) /\ module.defs \in Seq(Def)
<1>1. module.imports \in Seq(OwnImport) /\ module.defs \in Seq(Def)
  BY ModuleTyped DEF TypeOK
<1>2. Len(module.imports) \in Nat /\ Len(module.defs) \in Nat
  BY <1>1, LenProperties
<1>3. Count \in Nat /\ Len(types) \in Nat /\ Len(imports) \in Nat
  BY LenProperties DEF TypeOK, Count
<1>4. Functions \in Nat
  <2>1. \A a, b \in Nat : a + b \in Nat
    OBVIOUS
  <2>2. QED BY <1>2, <2>1, Zenon DEF Functions
<1>5. QED BY <1>1, <1>2, <1>3, <1>4

(* add_type_slot finds the type or appends it; no type that was there      *)
(* moves, so the type indices given out before stay right.                 *)
LEMMA AddTypeSlotExact ==
    ASSUME TypeOK, SlotsExact, NEW t \in Type, AddTypeSlot(t)
    PROVE  /\ types' \in Seq(Type) /\ SlotsExact' /\ t \in DOMAIN type_slots'
           /\ Len(types) <= Len(types') /\ \A k \in 1..Len(types) : types'[k] = types[k]
<1>1. Len(types) \in Nat /\ types \in Seq(Type)
  BY Lengths DEF TypeOK
<1>2. CASE t \in DOMAIN type_slots
  BY <1>1, <1>2 DEF AddTypeSlot, SlotsExact
<1>3. CASE t \notin DOMAIN type_slots
  <2>1. types' = Append(types, t) /\ type_slots' = Emplace(type_slots, t, Len(types))
    BY <1>3 DEF AddTypeSlot
  <2>2. /\ types' \in Seq(Type) /\ Len(types') = Len(types) + 1 /\ types'[Len(types) + 1] = t
        /\ \A k \in 1..Len(types) : types'[k] = types[k]
    BY <1>1, <2>1, AppendProperties
  <2>3. DOMAIN type_slots' = DOMAIN type_slots \cup {t}
    BY <2>1 DEF Emplace
  <2>4. \A u \in DOMAIN type_slots : type_slots'[u] = type_slots[u]
    BY <2>1 DEF Emplace
  <2>5. type_slots'[t] = Len(types)
    BY <1>3, <2>1 DEF Emplace
  <2>6. ASSUME NEW u \in DOMAIN type_slots' PROVE type_slots'[u] \in 0..Len(types') - 1 /\ types'[type_slots'[u] + 1] = u
    <3>1. CASE u \in DOMAIN type_slots
      BY <1>1, <2>2, <2>4, <3>1 DEF SlotsExact
    <3>2. CASE u = t
      BY <1>1, <2>2, <2>5, <3>2
    <3>3. QED BY <2>3, <3>1, <3>2
  <2>7. QED BY <1>1, <2>2, <2>3, <2>6 DEF SlotsExact
<1>4. QED BY <1>2, <1>3

(* functions.imports.insert: what stood before the place stays, the rest   *)
(* moves up by one.                                                        *)
LEMMA InsertedProperties ==
    ASSUME NEW S, NEW s \in Seq(S), NEW e \in S, NEW p \in 1..Len(s) + 1
    PROVE  /\ Inserted(s, p, e) \in Seq(S)
           /\ Len(Inserted(s, p, e)) = Len(s) + 1
           /\ \A k \in 1..p - 1 : Inserted(s, p, e)[k] = s[k]
           /\ Inserted(s, p, e)[p] = e
           /\ \A k \in p..Len(s) : Inserted(s, p, e)[k + 1] = s[k]
<1> DEFINE n == Len(s)
           f == Inserted(s, p, e)
<1>1. n \in Nat
  BY LenProperties
<1>2. \A k \in 1..n : s[k] \in S
  BY ElementOfSeq
<1>3. f = [k \in 1..n + 1 |-> IF k < p THEN s[k] ELSE IF k = p THEN e ELSE s[k - 1]]
  BY DEF Inserted
<1> HIDE DEF n, f
<1>4. p \in 1..n + 1
  BY DEF n
<1>5. \A k \in 1..n + 1 : f[k] \in S
  BY <1>1, <1>2, <1>3, <1>4
<1>6. f \in [1..n + 1 -> S]
  BY <1>3, <1>5
<1>7. f \in Seq(S) /\ Len(f) = n + 1
  BY <1>1, <1>6
<1>8. (\A k \in 1..p - 1 : f[k] = s[k]) /\ f[p] = e /\ (\A k \in p..n : f[k + 1] = s[k])
  BY <1>1, <1>3, <1>4
<1>9. QED BY <1>7, <1>8 DEF n, f

(* add_import preserves UtilInv. The provisional index is new because      *)
(* every earlier import took two numbers of the range: one for itself in   *)
(* the imports, one for its entry in registered_injected. That keeps the   *)
(* indices calls carry apart from one another and from the module's own.   *)
LEMMA AddImportInv ==
    ASSUME TypeOK, UtilInv, NEW n \in Injected, AddImport(n), module' = module,
           \A k \in 1..Count : registered_injected[k].name # n
    PROVE  /\ types' \in Seq(Type) /\ imports' \in Seq(Import)
           /\ registered_injected' \in Seq(Registration)
           /\ Count' = Count + 1
           /\ \A k \in 1..Count : registered_injected'[k] = registered_injected[k]
           /\ registered_injected'[Count + 1].name = n
           /\ NextIndex = Provisional(Count + 1)
           /\ UtilInv'
<1> DEFINE c == Count
           own == Len(module.imports)
           new == [name |-> n, type |-> type_slots'[Sig[n]]]
           reg == [name |-> n, index |-> NextIndex]
<1>1. /\ c \in Nat /\ own \in Nat /\ Len(module.defs) \in Nat /\ Functions \in Nat
      /\ Len(imports) = c + own /\ c = Len(registered_injected)
  BY Lengths DEF UtilInv, ImportsInFront, Count
<1>2. NextIndex = Provisional(c + 1) /\ NextIndex \in Nat
  <2> DEFINE d == Len(module.defs)
  <2>1. NextIndex = (c + own) + d + c /\ Provisional(c + 1) = (own + d) + 2 * ((c + 1) - 1)
    BY <1>1, Zenon DEF NextIndex, Provisional, Functions
  <2>2. d \in Nat
    BY <1>1
  <2> HIDE DEF c, own, d
  <2>3. (c + own) + d + c = (own + d) + 2 * ((c + 1) - 1) /\ (c + own) + d + c \in Nat
    BY <1>1, <2>2
  <2>4. QED BY <2>1, <2>3, Zenon
<1>3. /\ types' \in Seq(Type) /\ SlotsExact' /\ Sig[n] \in DOMAIN type_slots'
      /\ Len(types) <= Len(types') /\ \A k \in 1..Len(types) : types'[k] = types[k]
  BY AddTypeSlotExact, InjectionAssumption DEF UtilInv, AddImport
<1>4. Len(types') \in Nat /\ Len(types) \in Nat
  BY <1>3, Lengths, LenProperties
<1>5. type_slots'[Sig[n]] \in 0..Len(types') - 1 /\ types'[type_slots'[Sig[n]] + 1] = Sig[n]
  BY <1>3 DEF SlotsExact
<1>6. new \in Import
  BY <1>4, <1>5 DEF Import
<1>7. reg \in Registration
  BY <1>2 DEF Registration
<1>8. registered_injected' = Append(registered_injected, reg) /\ imports' = Inserted(imports, c + 1, new)
  BY DEF AddImport, Count
<1>9. registered_injected \in Seq(Registration) /\ imports \in Seq(Import)
  BY DEF TypeOK
<1> HIDE DEF new, reg, c, own
<1>10. /\ registered_injected' \in Seq(Registration) /\ Len(registered_injected') = c + 1
       /\ \A k \in 1..c : registered_injected'[k] = registered_injected[k]
       /\ registered_injected'[c + 1] = reg
  BY <1>1, <1>7, <1>8, <1>9, AppendProperties
<1>11. Count' = c + 1
  BY <1>10 DEF Count
<1>12. c + 1 \in 1..Len(imports) + 1
  BY <1>1
<1>13. /\ imports' \in Seq(Import) /\ Len(imports') = c + 1 + own
       /\ \A k \in 1..c : imports'[k] = imports[k]
       /\ imports'[c + 1] = new
       /\ \A k \in c + 1..c + own : imports'[k + 1] = imports[k]
  <2> DEFINE s == Inserted(imports, c + 1, new)
  <2>1. /\ s \in Seq(Import) /\ Len(s) = Len(imports) + 1
        /\ \A k \in 1..(c + 1) - 1 : s[k] = imports[k]
        /\ s[c + 1] = new
        /\ \A k \in c + 1..Len(imports) : s[k + 1] = imports[k]
    <3> DEFINE p == c + 1
    <3>1. p \in 1..Len(imports) + 1 /\ imports \in Seq(Import) /\ new \in Import
      BY <1>6, <1>9, <1>12
    <3> HIDE DEF p
    <3>2. /\ Inserted(imports, p, new) \in Seq(Import) /\ Len(Inserted(imports, p, new)) = Len(imports) + 1
          /\ \A k \in 1..p - 1 : Inserted(imports, p, new)[k] = imports[k]
          /\ Inserted(imports, p, new)[p] = new
          /\ \A k \in p..Len(imports) : Inserted(imports, p, new)[k + 1] = imports[k]
      BY <3>1, InsertedProperties
    <3>3. QED BY <3>2, Zenon DEF p
  <2>2. imports' = s
    BY <1>8
  <2> HIDE DEF s
  <2>3. QED BY <1>1, <2>1, <2>2
<1>14. reg.name = n /\ reg.index = Provisional(c + 1) /\ new.name = n
       /\ new.type = type_slots'[Sig[n]]
  BY <1>2 DEF reg, new
<1>15. \A k : Provisional(k)' = Provisional(k)
  BY DEF Provisional, Functions
<1>16. ImportsInFront'
  <2>1. ASSUME NEW k \in 1..c + 1
        PROVE  /\ imports'[k].name = registered_injected'[k].name
               /\ imports'[k].type + 1 \in 1..Len(types')
               /\ types'[imports'[k].type + 1] = Sig[imports'[k].name]
    <3>1. CASE k \in 1..c
      <4>1. /\ imports[k].name = registered_injected[k].name
            /\ imports[k].type + 1 \in 1..Len(types)
            /\ types[imports[k].type + 1] = Sig[imports[k].name]
        BY <3>1 DEF UtilInv, ImportsInFront, c
      <4>2. imports'[k] = imports[k] /\ registered_injected'[k] = registered_injected[k]
        BY <3>1, <1>10, <1>13
      <4>3. QED BY <1>3, <1>4, <4>1, <4>2
    <3>2. CASE k = c + 1
      BY <1>4, <1>5, <1>10, <1>13, <1>14, <3>2
    <3>3. QED BY <1>1, <3>1, <3>2
  <2>2. ASSUME NEW k \in 1..own PROVE imports'[k + (c + 1)] = module.imports[k]
    <3>1. imports[k + c] = module.imports[k]
      BY DEF UtilInv, ImportsInFront, c, own
    <3>2. k + c \in c + 1..c + own /\ (k + c) + 1 = k + (c + 1)
      BY <1>1
    <3>3. QED BY <1>13, <3>1, <3>2
  <2>3. QED BY <1>11, <1>13, <2>1, <2>2 DEF ImportsInFront, own
<1>17. IndicesDistinct'
  <2>1. /\ \A k \in 1..c : registered_injected[k].index = Provisional(k)
        /\ DOMAIN injected_index_mapping = {Provisional(k) : k \in 1..c}
        /\ \A k \in 1..c : injected_index_mapping[Provisional(k)] = k - 1
        /\ next_injected_index = c
    BY DEF UtilInv, IndicesDistinct, c
  <2>2. injected_index_mapping' = Emplace(injected_index_mapping, Provisional(c + 1), c)
        /\ next_injected_index' = c + 1
    BY <1>2, <2>1 DEF AddImport
  <2>3. \A k \in 1..c : Provisional(k) # Provisional(c + 1)
    BY <1>1 DEF Provisional
  <2>4. Provisional(c + 1) \notin DOMAIN injected_index_mapping
    BY <2>1, <2>3
  <2>5. DOMAIN injected_index_mapping' = {Provisional(k) : k \in 1..c} \cup {Provisional(c + 1)}
    BY <2>1, <2>2 DEF Emplace
  <2>6. DOMAIN injected_index_mapping' = {Provisional(k) : k \in 1..c + 1}
    <3>1. 1..c + 1 = 1..c \cup {c + 1}
      BY <1>1
    <3>2. QED BY <2>5, <3>1
  <2>7. ASSUME NEW k \in 1..c + 1
        PROVE  registered_injected'[k].index = Provisional(k) /\ injected_index_mapping'[Provisional(k)] = k - 1
    <3>1. CASE k \in 1..c
      <4>1. Provisional(k) \in DOMAIN injected_index_mapping
        BY <2>1, <3>1
      <4>2. injected_index_mapping'[Provisional(k)] = injected_index_mapping[Provisional(k)]
        BY <2>2, <4>1 DEF Emplace
      <4>3. QED BY <1>10, <2>1, <3>1, <4>2
    <3>2. CASE k = c + 1
      <4>1. injected_index_mapping'[Provisional(c + 1)] = c
        BY <2>2, <2>4 DEF Emplace
      <4>2. QED BY <1>1, <1>10, <1>14, <3>2, <4>1
    <3>3. QED BY <1>1, <3>1, <3>2
  <2>8. QED BY <1>11, <1>15, <2>2, <2>6, <2>7 DEF IndicesDistinct
<1>18. NamesDistinct'
  <2>1. \A j, k \in 1..c : registered_injected[j].name = registered_injected[k].name => j = k
    BY DEF UtilInv, NamesDistinct, c
  <2>2. \A k \in 1..c : registered_injected[k].name # n
    BY DEF c
  <2>3. \A j, k \in 1..c + 1 : registered_injected'[j].name = registered_injected'[k].name => j = k
    BY <1>1, <1>10, <1>14, <2>1, <2>2
  <2>4. QED BY <1>11, <2>3 DEF NamesDistinct
<1>19. Shifted'
  <2> DEFINE Space == IndexSpace(module.imports, module.defs)
  <2>1. module \in Module
    BY DEF TypeOK
  <2>2. module.exports \in Seq(Space) /\ module.table \in Seq(Space) /\ module.start \in Space \cup {None}
    BY <2>1, ModuleTyped
  <2>3. \A i \in Space : i \in Nat
    BY <2>1, AtTyped, ModuleTyped
  <2> HIDE DEF Space
  <2>4. \A k \in DOMAIN module.exports : module.exports[k] \in Nat
    BY <2>2, <2>3, LenProperties, ElementOfSeq
  <2>5. \A k \in DOMAIN module.table : module.table[k] \in Nat
    BY <2>2, <2>3, LenProperties, ElementOfSeq
  <2>6. /\ exports = [k \in DOMAIN module.exports |-> module.exports[k] + c]
        /\ table = [k \in DOMAIN module.table |-> module.table[k] + c]
        /\ start = IF module.start = None THEN None ELSE module.start + c
    BY DEF UtilInv, Shifted, c
  <2>7. exports' = Shift(exports) /\ table' = Shift(table)
        /\ start' = IF start = None THEN None ELSE start + 1
    BY DEF AddImport
  <2>8. exports' = [k \in DOMAIN module.exports |-> module.exports[k] + (c + 1)]
    <3>1. \A k \in DOMAIN module.exports : (module.exports[k] + c) + 1 = module.exports[k] + (c + 1)
      <4>1. \A x \in Nat : (x + c) + 1 = x + (c + 1)
        BY <1>1
      <4>2. QED BY <2>4, <4>1, Zenon
    <3>2. exports' = [k \in DOMAIN module.exports |-> (module.exports[k] + c) + 1]
      BY <2>6, <2>7 DEF Shift
    <3>3. QED BY <3>1, <3>2
  <2>9. table' = [k \in DOMAIN module.table |-> module.table[k] + (c + 1)]
    <3>1. \A k \in DOMAIN module.table : (module.table[k] + c) + 1 = module.table[k] + (c + 1)
      <4>1. \A x \in Nat : (x + c) + 1 = x + (c + 1)
        BY <1>1
      <4>2. QED BY <2>5, <4>1, Zenon
    <3>2. table' = [k \in DOMAIN module.table |-> (module.table[k] + c) + 1]
      BY <2>6, <2>7 DEF Shift
    <3>3. QED BY <3>1, <3>2
  <2>10. start' = IF module.start = None THEN None ELSE module.start + (c + 1)
    <3>1. None \notin Nat
      BY InjectionAssumption
    <3>2. CASE module.start = None
      BY <2>6, <2>7, <3>2
    <3>3. CASE module.start # None
      <4>1. module.start \in Nat
        BY <2>2, <2>3, <3>3
      <4>2. start = module.start + c /\ start \in Nat
        BY <1>1, <2>6, <3>3, <4>1
      <4>3. start' = start + 1
        BY <2>7, <3>1, <4>2
      <4>4. QED BY <1>1, <3>3, <4>1, <4>2, <4>3
    <3>4. QED BY <3>2, <3>3
  <2>11. QED BY <1>11, <2>8, <2>9, <2>10 DEF Shifted
<1>20. QED BY <1>2, <1>3, <1>10, <1>11, <1>13, <1>14, <1>16, <1>17, <1>18, <1>19 DEF UtilInv, c
(* A function of the module is found at its index moved up by the imports  *)
(* in front.                                                               *)
LEMMA ShiftedTarget ==
    ASSUME TypeOK, UtilInv, NEW i \in IndexSpace(module.imports, module.defs)
    PROVE  i \in Nat /\ i < Functions /\ Now(i + Count) = Loaded(i)
<1> DEFINE c == Count
           own == Len(module.imports)
           d == Len(module.defs)
<1>1. c \in Nat /\ own \in Nat /\ d \in Nat /\ Len(imports) = c + own /\ Functions = own + d
  BY Lengths DEF UtilInv, ImportsInFront, Functions
<1>2. \A k \in 1..own : imports[k + c] = module.imports[k]
  BY DEF UtilInv, ImportsInFront
<1>3. i \in 0..own + d - 1
  BY DEF IndexSpace
<1>4. Now(i + c) = IF i + c < c + own THEN imports[(i + c) + 1].name ELSE module.defs[(i + c) - (c + own) + 1]
  BY <1>1, Zenon DEF Now, At
<1>5. Loaded(i) = IF i < own THEN module.imports[i + 1].name ELSE module.defs[i - own + 1]
  BY Zenon DEF Loaded, At
<1> HIDE DEF c, own, d
<1>6. CASE i < own
  <2>1. i + 1 \in 1..own /\ (i + c) + 1 = (i + 1) + c /\ i + c < c + own
    BY <1>1, <1>3, <1>6
  <2>2. imports[(i + c) + 1] = module.imports[i + 1]
    BY <1>2, <2>1
  <2>3. QED BY <1>1, <1>3, <1>4, <1>5, <1>6, <2>1, <2>2 DEF c
<1>7. CASE ~(i < own)
  <2>1. ~(i + c < c + own) /\ (i + c) - (c + own) + 1 = i - own + 1
    BY <1>1, <1>3, <1>7
  <2>2. QED BY <1>1, <1>3, <1>4, <1>5, <1>7, <2>1 DEF c
<1>8. QED BY <1>6, <1>7

(* fix_call_index turns the call of a pending operator into one that       *)
(* reaches its function: an index of the module is never a key of          *)
(* injected_index_mapping, a provisional one always is.                    *)
LEMMA FixedCall ==
    ASSUME TypeOK, UtilInv, NEW o \in Operator, OwnCall(o) \/ InjectedCall(o)
    PROVE  fix_call_index(o.field) \in Nat /\ Now(fix_call_index(o.field)) = o.callee
<1>1. Count \in Nat /\ Functions \in Nat /\ Len(module.imports) \in Nat
  BY Lengths
<1>2. /\ DOMAIN injected_index_mapping = {Provisional(k) : k \in 1..Count}
      /\ \A k \in 1..Count : injected_index_mapping[Provisional(k)] = k - 1
  BY DEF UtilInv, IndicesDistinct
<1>3. \A k \in 1..Count : Provisional(k) >= Functions
  BY <1>1 DEF Provisional
<1>4. CASE OwnCall(o)
  <2>1. o.field \in IndexSpace(module.imports, module.defs) /\ o.callee = Loaded(o.field)
    BY <1>4 DEF OwnCall
  <2>2. o.field \in Nat /\ o.field < Functions /\ Now(o.field + Count) = Loaded(o.field)
    BY <2>1, ShiftedTarget
  <2>3. o.field \notin DOMAIN injected_index_mapping
    BY <1>1, <1>2, <1>3, <2>2
  <2>4. fix_call_index(o.field) = o.field + Count
    BY <2>3 DEF fix_call_index, Count
  <2>5. QED BY <1>1, <2>1, <2>2, <2>4
<1>5. CASE InjectedCall(o)
  <2>1. PICK k \in 1..Count : o.field = Provisional(k) /\ o.callee = registered_injected[k].name
    BY <1>5 DEF InjectedCall
  <2>2. o.field \in DOMAIN injected_index_mapping /\ injected_index_mapping[o.field] = k - 1
    BY <1>2, <2>1
  <2>3. fix_call_index(o.field) = k - 1
    BY <2>2 DEF fix_call_index
  <2>4. Len(imports) = Count + Len(module.imports) /\ imports[k].name = registered_injected[k].name
    BY DEF UtilInv, ImportsInFront
  <2>5. k - 1 < Len(imports) /\ (k - 1) + 1 = k /\ k - 1 \in Nat
    BY <1>1, <2>4
  <2>6. Now(k - 1) = imports[k].name
    BY <2>5 DEF Now, At
  <2>7. QED BY <2>1, <2>3, <2>4, <2>5, <2>6
<1>6. QED BY <1>4, <1>5

(* A call that waits for the last pass keeps its meaning when an import is *)
(* added: the names registered earlier stay where they are.                *)
LEMMA PendingKept ==
    ASSUME module' = module, Count \in Nat, Count' \in Nat, Count <= Count',
           \A k \in 1..Count : registered_injected'[k] = registered_injected[k],
           NEW o, Pending(o)
    PROVE  Pending(o)'
<1>1. CASE OwnCall(o)
  BY <1>1 DEF Pending, OwnCall, Loaded
<1>2. CASE InjectedCall(o)
  <2>1. PICK k \in 1..Count : o.op = "call" /\ o.field = Provisional(k) /\ o.callee = registered_injected[k].name
    BY <1>2 DEF InjectedCall
  <2>2. k \in 1..Count' /\ Provisional(k)' = Provisional(k) /\ registered_injected'[k] = registered_injected[k]
    BY DEF Provisional, Functions
  <2>3. InjectedCall(o)'
    BY <2>1, <2>2 DEF InjectedCall
  <2>4. QED BY <2>3 DEF Pending
<1>3. CASE o.op = "other"
  BY <1>3 DEF Pending
<1>4. QED BY <1>1, <1>2, <1>3 DEF Pending

(* A step that leaves injector_utils alone preserves UtilInv and what is   *)
(* known of the operators.                                                 *)
LEMMA UtilUnchanged ==
    ASSUME TypeOK, UtilInv, UNCHANGED <<module, utilVars>>
    PROVE  /\ UtilInv' /\ Count' = Count
           /\ \A o : Pending(o) => Pending(o)'
           /\ \A o : FinalCall(o) => FinalCall(o)'
<1>1. Count' = Count /\ Count \in Nat
  BY Lengths DEF Count, utilVars
<1>2. UtilInv'
  <2>1. SlotsExact' /\ NamesDistinct' /\ Shifted'
    BY <1>1 DEF UtilInv, SlotsExact, NamesDistinct, Shifted, utilVars
  <2>2. ImportsInFront'
    BY <1>1 DEF UtilInv, ImportsInFront, utilVars
  <2>3. IndicesDistinct'
    BY <1>1 DEF UtilInv, IndicesDistinct, Provisional, Functions, utilVars
  <2>4. QED BY <2>1, <2>2, <2>3 DEF UtilInv
<1>3. \A o : Pending(o) => Pending(o)'
  BY <1>1, PendingKept DEF utilVars
<1>4. \A o : FinalCall(o) => FinalCall(o)'
  BY DEF FinalCall, Now, At, utilVars
<1>5. QED BY <1>1, <1>2, <1>3, <1>4

(* What a pass reads and writes: the tail of a sequence and a              *)
(* concatenation hold no operator of their own.                            *)
LEMMA WrittenElements ==
    ASSUME NEW s \in Seq(Operator), s # <<>>, NEW w \in Seq(Operator), NEW ops \in Seq(Operator)
    PROVE  /\ Head(s) \in Operator /\ 1 \in 1..Len(s) /\ Head(s) = s[1]
           /\ Tail(s) \in Seq(Operator) /\ w \o ops \in Seq(Operator)
           /\ \A k \in 1..Len(Tail(s)) : \E j \in 1..Len(s) : Tail(s)[k] = s[j]
           /\ \A k \in 1..Len(w \o ops) :
                 \/ \E j \in 1..Len(w) : (w \o ops)[k] = w[j]
                 \/ \E j \in 1..Len(ops) : (w \o ops)[k] = ops[j]
<1>1. Len(s) \in Nat /\ Len(w) \in Nat /\ Len(ops) \in Nat /\ Len(s) # 0
  BY LenProperties, EmptySeq
<1>2. Head(s) \in Operator /\ 1 \in 1..Len(s) /\ Head(s) = s[1]
  BY <1>1, HeadTailProperties, ElementOfSeq
<1>3. /\ Tail(s) \in Seq(Operator) /\ Len(Tail(s)) = Len(s) - 1
      /\ \A k \in 1..Len(Tail(s)) : Tail(s)[k] = s[k + 1]
  BY HeadTailProperties
<1>4. \A k \in 1..Len(Tail(s)) : k + 1 \in 1..Len(s) /\ Tail(s)[k] = s[k + 1]
  BY <1>1, <1>3
<1>5. /\ w \o ops \in Seq(Operator) /\ Len(w \o ops) = Len(w) + Len(ops)
      /\ \A k \in 1..Len(w) + Len(ops) :
            (w \o ops)[k] = IF k <= Len(w) THEN w[k] ELSE ops[k - Len(w)]
  BY ConcatProperties
<1>6. ASSUME NEW k \in 1..Len(w \o ops)
      PROVE  \/ \E j \in 1..Len(w) : (w \o ops)[k] = w[j]
             \/ \E j \in 1..Len(ops) : (w \o ops)[k] = ops[j]
  <2>1. CASE k <= Len(w)
    BY <1>1, <1>5, <2>1
  <2>2. CASE ~(k <= Len(w))
    <3>1. k - Len(w) \in 1..Len(ops)
      BY <1>1, <1>5, <2>2
    <3>2. (w \o ops)[k] = ops[k - Len(w)]
      BY <1>5, <2>2
    <3>3. QED BY <3>1, <3>2
  <2>3. QED BY <2>1, <2>2
<1>7. QED BY <1>2, <1>3, <1>4, <1>5, <1>6
(* The same of the step Write of a pass.                                   *)
LEMMA WriteElements ==
    ASSUME TypeOK, code # <<>>, NEW ops \in Seq(Operator), Write(ops)
    PROVE  /\ code' \in Seq(Operator) /\ out' \in Seq(Operator) /\ pass' = pass /\ module' = module
           /\ \A k \in 1..Len(code') : \E j \in 1..Len(code) : code'[k] = code[j]
           /\ \A k \in 1..Len(out') :
                 \/ \E j \in 1..Len(out) : out'[k] = out[j]
                 \/ \E j \in 1..Len(ops) : out'[k] = ops[j]
<1>1. code \in Seq(Operator) /\ out \in Seq(Operator)
  BY DEF TypeOK
<1>2. code' = Tail(code) /\ out' = out \o ops /\ pass' = pass /\ module' = module
  BY DEF Write
<1>3. QED BY <1>1, <1>2, WrittenElements

(* The operator a pass reads next is one of the code.                      *)
LEMMA HeadOfCode ==
    ASSUME TypeOK, code # <<>>
    PROVE  Head(code) \in Operator /\ 1 \in 1..Len(code) /\ Head(code) = code[1]
BY WrittenElements DEF TypeOK

(* use_gas is injected first, into a module without injected imports.      *)
LEMMA InjectUseGasInv ==
    ASSUME IInv, InjectUseGas
    PROVE  IInv'
<1>1. TypeOK /\ UtilInv /\ Started /\ CodeInv /\ Count \in Nat
  BY Lengths DEF IInv
<1>2. AddImport(UseGas) /\ UseGas \in Injected /\ pass = "init" /\ pass' = "usegas"
      /\ module' = module /\ code' = code /\ out' = out
  BY InjectionAssumption DEF InjectUseGas
<1>3. Count = 0
  BY <1>1, <1>2 DEF Started
<1>4. \A k \in 1..Count : registered_injected[k].name # UseGas
  BY <1>3
<1>5. /\ types' \in Seq(Type) /\ imports' \in Seq(Import) /\ registered_injected' \in Seq(Registration)
      /\ Count' = Count + 1 /\ UtilInv' /\ registered_injected'[Count + 1].name = UseGas
      /\ \A k \in 1..Count : registered_injected'[k] = registered_injected[k]
  BY <1>1, <1>2, <1>4, AddImportInv
<1>6. TypeOK' /\ Started'
  BY <1>1, <1>2, <1>3, <1>5 DEF TypeOK, Started
<1>7. \A o : Pending(o) => Pending(o)'
  BY <1>1, <1>2, <1>5, PendingKept
<1>8. (\A k \in 1..Len(code) : Pending(code[k]) \/ IsFloat(code[k])) /\ out = <<>>
  BY <1>1, <1>2 DEF CodeInv
<1>9. CodeInv'
  BY <1>2, <1>7, <1>8 DEF CodeInv, IsFloat
<1>10. QED BY <1>5, <1>6, <1>9 DEF IInv

(* The gas pass writes calls of use_gas with the index of the first        *)
(* registration.                                                           *)
LEMMA UseGasOpInv ==
    ASSUME IInv, UseGasOp
    PROVE  IInv'
<1> DEFINE gas == Call(registered_injected[1].index, UseGas)
           Fine(o) == Pending(o) \/ IsFloat(o)
<1>1. TypeOK /\ UtilInv /\ Started /\ CodeInv /\ Count \in Nat
  BY Lengths DEF IInv
<1>2. pass = "usegas" /\ pass' = pass /\ code # <<>> /\ UNCHANGED <<module, utilVars>>
  BY DEF UseGasOp, Write
<1>3. 1 \in 1..Count /\ registered_injected[1].name = UseGas
  BY <1>1, <1>2 DEF Started
<1>4. gas \in Operator /\ Pending(gas)
  <2>1. registered_injected[1] \in Registration
    BY <1>1, <1>3, ElementOfSeq DEF TypeOK, Count
  <2>2. registered_injected[1].index \in Nat /\ registered_injected[1].index = Provisional(1)
    BY <1>1, <1>3, <2>1 DEF Registration, UtilInv, IndicesDistinct
  <2>3. gas \in Operator
    BY <2>2, InjectionAssumption DEF Call, Operator
  <2>4. InjectedCall(gas)
    BY <1>3, <2>2 DEF InjectedCall, Call
  <2>5. QED BY <2>3, <2>4 DEF Pending
<1>5. Head(code) \in Operator /\ Fine(Head(code))
  BY <1>1, <1>2, HeadOfCode DEF CodeInv
<1>6. (\A k \in 1..Len(code) : Fine(code[k])) /\ (\A k \in 1..Len(out) : Fine(out[k]))
  BY <1>1, <1>2 DEF CodeInv
<1>7. \A o : Fine(o) => Fine(o)'
  BY <1>1, <1>2, UtilUnchanged DEF IsFloat
<1> HIDE DEF gas, Fine
<1>8. PICK ops \in {<<Head(code)>>, <<gas, Head(code)>>} : Write(ops)
  BY DEF UseGasOp, gas
<1>9. ops \in Seq(Operator) /\ \A j \in 1..Len(ops) : Fine(ops[j])
  <2>1. Fine(gas)
    BY <1>4 DEF Fine
  <2>2. CASE ops = <<Head(code)>>
    BY <1>5, <2>2
  <2>3. CASE ops = <<gas, Head(code)>>
    BY <1>4, <1>5, <2>1, <2>3
  <2>4. QED BY <1>8, <2>2, <2>3
<1>10. /\ code' \in Seq(Operator) /\ out' \in Seq(Operator)
       /\ \A k \in 1..Len(code') : Fine(code'[k])
       /\ \A k \in 1..Len(out') : Fine(out'[k])
  BY <1>1, <1>2, <1>6, <1>8, <1>9, WriteElements
<1>11. TypeOK' /\ Started'
  BY <1>1, <1>2, <1>10, UtilUnchanged DEF TypeOK, Started, utilVars
<1>12. CodeInv'
  <2>1. (\A k \in 1..Len(code) : Fine(code[k]))' /\ (\A k \in 1..Len(out) : Fine(out[k]))'
    BY <1>7, <1>10
  <2>2. QED BY <1>2, <2>1 DEF CodeInv, Fine
<1>13. QED BY <1>1, <1>2, <1>11, <1>12, UtilUnchanged DEF IInv
(* The pre pass replaces a float operator by a call of a new import. The   *)
(* import list is not empty here, since use_gas is in it, so the condition *)
(* of add_import says that the name is not registered.                     *)
LEMMA InjectFloatInv ==
    ASSUME IInv, InjectFloat
    PROVE  IInv'
<1> DEFINE n == Head(code).callee
           call == Call(NextIndex, n)
           Fine(o) == Pending(o) \/ IsFloat(o)
<1>1. TypeOK /\ UtilInv /\ Started /\ CodeInv /\ Count \in Nat /\ Len(module.imports) \in Nat
  BY Lengths DEF IInv
<1>2. pass = "pre" /\ code # <<>> /\ Head(code).op = "float" /\ Unregistered(n)
      /\ AddImport(n) /\ Write(<<call>>)
  BY DEF InjectFloat
<1>3. pass' = pass /\ module' = module
  BY <1>2 DEF Write
<1>4. (\A k \in 1..Len(code) : Fine(code[k])) /\ (\A k \in 1..Len(out) : Pending(out[k]))
  BY <1>1, <1>2 DEF CodeInv
<1>5. n \in Injected
  BY <1>1, <1>2, <1>4, HeadOfCode DEF Pending, OwnCall, InjectedCall, IsFloat
<1>6. Count # 0 /\ registered_injected[1].name = UseGas
  BY <1>1, <1>2 DEF Started
<1>7. \A k \in 1..Count : registered_injected[k].name # n
  <2>1. imports # <<>>
    <3>1. Len(imports) = Count + Len(module.imports)
      BY <1>1 DEF UtilInv, ImportsInFront
    <3>2. Len(imports) # 0
      BY <1>1, <1>6, <3>1
    <3>3. QED BY <3>2
  <2>2. DOMAIN registered_injected = 1..Count
    BY <1>1, LenProperties DEF TypeOK, Count
  <2>3. QED BY <1>2, <2>1, <2>2 DEF Unregistered
<1>8. /\ types' \in Seq(Type) /\ imports' \in Seq(Import) /\ registered_injected' \in Seq(Registration)
      /\ Count' = Count + 1 /\ UtilInv' /\ registered_injected'[Count + 1].name = n
      /\ \A k \in 1..Count : registered_injected'[k] = registered_injected[k]
      /\ NextIndex = Provisional(Count + 1)
  BY <1>1, <1>2, <1>3, <1>5, <1>7, AddImportInv
<1>9. \A o : Pending(o) => Pending(o)'
  BY <1>1, <1>3, <1>8, PendingKept
<1>10. call \in Operator
  <2>1. Functions \in Nat
    BY <1>1, Lengths
  <2>2. NextIndex \in Nat
    BY <1>1, <1>8, <2>1 DEF Provisional
  <2>3. QED BY <1>5, <2>2 DEF Call, Operator
<1>11. ASSUME NEW o, o = call PROVE Pending(o)'
  <2>1. o.op = "call" /\ o.field = Provisional(Count + 1) /\ o.callee = n
    BY <1>8, <1>11 DEF Call
  <2>2. \A k : Provisional(k)' = Provisional(k)
    BY <1>3 DEF Provisional, Functions
  <2> DEFINE k == Count + 1
  <2>3. k \in 1..Count' /\ o.field = Provisional(k) /\ o.callee = registered_injected'[k].name
    BY <1>1, <1>8, <2>1
  <2> HIDE DEF k
  <2>4. InjectedCall(o)'
    BY <2>1, <2>2, <2>3 DEF InjectedCall
  <2>5. QED BY <2>4 DEF Pending
<1> HIDE DEF call, n, Fine
<1>12. <<call>> \in Seq(Operator) /\ \A j \in 1..Len(<<call>>) : <<call>>[j] = call
  BY <1>10
<1>13. /\ code' \in Seq(Operator) /\ out' \in Seq(Operator)
       /\ \A k \in 1..Len(code') : Fine(code'[k])
       /\ \A k \in 1..Len(out') : Pending(out'[k]) \/ out'[k] = call
  BY <1>1, <1>2, <1>4, <1>12, WriteElements
<1>14. TypeOK' /\ Started'
  <2>1. registered_injected'[1].name = UseGas
    BY <1>1, <1>6, <1>8
  <2>2. QED BY <1>1, <1>2, <1>3, <1>8, <1>13, <2>1 DEF TypeOK, Started
<1>15. CodeInv'
  <2>1. (\A k \in 1..Len(code) : Pending(code[k]) \/ IsFloat(code[k]))'
    BY <1>9, <1>13 DEF Fine, IsFloat
  <2>2. (\A k \in 1..Len(out) : Pending(out[k]))'
    BY <1>9, <1>11, <1>13
  <2>3. QED BY <1>2, <1>3, <2>1, <2>2 DEF CodeInv
<1>16. QED BY <1>8, <1>14, <1>15 DEF IInv

(* A step of the pre pass that adds no import. *)
LEMMA PreWriteInv ==
    ASSUME IInv, pass = "pre", code # <<>>, NEW o \in Operator, Pending(o), Write(<<o>>), UNCHANGED utilVars
    PROVE  IInv'
<1> DEFINE Fine(x) == Pending(x) \/ IsFloat(x)
<1>1. TypeOK /\ UtilInv /\ Started /\ CodeInv
  BY DEF IInv
<1>2. pass' = pass /\ UNCHANGED <<module, utilVars>>
  BY DEF Write
<1>3. (\A k \in 1..Len(code) : Fine(code[k])) /\ (\A k \in 1..Len(out) : Pending(out[k]))
  BY <1>1 DEF CodeInv
<1>4. UtilInv' /\ Count' = Count /\ \A x : Pending(x) => Pending(x)'
  BY <1>1, <1>2, UtilUnchanged
<1>5. <<o>> \in Seq(Operator) /\ \A j \in 1..Len(<<o>>) : <<o>>[j] = o
  OBVIOUS
<1> HIDE DEF Fine
<1>6. /\ code' \in Seq(Operator) /\ out' \in Seq(Operator)
      /\ \A k \in 1..Len(code') : Fine(code'[k])
      /\ \A k \in 1..Len(out') : Pending(out'[k])
  BY <1>1, <1>3, <1>5, WriteElements
<1>7. TypeOK' /\ Started'
  BY <1>1, <1>2, <1>4, <1>6 DEF TypeOK, Started, utilVars
<1>8. CodeInv'
  <2>1. (\A k \in 1..Len(code) : Pending(code[k]) \/ IsFloat(code[k]))'
    BY <1>4, <1>6 DEF Fine, IsFloat
  <2>2. (\A k \in 1..Len(out) : Pending(out[k]))'
    BY <1>4, <1>6
  <2>3. QED BY <1>2, <2>1, <2>2 DEF CodeInv
<1>9. QED BY <1>4, <1>7, <1>8 DEF IInv

(* A float operator whose intrinsic is imported already.                   *)
LEMMA InjectFloatAgainInv ==
    ASSUME IInv, InjectFloatAgain
    PROVE  IInv'
<1>1. TypeOK /\ UtilInv
  BY DEF IInv
<1>2. PICK k \in DOMAIN registered_injected :
         /\ registered_injected[k].name = Head(code).callee
         /\ Write(<<Call(registered_injected[k].index, Head(code).callee)>>)
  BY DEF InjectFloatAgain
<1> DEFINE o == Call(registered_injected[k].index, Head(code).callee)
<1>3. k \in 1..Count
  BY <1>1, LenProperties DEF TypeOK, Count
<1>4. registered_injected[k] \in Registration
  BY <1>1, <1>3, ElementOfSeq DEF TypeOK, Count
<1>5. registered_injected[k].index \in Nat /\ registered_injected[k].index = Provisional(k)
      /\ registered_injected[k].name \in Injected
  BY <1>1, <1>3, <1>4 DEF Registration, UtilInv, IndicesDistinct
<1>6. o \in Operator
  BY <1>2, <1>5 DEF Call, Operator
<1>7. Pending(o)
  BY <1>2, <1>3, <1>5 DEF Pending, InjectedCall, Call
<1>8. pass = "pre" /\ code # <<>> /\ Write(<<o>>) /\ UNCHANGED utilVars
  BY <1>2 DEF InjectFloatAgain
<1> HIDE DEF o
<1>9. QED BY <1>6, <1>7, <1>8, PreWriteInv

(* Every other operator of the pre pass.                                   *)
LEMMA PreOpInv ==
    ASSUME IInv, PreOp
    PROVE  IInv'
<1>1. pass = "pre" /\ code # <<>> /\ Head(code).op # "float" /\ Write(<<Head(code)>>) /\ UNCHANGED utilVars
  BY DEF PreOp
<1>2. Head(code) \in Operator /\ (Pending(Head(code)) \/ IsFloat(Head(code)))
  BY <1>1, HeadOfCode DEF IInv, CodeInv
<1>3. Pending(Head(code))
  BY <1>1, <1>2 DEF IsFloat
<1>4. QED BY <1>1, <1>2, <1>3, PreWriteInv

(* The last pass fixes the calls.                                          *)
LEMMA PostOpInv ==
    ASSUME IInv, PostOp
    PROVE  IInv'
<1> DEFINE h == Head(code)
           o == IF h.op = "call" THEN Call(fix_call_index(h.field), h.callee) ELSE h
           Final(x) == x.op # "float" /\ FinalCall(x)
<1>1. TypeOK /\ UtilInv /\ Started /\ CodeInv
  BY DEF IInv
<1>2. pass = "post" /\ code # <<>> /\ Write(<<o>>) /\ pass' = pass /\ UNCHANGED <<module, utilVars>>
  BY DEF PostOp, Write
<1>3. (\A k \in 1..Len(code) : Pending(code[k])) /\ (\A k \in 1..Len(out) : Final(out[k]))
  BY <1>1, <1>2 DEF CodeInv
<1>4. h \in Operator /\ Pending(h)
  BY <1>1, <1>2, <1>3, HeadOfCode
<1> HIDE DEF h
<1>5. o \in Operator /\ Final(o)
  <2>1. CASE h.op = "call"
    <3>1. OwnCall(h) \/ InjectedCall(h)
      BY <1>4, <2>1 DEF Pending
    <3>2. fix_call_index(h.field) \in Nat /\ Now(fix_call_index(h.field)) = h.callee
      BY <1>1, <1>4, <3>1, FixedCall
    <3>3. o.op = "call" /\ o.field = fix_call_index(h.field) /\ o.callee = h.callee
      BY <2>1 DEF Call
    <3>4. o \in Operator
      BY <1>4, <2>1, <3>2 DEF Call, Operator
    <3>5. QED BY <3>2, <3>3, <3>4 DEF FinalCall
  <2>2. CASE h.op # "call"
    <3>1. h.op = "other"
      BY <1>4, <2>2 DEF Pending, OwnCall, InjectedCall
    <3>2. QED BY <1>4, <2>2, <3>1 DEF FinalCall
  <2>3. QED BY <2>1, <2>2
<1>6. UtilInv' /\ Count' = Count /\ (\A x : Pending(x) => Pending(x)') /\ (\A x : Final(x) => Final(x)')
  BY <1>1, <1>2, UtilUnchanged
<1> HIDE DEF o, Final
<1>7. <<o>> \in Seq(Operator) /\ \A j \in 1..Len(<<o>>) : <<o>>[j] = o
  BY <1>5
<1>8. /\ code' \in Seq(Operator) /\ out' \in Seq(Operator)
      /\ \A k \in 1..Len(code') : Pending(code'[k])
      /\ \A k \in 1..Len(out') : Final(out'[k])
  BY <1>1, <1>2, <1>3, <1>5, <1>7, WriteElements
<1>9. TypeOK' /\ Started'
  BY <1>1, <1>2, <1>6, <1>8 DEF TypeOK, Started, utilVars
<1>10. CodeInv'
  <2>1. (\A k \in 1..Len(code) : Pending(code[k]))' /\ (\A k \in 1..Len(out) : Final(out[k]))'
    BY <1>6, <1>8
  <2>2. QED BY <1>2, <2>1 DEF CodeInv, Final
<1>11. QED BY <1>6, <1>9, <1>10 DEF IInv

(* A pass reads what the pass before it wrote.                             *)
LEMMA NextPassInv ==
    ASSUME IInv, NextPass
    PROVE  IInv'
<1>1. TypeOK /\ UtilInv /\ Started /\ CodeInv
  BY DEF IInv
<1>2. UNCHANGED <<module, utilVars>> /\ code = <<>>
  BY DEF NextPass
<1>3. UtilInv' /\ Count' = Count
      /\ (\A x : Pending(x) => Pending(x)') /\ (\A x : FinalCall(x) => FinalCall(x)')
  BY <1>1, <1>2, UtilUnchanged
<1>4. CASE pass = "usegas"
  <2>1. pass' = "pre" /\ code' = out /\ out' = <<>>
    BY <1>4 DEF NextPass
  <2>2. \A k \in 1..Len(out) : Pending(out[k]) \/ IsFloat(out[k])
    BY <1>1, <1>4 DEF CodeInv
  <2>3. TypeOK' /\ Started'
    BY <1>1, <1>2, <1>3, <1>4, <2>1 DEF TypeOK, Started, utilVars
  <2>4. CodeInv'
    BY <1>3, <2>1, <2>2 DEF CodeInv, IsFloat
  <2>5. QED BY <1>3, <2>3, <2>4 DEF IInv
<1>5. CASE pass = "pre"
  <2>1. pass' = "post" /\ code' = out /\ out' = <<>>
    BY <1>5 DEF NextPass
  <2>2. \A k \in 1..Len(out) : Pending(out[k])
    BY <1>1, <1>5 DEF CodeInv
  <2>3. TypeOK' /\ Started'
    BY <1>1, <1>2, <1>3, <1>5, <2>1 DEF TypeOK, Started, utilVars
  <2>4. CodeInv'
    BY <1>3, <2>1, <2>2 DEF CodeInv
  <2>5. QED BY <1>3, <2>3, <2>4 DEF IInv
<1>6. CASE pass = "post"
  <2>1. pass' = "done" /\ code' = <<>> /\ out' = out
    BY <1>6 DEF NextPass
  <2>2. \A k \in 1..Len(out) : out[k].op # "float" /\ FinalCall(out[k])
    BY <1>1, <1>6 DEF CodeInv
  <2>3. TypeOK' /\ Started'
    BY <1>1, <1>2, <1>3, <1>6, <2>1 DEF TypeOK, Started, utilVars
  <2>4. CodeInv'
    BY <1>3, <2>1, <2>2 DEF CodeInv
  <2>5. QED BY <1>3, <2>3, <2>4 DEF IInv
<1>7. QED BY <1>4, <1>5, <1>6 DEF NextPass

(* A step that changes nothing.                                            *)
LEMMA StutterInv ==
    ASSUME IInv, UNCHANGED vars
    PROVE  IInv'
<1>1. TypeOK /\ UtilInv /\ Started /\ CodeInv
  BY DEF IInv
<1>2. UNCHANGED <<module, utilVars>> /\ pass' = pass /\ code' = code /\ out' = out
  BY DEF vars
<1>3. UtilInv' /\ Count' = Count
      /\ (\A x : Pending(x) => Pending(x)') /\ (\A x : FinalCall(x) => FinalCall(x)')
  BY <1>1, <1>2, UtilUnchanged
<1>4. TypeOK' /\ Started'
  BY <1>1, <1>2, <1>3 DEF TypeOK, Started, utilVars
<1>5. CodeInv'
  BY <1>1, <1>2, <1>3 DEF CodeInv, IsFloat
<1>6. QED BY <1>3, <1>4, <1>5 DEF IInv

-----------------------------------------------------------------------------
(* IInv is an invariant of wasm_binary_injection::inject, for every module *)
(* that validation lets through and any number of injected imports.        *)
THEOREM Invariance == Spec => []IInv
<1>1. Init => IInv
  BY InitIInv
<1>2. IInv /\ [Next]_vars => IInv'
  <2> SUFFICES ASSUME IInv, [Next]_vars PROVE IInv'
    OBVIOUS
  <2>1. CASE InjectUseGas
    BY <2>1, InjectUseGasInv
  <2>2. CASE UseGasOp
    BY <2>2, UseGasOpInv
  <2>3. CASE InjectFloat
    BY <2>3, InjectFloatInv
  <2>4. CASE InjectFloatAgain
    BY <2>4, InjectFloatAgainInv
  <2>5. CASE PreOp
    BY <2>5, PreOpInv
  <2>6. CASE PostOp
    BY <2>6, PostOpInv
  <2>7. CASE NextPass
    BY <2>7, NextPassInv
  <2>8. CASE Done
    BY <2>8, StutterInv DEF Done
  <2>9. CASE UNCHANGED vars
    BY <2>9, StutterInv
  <2>10. QED BY <2>1, <2>2, <2>3, <2>4, <2>5, <2>6, <2>7, <2>8, <2>9 DEF Next
<1>3. QED BY <1>1, <1>2, PTL DEF Spec

(* IInv implies TargetsKept.                                               *)
LEMMA IInvTargetsKept == IInv => TargetsKept
<1> SUFFICES ASSUME IInv PROVE TargetsKept
  OBVIOUS
<1> DEFINE Space == IndexSpace(module.imports, module.defs)
<1>1. TypeOK /\ UtilInv /\ Started /\ CodeInv
  BY DEF IInv
<1>2. module.exports \in Seq(Space) /\ module.table \in Seq(Space) /\ module.start \in Space \cup {None}
  BY <1>1, ModuleTyped DEF TypeOK
<1>3. \A i \in Space : Now(i + Count) = Loaded(i)
  BY <1>1, ShiftedTarget
<1> HIDE DEF Space
<1>4. /\ exports = [k \in DOMAIN module.exports |-> module.exports[k] + Count]
      /\ table = [k \in DOMAIN module.table |-> module.table[k] + Count]
      /\ start = IF module.start = None THEN None ELSE module.start + Count
  BY <1>1 DEF UtilInv, Shifted
<1>5. ASSUME NEW k \in DOMAIN exports PROVE Now(exports[k]) = Loaded(module.exports[k])
  <2>1. module.exports[k] \in Space /\ exports[k] = module.exports[k] + Count
    BY <1>2, <1>4, LenProperties, ElementOfSeq
  <2>2. QED BY <1>3, <2>1
<1>6. ASSUME NEW k \in DOMAIN table PROVE Now(table[k]) = Loaded(module.table[k])
  <2>1. module.table[k] \in Space /\ table[k] = module.table[k] + Count
    BY <1>2, <1>4, LenProperties, ElementOfSeq
  <2>2. QED BY <1>3, <2>1
<1>7. start # None => Now(start) = Loaded(module.start)
  <2>1. CASE module.start = None
    BY <1>4, <2>1
  <2>2. CASE module.start # None
    BY <1>2, <1>3, <1>4, <2>2
  <2>3. QED BY <2>1, <2>2
<1>8. pass \in {"post", "done"} =>
         \A k \in DOMAIN out : out[k].op = "call" => Now(out[k].field) = out[k].callee
  <2>1. DOMAIN out = 1..Len(out)
    BY <1>1, LenProperties DEF TypeOK
  <2>2. QED BY <1>1, <2>1 DEF CodeInv, FinalCall
<1>9. QED BY <1>5, <1>6, <1>7, <1>8 DEF TargetsKept

(* Exports, start function and table segments keep naming the function     *)
(* they named, and after the last pass every call reaches the function it  *)
(* meant (add_import, fix_call_index).                                     *)
THEOREM TargetsKeptTheorem == Spec => []TargetsKept
BY Invariance, IInvTargetsKept, PTL

(* IInv implies ImportsExact: a contract's own import is never named like  *)
(* an injected one, and the injected names are distinct.                   *)
LEMMA IInvImportsExact == IInv => ImportsExact
<1> SUFFICES ASSUME IInv PROVE ImportsExact
  OBVIOUS
<1>1. TypeOK /\ UtilInv /\ CodeInv
  BY DEF IInv
<1>2. /\ Count \in Nat /\ Len(module.imports) \in Nat /\ module.imports \in Seq(OwnImport)
      /\ Len(imports) = Count + Len(module.imports) /\ Count = Len(registered_injected)
  BY <1>1, Lengths DEF UtilInv, ImportsInFront, Count
<1>3. DOMAIN imports = 1..Count + Len(module.imports)
  BY <1>1, <1>2, LenProperties DEF TypeOK
<1>4. ASSUME NEW k \in 1..Count
      PROVE  /\ types[imports[k].type + 1] = Sig[imports[k].name]
             /\ imports[k].name = registered_injected[k].name
  BY <1>1 DEF UtilInv, ImportsInFront
<1>5. ASSUME NEW k \in DOMAIN imports, ~(k <= Count)
      PROVE  imports[k] = module.imports[k - Count] /\ imports[k].name \in Own
  <2>1. k - Count \in 1..Len(module.imports) /\ (k - Count) + Count = k
    BY <1>2, <1>3, <1>5
  <2>2. imports[k] = module.imports[k - Count]
    BY <1>1, <2>1 DEF UtilInv, ImportsInFront
  <2>3. module.imports[k - Count] \in OwnImport
    BY <1>2, <2>1, ElementOfSeq
  <2>4. QED BY <2>2, <2>3 DEF OwnImport
<1>6. \A k \in DOMAIN imports :
         IF k <= Count THEN types[imports[k].type + 1] = Sig[imports[k].name]
         ELSE imports[k] = module.imports[k - Count]
  <2>1. \A k \in DOMAIN imports : k <= Count => k \in 1..Count
    BY <1>2, <1>3
  <2>2. QED BY <1>4, <1>5, <2>1
<1>7. ASSUME NEW j \in DOMAIN imports, NEW k \in DOMAIN imports,
             imports[j].name = imports[k].name, imports[j].name \in Injected
      PROVE  j = k
  <2>1. j <= Count /\ k <= Count
    BY <1>5, <1>7, InjectionAssumption
  <2>2. j \in 1..Count /\ k \in 1..Count
    BY <1>2, <1>3, <2>1
  <2>3. QED BY <1>1, <1>4, <1>7, <2>2 DEF UtilInv, NamesDistinct
<1>8. pass \in {"post", "done"} => \A k \in DOMAIN out : out[k].op # "float"
  <2>1. DOMAIN out = 1..Len(out)
    BY <1>1, LenProperties DEF TypeOK
  <2>2. QED BY <1>1, <2>1 DEF CodeInv
<1>9. QED BY <1>2, <1>6, <1>7, <1>8, Zenon DEF ImportsExact

(* Every injected import has the type of its intrinsic and is imported     *)
(* once, the contract's imports keep theirs, and no float operator is left *)
(* (add_import, add_type_slot, the pre pass).                              *)
THEOREM ImportsExactTheorem == Spec => []ImportsExact
BY Invariance, IInvImportsExact, PTL
=============================================================================
