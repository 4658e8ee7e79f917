--------------------------- MODULE ImportInjection ---------------------------
(***************************************************************************)
(* wasm_binary_injection::inject on the index space of functions.          *)
(*                                                                         *)
(* The passes over the code add imports to the module: use_gas, and one    *)
(* intrinsic for every kind of float operator they replace.  An import is  *)
(* inserted in front of the contract's own, so every function moves up by  *)
(* one: exports, the start function and the tables are shifted on the      *)
(* spot, calls in the code only by the last pass.  Until then a call of an *)
(* injected import carries an index nobody else uses, which                *)
(* injected_index_mapping translates.                                      *)
(*                                                                         *)
(* The passes go over the functions one after the other, so the code is    *)
(* one sequence of operators.  `callee' is the function an operator means; *)
(* it exists in the model only.                                            *)
(***************************************************************************)
EXTENDS Naturals, Sequences

CONSTANTS
    Own,        \* names of the imports a contract may declare
    Def,        \* functions a contract may define
    Injected,   \* intrinsics the passes may inject, use_gas among them
    UseGas,     \* "use_gas"
    Type,       \* function types
    Sig,        \* Sig[n]: the type of the injected intrinsic n
    Module,     \* the modules that may be loaded, see IsModule
    None        \* no start function (UINTPTR_MAX)

(* An operator: a call, a float operator that a pass replaces by a call of *)
(* `callee', or any other.                                                 *)
Call(i, f) == [op |-> "call", field |-> i, callee |-> f]
Float(n) == [op |-> "float", field |-> 0, callee |-> n]
Other == [op |-> "other", field |-> 0, callee |-> None]

(* The index space of functions, and the function behind index i of it.    *)
IndexSpace(imps, defs) == 0..Len(imps) + Len(defs) - 1
At(imps, defs, i) ==
    IF i < Len(imps) THEN imps[i + 1].name ELSE defs[i - Len(imps) + 1]

(* What validation lets through: every index exists.                       *)
IsModule(m) ==
    /\ m.types \in Seq(Type)
    /\ m.imports \in Seq([name: Own, type: 0..Len(m.types) - 1])
    /\ m.defs \in Seq(Def)
    /\ m.exports \in Seq(IndexSpace(m.imports, m.defs))
    /\ m.table \in Seq(IndexSpace(m.imports, m.defs))
    /\ m.start \in IndexSpace(m.imports, m.defs) \cup {None}
    /\ m.code \in Seq({Call(i, At(m.imports, m.defs, i)) : i \in IndexSpace(m.imports, m.defs)}
                      \cup {Float(n) : n \in Injected \ {UseGas}} \cup {Other})

ASSUME InjectionAssumption ==
    /\ UseGas \in Injected
    /\ Injected \cap (Own \cup Def) = {}
    /\ Sig \in [Injected -> Type]
    /\ None \notin Nat
    /\ \A m \in Module : IsModule(m)

VARIABLES
    module,                 \* the module as it was loaded
    types,                  \* module.types
    imports,                \* module.functions.imports
    exports,                \* indices of the exported functions
    start,                  \* module.startFunctionIndex
    table,                  \* indices in the table segments
    type_slots,             \* where in types a signature is found
    registered_injected,    \* injected names with the index calls carry
    injected_index_mapping, \* from that index to the one in imports
    next_injected_index,
    pass,                   \* "init", "usegas", "pre", "post" or "done"
    code,                   \* the operators the pass has still to read
    out                     \* the operators it has written

utilVars == <<types, imports, exports, start, table, type_slots,
              registered_injected, injected_index_mapping, next_injected_index>>
vars == <<module, utilVars, pass, code, out>>

-----------------------------------------------------------------------------
(* injector_utils                                                          *)

(* std::map::emplace: an entry that is there stays.                        *)
Emplace(f, k, v) ==
    [x \in DOMAIN f \cup {k} |-> IF x \in DOMAIN f THEN f[x] ELSE v]

(* e inserted in s, so that it gets position p.                            *)
Inserted(s, p, e) ==
    [k \in 1..Len(s) + 1 |->
        IF k < p THEN s[k] ELSE IF k = p THEN e ELSE s[k - 1]]

(* build_type_slots: of equal types the first counts.                      *)
TypeSlots(ts) ==
    [t \in {ts[k] : k \in DOMAIN ts} |->
        (CHOOSE k \in DOMAIN ts : ts[k] = t /\ \A j \in 1..k - 1 : ts[j] # t) - 1]

(* add_type_slot                                                           *)
AddTypeSlot(t) ==
    IF t \in DOMAIN type_slots
    THEN UNCHANGED <<types, type_slots>>
    ELSE /\ type_slots' = Emplace(type_slots, t, Len(types))
         /\ types' = Append(types, t)

Shift(s) == [k \in DOMAIN s |-> s[k] + 1]

(* The condition of add_import.                                            *)
Unregistered(n) ==
    imports = <<>> \/ \A k \in DOMAIN registered_injected : registered_injected[k].name # n

(* get_next_indices: the index calls of the new import will carry.         *)
NextIndex == Len(imports) + Len(module.defs) + Len(registered_injected)

(* Fault: the import is given the last type, also when its own was there.  *)
AddImportLateSlot(n) ==
    /\ AddTypeSlot(Sig[n])
    /\ registered_injected' = Append(registered_injected, [name |-> n, index |-> NextIndex])
    /\ imports' = Inserted(imports, Len(registered_injected) + 1,
                           [name |-> n, type |-> Len(types') - 1])
    /\ injected_index_mapping' = Emplace(injected_index_mapping, NextIndex, next_injected_index)
    /\ next_injected_index' = next_injected_index + 1
    /\ exports' = Shift(exports)
    /\ start' = IF start = None THEN None ELSE start + 1
    /\ table' = Shift(table)

(* add_import of a name that is not registered yet.                        *)
AddImport(n) ==
    /\ AddTypeSlot(Sig[n])
    /\ registered_injected' = Append(registered_injected, [name |-> n, index |-> NextIndex])
    /\ imports' = Inserted(imports, Len(registered_injected) + 1,
                           [name |-> n, type |-> type_slots'[Sig[n]]])
    /\ injected_index_mapping' = Emplace(injected_index_mapping, NextIndex, next_injected_index)
    /\ next_injected_index' = next_injected_index + 1
    /\ exports' = Shift(exports)
    /\ start' = IF start = None THEN None ELSE start + 1
    /\ table' = Shift(table)

-----------------------------------------------------------------------------
(* wasm_binary_injection                                                   *)

Init ==
    /\ module \in Module
    /\ types = module.types
    /\ imports = module.imports
    /\ exports = module.exports
    /\ start = module.start
    /\ table = module.table
    /\ type_slots = TypeSlots(module.types)
    /\ registered_injected = <<>>
    /\ injected_index_mapping = [k \in {} |-> 0]
    /\ next_injected_index = 0
    /\ pass = "init"
    /\ code = module.code
    /\ out = <<>>

(* "inject use_gas first"                                                  *)
InjectUseGas ==
    /\ pass = "init" /\ pass' = "usegas"
    /\ AddImport(UseGas)
    /\ UNCHANGED <<module, code, out>>

(* The pass has written ops for the first operator of code.                *)
Write(ops) ==
    /\ code' = Tail(code)
    /\ out' = out \o ops
    /\ UNCHANGED <<module, pass>>

(* The gas pass puts a call of use_gas where a segment begins.             *)
UseGasOp ==
    /\ pass = "usegas" /\ code # <<>>
    /\ \/ Write(<<Head(code)>>)
       \/ Write(<<Call(registered_injected[1].index, UseGas), Head(code)>>)
    /\ UNCHANGED utilVars

(* The pre pass replaces a float operator by a call of its intrinsic...    *)
InjectFloat ==
    /\ pass = "pre" /\ code # <<>> /\ Head(code).op = "float"
    /\ Unregistered(Head(code).callee)
    /\ AddImport(Head(code).callee)
    /\ Write(<<Call(NextIndex, Head(code).callee)>>)

(* ...which may have been imported before...                               *)
InjectFloatAgain ==
    /\ pass = "pre" /\ code # <<>> /\ Head(code).op = "float"
    /\ ~Unregistered(Head(code).callee)
    /\ \E k \in DOMAIN registered_injected :
          /\ registered_injected[k].name = Head(code).callee
          /\ Write(<<Call(registered_injected[k].index, Head(code).callee)>>)
    /\ UNCHANGED utilVars

(* ...and keeps the others.                                                *)
PreOp ==
    /\ pass = "pre" /\ code # <<>> /\ Head(code).op # "float"
    /\ Write(<<Head(code)>>)
    /\ UNCHANGED utilVars

(* Fault: the contract's own calls move by one, whatever was injected.     *)
fix_call_index_by_one(i) ==
    IF i \in DOMAIN injected_index_mapping
    THEN injected_index_mapping[i]
    ELSE i + 1

(* fix_call_index: a provisional index is translated, one of the contract  *)
(* moves up by the imports in front.                                       *)
fix_call_index(i) ==
    IF i \in DOMAIN injected_index_mapping
    THEN injected_index_mapping[i]
    ELSE i + Len(registered_injected)

PostOp ==
    /\ pass = "post" /\ code # <<>>
    /\ Write(<<IF Head(code).op = "call"
               THEN Call(fix_call_index(Head(code).field), Head(code).callee)
               ELSE Head(code)>>)
    /\ UNCHANGED utilVars

(* fd.code becomes what the pass has written.                              *)
NextPass ==
    /\ pass \in {"usegas", "pre", "post"} /\ code = <<>>
    /\ pass' = [usegas |-> "pre", pre |-> "post", post |-> "done"][pass]
    /\ code' = IF pass = "post" THEN <<>> ELSE out
    /\ out' = IF pass = "post" THEN out ELSE <<>>
    /\ UNCHANGED <<module, utilVars>>

Done == pass = "done" /\ UNCHANGED vars

Next ==
    \/ InjectUseGas \/ UseGasOp
    \/ InjectFloat \/ InjectFloatAgain \/ PreOp
    \/ PostOp \/ NextPass \/ Done

Spec == Init /\ [][Next]_vars

-----------------------------------------------------------------------------
(* The function behind index i now, and behind index i as loaded.          *)
Now(i) == At(imports, module.defs, i)
Loaded(i) == At(module.imports, module.defs, i)

(* Exports, start function and tables name the function they named when    *)
(* the module was loaded, after every import that is put in front; and     *)
(* after the last pass every call of the contract reaches the function it  *)
(* meant, and every injected call its intrinsic.                           *)
TargetsKept ==
    /\ \A k \in DOMAIN exports : Now(exports[k]) = Loaded(module.exports[k])
    /\ \A k \in DOMAIN table : Now(table[k]) = Loaded(module.table[k])
    /\ start # None => Now(start) = Loaded(module.start)
    /\ pass \in {"post", "done"} =>
          \A k \in DOMAIN out : out[k].op = "call" => Now(out[k].field) = out[k].callee

(* Every injected import is declared with the type of its intrinsic, and   *)
(* the contract's imports keep theirs; an intrinsic is imported once,      *)
(* however often it is used, and no float operator is left.                *)
ImportsExact ==
    /\ \A k \in DOMAIN imports :
          IF k <= Len(registered_injected)
          THEN types[imports[k].type + 1] = Sig[imports[k].name]
          ELSE imports[k] = module.imports[k - Len(registered_injected)]
    /\ \A j, k \in DOMAIN imports :
          imports[j].name = imports[k].name /\ imports[j].name \in Injected => j = k
    /\ pass \in {"post", "done"} => \A k \in DOMAIN out : out[k].op # "float"
=============================================================================
