------------------------------ MODULE ObjectGC ------------------------------
(***************************************************************************)
(* The objects of the WAVM runtime and their collection.                   *)
(*                                                                         *)
(* instantiateModule allocates a ModuleInstance with its functions,        *)
(* tables, memory and globals, and links it with objects that are there:   *)
(* objects of different instances refer to each other, in cycles too.      *)
(* freeUnreferencedObjects marks what the caller's roots and the intrinsic *)
(* objects lead to and deletes the rest of allObjects.  Addresses come     *)
(* from finite sets and are used again after a delete.                     *)
(***************************************************************************)
EXTENDS Naturals, FiniteSets

CONSTANTS
    Module, Function, Table, Memory, Global,   \* addresses, by kind of object
    Intrinsic,      \* the intrinsic functions and globals
    MaxRoots,       \* bound on the roots a caller passes
    None            \* the null pointer

Obj == Module \cup Function \cup Table \cup Memory \cup Global

ASSUME KindsAssumption ==
    /\ Intrinsic \subseteq Function \cup Global
    /\ None \notin Obj
    /\ MaxRoots \in Nat
    /\ Module \cap (Function \cup Table \cup Memory \cup Global) = {}
    /\ Function \cap (Table \cup Memory \cup Global) = {}
    /\ Table \cap (Memory \cup Global) = {}
    /\ Memory \cap Global = {}

VARIABLES
    allObjects,         \* GCGlobals::allObjects
    moduleInstance,     \* moduleInstance[f]: that of function f, or None
    members,            \* members[m]: the functions, tables, memories and
                        \* globals of instance m, imported ones included
    elements,           \* elements[t]: the functions in table t
    phase,              \* "idle", or a collection that marks or sweeps
    roots,              \* rootObjectReferences and the intrinsic objects
    referencedObjects,  \* objects marked
    pendingScanObjects  \* of these, the ones not scanned yet

heapVars == <<moduleInstance, members, elements>>
gcVars == <<roots, referencedObjects, pendingScanObjects>>
vars == <<allObjects, heapVars, phase, gcVars>>

Free(kind) == kind \ allObjects
Live(kind) == kind \cap allObjects
AtMostOne(S) == {{}} \cup {{x} : x \in S}

-----------------------------------------------------------------------------
(* childReferences: the switch over the kind of the object.                *)
Children(o) ==
    CASE o \in Function -> {moduleInstance[o]} \ {None}
      [] o \in Module   -> members[o]
      [] o \in Table    -> elements[o]
      [] OTHER          -> {}

Init ==
    /\ allObjects = Intrinsic
    /\ moduleInstance = [f \in Function |-> None]
    /\ members = [m \in Module |-> {}]
    /\ elements = [t \in Table |-> {}]
    /\ phase = "idle"
    /\ roots = {}
    /\ referencedObjects = {}
    /\ pendingScanObjects = {}

(* instantiateModule: an instance m with functions and globals of its own  *)
(* and imported ones, a table that is imported or created, and the memory  *)
(* there is or a new one.  The segments write functions of m into its      *)
(* table.  Where an exception cuts it short the instance stays behind with *)
(* what it has got so far.                                                 *)
Instantiate(m, defs, imports, table, memory, globals, segment) ==
    /\ phase = "idle"
    /\ m \in Free(Module)
    /\ defs \subseteq Free(Function) /\ imports \subseteq Live(Function)
    /\ table \in AtMostOne(Table) /\ memory \in AtMostOne(Memory)
    /\ globals \subseteq Global
    /\ segment \subseteq defs \cup imports
    /\ allObjects' = allObjects \cup {m} \cup defs \cup table \cup memory \cup globals
    /\ moduleInstance' = [f \in Function |-> IF f \in defs THEN m ELSE moduleInstance[f]]
    /\ members' = [members EXCEPT ![m] = defs \cup imports \cup table \cup memory \cup globals]
    /\ elements' = [t \in Table |-> IF t \in table THEN elements[t] \cup segment ELSE elements[t]]
    /\ UNCHANGED <<phase, gcVars>>

(* Fault: the intrinsic objects are taken for rooted by someone else.      *)
CollectOnly(rootObjectReferences) ==
    /\ phase = "idle" /\ phase' = "mark"
    /\ rootObjectReferences \subseteq allObjects
    /\ roots' = rootObjectReferences
    /\ referencedObjects' = roots'
    /\ pendingScanObjects' = roots'
    /\ UNCHANGED <<allObjects, heapVars>>

(* freeUnreferencedObjects up to the scan.                                 *)
Collect(rootObjectReferences) ==
    /\ phase = "idle" /\ phase' = "mark"
    /\ rootObjectReferences \subseteq allObjects
    /\ roots' = rootObjectReferences \cup Intrinsic
    /\ referencedObjects' = roots'
    /\ pendingScanObjects' = roots'
    /\ UNCHANGED <<allObjects, heapVars>>

(* Fault: a reference is scanned again however often it is met.            *)
ScanAgain(o) ==
    /\ phase = "mark" /\ o \in pendingScanObjects
    /\ referencedObjects' = referencedObjects \cup Children(o)
    /\ pendingScanObjects' = (pendingScanObjects \ {o}) \cup Children(o)
    /\ UNCHANGED <<allObjects, heapVars, phase, roots>>

(* Fault: the elements of tables are not followed.                         *)
ScanButTables(o) ==
    LET children == IF o \in Table THEN {} ELSE Children(o) IN
    /\ phase = "mark" /\ o \in pendingScanObjects
    /\ referencedObjects' = referencedObjects \cup children
    /\ pendingScanObjects' = (pendingScanObjects \ {o}) \cup (children \ referencedObjects)
    /\ UNCHANGED <<allObjects, heapVars, phase, roots>>

(* One turn of the scan, of any pending object: the order of the stack     *)
(* depends on that of the references.                                      *)
Scan(o) ==
    /\ phase = "mark" /\ o \in pendingScanObjects
    /\ referencedObjects' = referencedObjects \cup Children(o)
    /\ pendingScanObjects' = (pendingScanObjects \ {o}) \cup (Children(o) \ referencedObjects)
    /\ UNCHANGED <<allObjects, heapVars, phase, roots>>

EndScan ==
    /\ phase = "mark" /\ pendingScanObjects = {}
    /\ phase' = "sweep"
    /\ UNCHANGED <<allObjects, heapVars, gcVars>>

(* The iteration deletes an object.                                        *)
Sweep(o) ==
    /\ phase = "sweep" /\ o \in allObjects \ referencedObjects
    /\ allObjects' = allObjects \ {o}
    /\ moduleInstance' = [f \in Function |-> IF f = o THEN None ELSE moduleInstance[f]]
    /\ members' = [m \in Module |-> IF m = o THEN {} ELSE members[m]]
    /\ elements' = [t \in Table |-> IF t = o THEN {} ELSE elements[t]]
    /\ UNCHANGED <<phase, gcVars>>

(* Fault: the iteration stops early.                                       *)
EndSweepEarly ==
    /\ phase = "sweep"
    /\ phase' = "idle"
    /\ roots' = {} /\ referencedObjects' = {}
    /\ UNCHANGED <<allObjects, heapVars, pendingScanObjects>>

EndSweep ==
    /\ phase = "sweep" /\ allObjects \subseteq referencedObjects
    /\ phase' = "idle"
    /\ roots' = {} /\ referencedObjects' = {}
    /\ UNCHANGED <<allObjects, heapVars, pendingScanObjects>>

(* freeUnreferencedObjects, once it is called.                             *)
Collection ==
    \/ \E o \in Obj : Scan(o) \/ Sweep(o)
    \/ EndScan \/ EndSweep

Next ==
    \/ \E m \in Module, defs, imports \in SUBSET Function, table \in AtMostOne(Table),
          memory \in AtMostOne(Memory), globals \in SUBSET Global :
          \E segment \in SUBSET (defs \cup imports) :
             Instantiate(m, defs, imports, table, memory, globals, segment)
    \/ \E rs \in SUBSET allObjects : Cardinality(rs) <= MaxRoots /\ Collect(rs)
    \/ Collection

Spec == Init /\ [][Next]_vars

(* freeUnreferencedObjects runs to its end.                                *)
FairSpec == Spec /\ WF_vars(Collection)

-----------------------------------------------------------------------------
TypeOK ==
    /\ allObjects \subseteq Obj
    /\ moduleInstance \in [Function -> Module \cup {None}]
    /\ members \in [Module -> SUBSET Obj]
    /\ elements \in [Table -> SUBSET Function]
    /\ phase \in {"idle", "mark", "sweep"}
    /\ roots \subseteq Obj
    /\ referencedObjects \subseteq Obj
    /\ pendingScanObjects \subseteq Obj

(* What a live object refers to is live, after any number of collections,  *)
(* each with fewer or other roots: the runtime never follows a pointer to  *)
(* a deleted object.  While it sweeps, this holds of what it keeps.        *)
NoDangling ==
    \A o \in allObjects :
        (phase = "sweep" => o \in referencedObjects) => Children(o) \subseteq allObjects

(* The intrinsics the linker resolves against outlive every collection.    *)
IntrinsicsLive == Intrinsic \subseteq allObjects

(* The objects the roots lead to: those in every set that has the roots    *)
(* and whatever its members refer to.                                      *)
ClosedUnderChildren(S) == \A o \in S : Children(o) \subseteq S
Reachable == {o \in Obj : \A S \in SUBSET Obj :
                             roots \subseteq S /\ ClosedUnderChildren(S) => o \in S}

(* A collection leaves exactly the objects its roots lead to: it neither   *)
(* deletes one of them nor leaves garbage, cycles between instances and    *)
(* functions included.                                                     *)
Precise == [][phase = "sweep" /\ phase' = "idle" => allObjects' = Reachable]_vars

(* A collection ends although references form cycles.                      *)
CollectionEnds == phase # "idle" ~> phase = "idle"
=============================================================================
