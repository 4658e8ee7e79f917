--------------------------- MODULE ObjectGC_proofs ---------------------------
(***************************************************************************)
(* Proofs about ObjectGC, for any number of objects of each kind, any      *)
(* references between them and any roots.                                  *)
(*                                                                         *)
(* The heart is the invariant Marking of the scan: what is marked contains *)
(* the roots and, but for the pending objects, the children of its         *)
(* members; and it is contained in every closed set with the roots.  When  *)
(* nothing is pending it is the reachable set.                             *)
(***************************************************************************)
EXTENDS ObjectGC, TLAPS

(* What the references of live objects, and of addresses that are free,    *)
(* look like between collections.                                          *)
FreeBlank == \A t \in Table \ allObjects : elements[t] = {}

(* The state of a collection.                                              *)
Marking ==
    phase # "idle" =>
        /\ roots \subseteq referencedObjects /\ Intrinsic \subseteq roots
        /\ referencedObjects \subseteq allObjects
        /\ pendingScanObjects \subseteq referencedObjects
        /\ \A o \in referencedObjects \ pendingScanObjects : Children(o) \subseteq referencedObjects
        /\ \A S \in SUBSET Obj : roots \subseteq S /\ ClosedUnderChildren(S) => referencedObjects \subseteq S
        /\ phase = "sweep" => pendingScanObjects = {}

IInv == TypeOK /\ FreeBlank /\ Marking /\ NoDangling /\ IntrinsicsLive

(* Children, kind by kind.                                                 *)
LEMMA ChildrenByKind ==
    ASSUME NEW o \in Obj
    PROVE  /\ o \in Function => Children(o) = {moduleInstance[o]} \ {None}
           /\ o \in Module => Children(o) = members[o]
           /\ o \in Table => Children(o) = elements[o]
           /\ o \in Memory \cup Global => Children(o) = {}
  BY KindsAssumption DEF Children, Obj

(* The same in the next state.                                             *)
LEMMA ChildrenByKindNext ==
    ASSUME NEW o \in Obj
    PROVE  /\ o \in Function => Children(o)' = {moduleInstance'[o]} \ {None}
           /\ o \in Module => Children(o)' = members'[o]
           /\ o \in Table => Children(o)' = elements'[o]
           /\ o \in Memory \cup Global => Children(o)' = {}
  BY KindsAssumption DEF Children, Obj

(* Children are objects.                                                   *)
LEMMA ChildrenAreObjects ==
    ASSUME TypeOK, NEW o \in Obj
    PROVE  Children(o) \subseteq Obj
  BY ChildrenByKind DEF TypeOK, Obj

(* Before anything is instantiated, the invariant holds.                   *)
LEMMA InitIInv == Init => IInv
<1> SUFFICES ASSUME Init PROVE IInv
  OBVIOUS
<1>1. TypeOK
  BY KindsAssumption DEF Init, TypeOK, Obj
<1>2. FreeBlank /\ Marking /\ IntrinsicsLive
  BY DEF Init, FreeBlank, Marking, IntrinsicsLive
<1>3. NoDangling
  <2> SUFFICES ASSUME NEW o \in Intrinsic PROVE Children(o) = {}
    BY DEF Init, NoDangling
  <2>1. o \in Obj
    BY KindsAssumption DEF Obj
  <2> QED
    BY <2>1, ChildrenByKind, KindsAssumption DEF Init, Obj
<1> QED
  BY <1>1, <1>2, <1>3 DEF IInv

(* instantiateModule refers to live objects only and gives every object it *)
(* creates an entry in allObjects.                                         *)
LEMMA InstantiateIInv ==
    ASSUME IInv, NEW m \in Module, NEW defs \in SUBSET Function, NEW imports \in SUBSET Function,
           NEW table \in AtMostOne(Table), NEW memory \in AtMostOne(Memory),
           NEW globals \in SUBSET Global, NEW segment \in SUBSET (defs \cup imports),
           Instantiate(m, defs, imports, table, memory, globals, segment)
    PROVE  IInv'
<1>0. /\ table \subseteq Table /\ memory \subseteq Memory
      /\ m \notin allObjects /\ defs \cap allObjects = {} /\ imports \subseteq allObjects
      /\ phase = "idle" /\ allObjects \subseteq allObjects'
  BY DEF Instantiate, AtMostOne, Free, Live
<1>1. TypeOK'
  <2>1. allObjects' \subseteq Obj
    BY <1>0 DEF IInv, TypeOK, Instantiate, Obj
  <2>2. moduleInstance' \in [Function -> Module \cup {None}]
    BY DEF IInv, TypeOK, Instantiate
  <2>3. members' \in [Module -> SUBSET Obj]
    BY <1>0 DEF IInv, TypeOK, Instantiate, Obj
  <2>4. elements' \in [Table -> SUBSET Function]
    BY DEF IInv, TypeOK, Instantiate
  <2> QED
    BY <2>1, <2>2, <2>3, <2>4 DEF IInv, TypeOK, Instantiate, gcVars
<1>2. FreeBlank'
  BY <1>0 DEF IInv, FreeBlank, Instantiate
<1>3. Marking' /\ IntrinsicsLive'
  BY <1>0 DEF Marking, IInv, IntrinsicsLive, Instantiate
<1>4. NoDangling'
  <2> SUFFICES ASSUME NEW o \in allObjects' PROVE Children(o)' \subseteq allObjects'
    BY DEF NoDangling
  <2>1. o \in Obj
    BY <1>1 DEF TypeOK
  <2>2. o \in allObjects => Children(o) \subseteq allObjects
    BY <1>0 DEF IInv, NoDangling
  <2>3. CASE o \in Function
    <3>1. CASE o \in defs
      BY <2>1, <2>3, <3>1, ChildrenByKindNext DEF Instantiate
    <3>2. CASE o \notin defs
      <4>1. o \in allObjects
        BY <1>0, <2>3, <3>2, KindsAssumption DEF Instantiate
      <4> QED
        BY <1>0, <2>1, <2>2, <2>3, <3>2, <4>1, ChildrenByKind, ChildrenByKindNext DEF Instantiate
    <3> QED
      BY <3>1, <3>2
  <2>4. CASE o \in Module
    <3>1. CASE o = m
      <4>1. members'[o] = defs \cup imports \cup table \cup memory \cup globals
        BY <2>4, <3>1 DEF Instantiate, IInv, TypeOK
      <4> QED
        BY <1>0, <2>1, <2>4, <4>1, ChildrenByKindNext DEF Instantiate
    <3>2. CASE o # m
      <4>1. o \in allObjects
        BY <1>0, <2>4, <3>2, KindsAssumption DEF Instantiate
      <4>2. members'[o] = members[o]
        BY <2>4, <3>2 DEF Instantiate, IInv, TypeOK
      <4> QED
        BY <1>0, <2>1, <2>2, <2>4, <4>1, <4>2, ChildrenByKind, ChildrenByKindNext
    <3> QED
      BY <3>1, <3>2
  <2>5. CASE o \in Table
    <3>1. elements[o] \subseteq allObjects
      BY <2>1, <2>2, <2>5, ChildrenByKind DEF IInv, FreeBlank
    <3>2. elements'[o] \subseteq elements[o] \cup segment
      BY <2>5 DEF Instantiate
    <3>3. segment \subseteq allObjects'
      BY <1>0 DEF Instantiate
    <3> QED
      BY <1>0, <2>1, <2>5, <3>1, <3>2, <3>3, ChildrenByKindNext
  <2>6. CASE o \in Memory \cup Global
    BY <2>1, <2>6, ChildrenByKindNext
  <2> QED
    BY <2>1, <2>3, <2>4, <2>5, <2>6 DEF Obj
<1> QED
  BY <1>1, <1>2, <1>3, <1>4 DEF IInv

(* The roots are marked and pending.                                       *)
LEMMA CollectIInv ==
    ASSUME IInv, NEW rs \in SUBSET allObjects, Collect(rs)
    PROVE  IInv'
<1>1. \A o : Children(o)' = Children(o)
  BY DEF Children, Collect, heapVars
<1>2. TypeOK' /\ FreeBlank' /\ IntrinsicsLive'
  BY KindsAssumption DEF IInv, TypeOK, FreeBlank, IntrinsicsLive, Collect, heapVars, Obj
<1>3. Marking'
  BY DEF IInv, IntrinsicsLive, Marking, Collect
<1>4. NoDangling'
  BY <1>1 DEF IInv, NoDangling, Collect
<1> QED
  BY <1>2, <1>3, <1>4 DEF IInv

(* A marked object's children are marked with it: they are live, and in    *)
(* every closed set the object is in.                                      *)
LEMMA ScanIInv ==
    ASSUME IInv, NEW o \in Obj, Scan(o)
    PROVE  IInv'
<1>1. \A x : Children(x)' = Children(x)
  BY DEF Children, Scan, heapVars
<1>2. /\ phase = "mark" /\ phase' = "mark" /\ roots' = roots /\ allObjects' = allObjects
      /\ o \in pendingScanObjects
      /\ referencedObjects' = referencedObjects \cup Children(o)
      /\ pendingScanObjects' = (pendingScanObjects \ {o}) \cup (Children(o) \ referencedObjects)
  BY DEF Scan
<1>3. o \in referencedObjects
  BY <1>2 DEF IInv, Marking
<1>4. Children(o) \subseteq allObjects
  BY <1>2, <1>3 DEF IInv, Marking, NoDangling
<1>5. TypeOK' /\ FreeBlank' /\ IntrinsicsLive' /\ NoDangling'
  BY <1>1, <1>2, <1>4 DEF IInv, TypeOK, FreeBlank, IntrinsicsLive, NoDangling, Scan, heapVars
<1>6. \A x \in referencedObjects' \ pendingScanObjects' : Children(x)' \subseteq referencedObjects'
  BY <1>1, <1>2 DEF IInv, Marking
<1>7. ASSUME NEW S \in SUBSET Obj, roots' \subseteq S, ClosedUnderChildren(S)'
      PROVE  referencedObjects' \subseteq S
  <2>1. ClosedUnderChildren(S)
    BY <1>1, <1>7 DEF ClosedUnderChildren
  <2>2. referencedObjects \subseteq S
    BY <1>2, <1>7, <2>1 DEF IInv, Marking
  <2> QED
    BY <1>2, <1>3, <2>1, <2>2 DEF ClosedUnderChildren
<1>8. Marking'
  BY <1>2, <1>4, <1>6, <1>7 DEF IInv, Marking
<1> QED
  BY <1>5, <1>8 DEF IInv

(* Marking is complete.                                                    *)
LEMMA EndScanIInv ==
    ASSUME IInv, EndScan
    PROVE  IInv'
<1>1. \A x : Children(x)' = Children(x)
  BY DEF Children, EndScan, heapVars
<1>2. TypeOK' /\ FreeBlank' /\ IntrinsicsLive' /\ NoDangling'
  BY <1>1 DEF IInv, TypeOK, FreeBlank, IntrinsicsLive, NoDangling, EndScan, heapVars, gcVars
<1>3. Marking'
  BY <1>1 DEF IInv, Marking, ClosedUnderChildren, EndScan, gcVars
<1> QED
  BY <1>2, <1>3 DEF IInv

(* Deleting an object that is not marked leaves the marked ones and their  *)
(* children alone.  A set that is closed now need not have been before,    *)
(* but its marked members form one that was.                               *)
LEMMA SweepIInv ==
    ASSUME IInv, NEW o \in Obj, Sweep(o)
    PROVE  IInv'
<1>1. /\ phase = "sweep" /\ phase' = "sweep" /\ roots' = roots
      /\ referencedObjects' = referencedObjects /\ pendingScanObjects' = pendingScanObjects
      /\ o \notin referencedObjects /\ allObjects' = allObjects \ {o}
  BY DEF Sweep, gcVars
<1>2. ASSUME NEW x \in Obj, x # o PROVE Children(x)' = Children(x)
  BY <1>2, ChildrenByKind, ChildrenByKindNext DEF Sweep, Obj
<1>3. \A x \in referencedObjects : x \in Obj /\ Children(x)' = Children(x)
  BY <1>1, <1>2 DEF IInv, TypeOK
<1>4. /\ \A x \in referencedObjects : Children(x) \subseteq referencedObjects
      /\ roots \subseteq referencedObjects /\ Intrinsic \subseteq roots
      /\ referencedObjects \subseteq allObjects /\ pendingScanObjects = {}
  BY <1>1 DEF IInv, Marking
<1>5. TypeOK'
  <2>1. moduleInstance' \in [Function -> Module \cup {None}]
    BY DEF IInv, TypeOK, Sweep
  <2>2. members' \in [Module -> SUBSET Obj] /\ elements' \in [Table -> SUBSET Function]
    BY DEF IInv, TypeOK, Sweep
  <2> QED
    BY <1>1, <2>1, <2>2 DEF IInv, TypeOK
<1>6. FreeBlank' /\ IntrinsicsLive' /\ NoDangling'
  <2>1. FreeBlank'
    BY <1>1 DEF IInv, FreeBlank, Sweep
  <2>2. referencedObjects \subseteq allObjects'
    BY <1>1, <1>4
  <2> QED
    BY <1>1, <1>3, <1>4, <2>1, <2>2 DEF IntrinsicsLive, NoDangling
<1>7. ASSUME NEW S \in SUBSET Obj, roots \subseteq S, ClosedUnderChildren(S)'
      PROVE  referencedObjects \subseteq S
  <2> DEFINE T == S \cap referencedObjects
  <2>1. roots \subseteq T /\ T \in SUBSET Obj
    BY <1>4, <1>7
  <2>2. ClosedUnderChildren(T)
    BY <1>3, <1>4, <1>7 DEF ClosedUnderChildren
  <2>3. referencedObjects \subseteq T
    BY <1>1, <2>1, <2>2 DEF IInv, Marking
  <2> QED
    BY <2>3
<1>8. Marking'
  BY <1>1, <1>3, <1>4, <1>7 DEF Marking
<1> QED
  BY <1>5, <1>6, <1>8 DEF IInv

(* What is left is what was marked, and closed.                            *)
LEMMA EndSweepIInv ==
    ASSUME IInv, EndSweep
    PROVE  IInv'
<1>1. \A x : Children(x)' = Children(x)
  BY DEF Children, EndSweep, heapVars
<1>2. TypeOK' /\ FreeBlank' /\ IntrinsicsLive' /\ Marking'
  BY DEF IInv, TypeOK, FreeBlank, IntrinsicsLive, Marking, EndSweep, heapVars
<1>3. NoDangling'
  BY <1>1 DEF IInv, NoDangling, EndSweep
<1> QED
  BY <1>2, <1>3 DEF IInv

(* The invariant is inductive.                                             *)
LEMMA NextIInv == IInv /\ [Next]_vars => IInv'
<1> SUFFICES ASSUME IInv, [Next]_vars PROVE IInv'
  OBVIOUS
<1>1. ASSUME NEW m \in Module, NEW defs \in SUBSET Function, NEW imports \in SUBSET Function,
             NEW table \in AtMostOne(Table), NEW memory \in AtMostOne(Memory),
             NEW globals \in SUBSET Global, NEW segment \in SUBSET (defs \cup imports),
             Instantiate(m, defs, imports, table, memory, globals, segment)
      PROVE  IInv'
  BY <1>1, InstantiateIInv
<1>2. ASSUME NEW rs \in SUBSET allObjects, Collect(rs) PROVE IInv'
  BY <1>2, CollectIInv
<1>3. ASSUME NEW o \in Obj, Scan(o) PROVE IInv'
  BY <1>3, ScanIInv
<1>4. ASSUME NEW o \in Obj, Sweep(o) PROVE IInv'
  BY <1>4, SweepIInv
<1>5. CASE EndScan
  BY <1>5, EndScanIInv
<1>6. CASE EndSweep
  BY <1>6, EndSweepIInv
<1>7. CASE UNCHANGED vars
  <2>1. \A x : Children(x)' = Children(x)
    BY <1>7 DEF Children, vars, heapVars
  <2> QED
    BY <1>7, <2>1 DEF IInv, TypeOK, FreeBlank, Marking, NoDangling, IntrinsicsLive,
                      ClosedUnderChildren, vars, heapVars, gcVars
<1> QED
  BY <1>1, <1>2, <1>3, <1>4, <1>5, <1>6, <1>7 DEF Next, Collection

(* The inductive invariant holds in every reachable state.                 *)
LEMMA Invariant == Spec => []IInv
  BY InitIInv, NextIInv, PTL DEF Spec

(* freeUnreferencedObjects never deletes an object that a surviving one    *)
(* refers to, whatever the references and the roots.                       *)
THEOREM NeverDangles == Spec => []NoDangling
  BY Invariant, PTL DEF IInv

(* The intrinsic objects survive every collection.                         *)
THEOREM IntrinsicsSurvive == Spec => []IntrinsicsLive
  BY Invariant, PTL DEF IInv

(* Between the scan and the end of the sweep, the marked objects are the   *)
(* reachable ones.                                                         *)
LEMMA MarkedIsReachable ==
    ASSUME IInv, phase = "sweep"
    PROVE  referencedObjects = Reachable
<1>1. /\ roots \subseteq referencedObjects
      /\ \A o \in referencedObjects : Children(o) \subseteq referencedObjects
      /\ \A S \in SUBSET Obj : roots \subseteq S /\ ClosedUnderChildren(S) => referencedObjects \subseteq S
  BY DEF IInv, Marking
<1>2. referencedObjects \in SUBSET Obj
  BY DEF IInv, TypeOK
<1>3. ClosedUnderChildren(referencedObjects)
  BY <1>1 DEF ClosedUnderChildren
<1>4. Reachable \subseteq referencedObjects
  BY <1>1, <1>2, <1>3 DEF Reachable
<1>5. referencedObjects \subseteq Reachable
  BY <1>1, <1>2 DEF Reachable
<1> QED
  BY <1>4, <1>5

(* A collection leaves exactly what its roots lead to.                     *)
THEOREM CollectsPrecisely == Spec => Precise
<1>1. IInv /\ [Next]_vars => [phase = "sweep" /\ phase' = "idle" => allObjects' = Reachable]_vars
  <2> SUFFICES ASSUME IInv, Next, phase = "sweep", phase' = "idle"
               PROVE  allObjects' = Reachable
    OBVIOUS
  <2>1. EndSweep
    BY DEF Next, Collection, Instantiate, Collect, Scan, Sweep, EndScan
  <2>2. allObjects' = referencedObjects
    BY <2>1 DEF EndSweep, IInv, Marking
  <2> QED
    BY <2>2, MarkedIsReachable
<1> QED
  BY <1>1, Invariant, PTL DEF Spec, Precise
=============================================================================
