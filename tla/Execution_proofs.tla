-------------------------- MODULE Execution_proofs --------------------------
(***************************************************************************)
(* Proofs about Execution, for every set of contracts, every stack bound,  *)
(* every gas budget and every address set.                                 *)
(***************************************************************************)
EXTENDS Execution, TLAPS

-----------------------------------------------------------------------------
(* The inductive invariant, in parts.                                      *)

(* Only the innermost activation can be outside wasm; every other one      *)
(* waits in call_action.                                                   *)
StackShape ==
    /\ \A d \in 1..depth : frame[d].inCallback => InWasm(frame[d])
    /\ \A d \in 1..depth : d # depth => frame[d].inCallback
    /\ \A d \in 1..depth : frame[d].pc = "instantiate" =>
          frame[d].inst = None /\ frame[d].mem = None

(* No two activations share a memory, and theMemoryInstance never is the   *)
(* memory of an activation that waits in call_action.                      *)
MemoryDiscipline ==
    /\ \A d, e \in 1..depth :
          d # e /\ frame[d].mem # None => frame[d].mem # frame[e].mem
    /\ \A d \in 1..depth :
          frame[d].inCallback /\ frame[d].mem # None => theMemory # frame[d].mem

(* The activation catchHardwareTraps serves, when no activation above it   *)
(* has entered wasm.                                                       *)
Serves(d) ==
    /\ InWasm(frame[d])
    /\ d = depth \/ (d + 1 = depth /\ ~InWasm(frame[depth]))

(* What the signal state is, and what the activations above will restore.  *)
SignalDiscipline ==
    /\ \A d \in 1..depth : Serves(d) /\ frame[d].nested # "failed"
          => signal.env = d /\ signal.catching
    /\ \A d \in 1..depth : Serves(d) /\ frame[d].nested = "none"
          => signal.operand = d
    /\ \A d, e \in 1..depth : e = d + 1 /\ InWasm(frame[e]) /\ frame[d].nested # "failed"
          => frame[e].oldEnv = d /\ frame[e].oldCatching

IInv ==
    /\ TypeOK
    /\ StackShape
    /\ NoDangling
    /\ HeapEmptyWhenIdle
    /\ MemoryDiscipline
    /\ MemoryIsolation
    /\ RunningContext
    /\ mode = "ok" => SignalDiscipline

-----------------------------------------------------------------------------
(* Typing.                                                                 *)

(* NewFrame builds a frame, so the frame execute() pushes and the empty    *)
(* frame it leaves behind are well typed.                                  *)
LEMMA NewFrameType ==
    /\ \A c \in Contract : NewFrame(c) \in Frame
    /\ NoFrame \in Frame
<1>1. ASSUME NEW c \in Contract PROVE NewFrame(c) \in Frame
  BY ConstantsAssumption DEF NewFrame, Frame, Pc, Dead, Outcome
<1>2. (CHOOSE c \in Contract : TRUE) \in Contract
  BY ConstantsAssumption
<1>. QED BY <1>1, <1>2 DEF NoFrame

(* Leaving execute(), by return or by an ftl::exception, keeps the types.  *)
LEMMA ReturnType ==
    ASSUME TypeOK, depth > 0, NEW STATE o, o \in Outcome, Return(o), gas' \in 0..GasLimit,
           signal' \in [env: 0..Dead, catching: BOOLEAN, operand: 0..Dead]
    PROVE  TypeOK'
<1>1. frame' \in [1..MaxDepth -> Frame]
  <2>1. ASSUME NEW d \in 1..MaxDepth
        PROVE  [frame[d] EXCEPT !.nested = Worst(frame[d].nested, o)] \in Frame
    <3>1. frame[d] \in Frame
      BY DEF TypeOK
    <3>2. Worst(frame[d].nested, o) \in Outcome
      BY <3>1 DEF Worst, Outcome, Frame
    <3>. QED BY <3>1, <3>2 DEF Frame
  <2>2. \A d \in 1..MaxDepth : Pop(o)[d] \in Frame
    BY <2>1, NewFrameType DEF Pop, TypeOK
  <2>. QED BY <2>2 DEF Return, Pop
<1>2. depth' \in 0..MaxDepth
  BY ConstantsAssumption DEF Return, TypeOK
<1>3. /\ insts' \subseteq Obj
      /\ mems' \subseteq Obj
      /\ content' \in [Obj -> [by: Obj \cup {None}, version: Nat]]
      /\ theMemory' \in Obj \cup {None}
  BY DEF Return, ReleaseGuard, heapVars, Blank, TypeOK
<1>. QED BY <1>1, <1>2, <1>3 DEF Return, TypeOK

LEMMA ThrowFtlType ==
    ASSUME TypeOK, depth > 0, ThrowFtl, gas' \in 0..GasLimit
    PROVE  TypeOK'
<1>1. Dangle(signal, depth) \in [env: 0..Dead, catching: BOOLEAN, operand: 0..Dead]
  BY ConstantsAssumption DEF TypeOK, Dangle, Dead
<1>2. (IF InWasm(Top) THEN "failed" ELSE "none") \in Outcome
  BY DEF Outcome
<1>. QED BY <1>1, <1>2, ReturnType DEF ThrowFtl

LEMMA EscapeType ==
    ASSUME TypeOK, EscapeLibrary, gas' \in 0..GasLimit
    PROVE  TypeOK'
  BY DEF EscapeLibrary, TypeOK, heapVars

LEMMA InvocationEndsType ==
    ASSUME TypeOK, depth > 0, InvocationEnds, gas' \in 0..GasLimit
    PROVE  TypeOK'
<1>. depth \in 1..MaxDepth /\ Top \in Frame
  BY DEF TypeOK, Top
<1>1. LeaveCatch(Top) \in [env: 0..Dead, catching: BOOLEAN, operand: 0..Dead]
  BY ConstantsAssumption DEF LeaveCatch, Frame, Dead
<1>2. [env |-> depth, catching |-> TRUE, operand |-> depth]
         \in [env: 0..Dead, catching: BOOLEAN, operand: 0..Dead]
  BY ConstantsAssumption DEF Dead, TypeOK
<1>3. CASE Top.pc = "start"
  <2>1. frame' \in [1..MaxDepth -> Frame]
    <3>1. [Top EXCEPT !.pc = "apply", !.nested = "none"] \in Frame
      BY DEF Frame, Pc, Outcome
    <3>. QED BY <1>3, <3>1 DEF InvocationEnds, SetTop, TypeOK, Top
  <2>. QED BY <1>1, <1>2, <1>3, <2>1 DEF InvocationEnds, EnterCatch, TypeOK, heapVars
<1>4. CASE Top.pc # "start"
  <2>1. Return("ran") /\ signal' = LeaveCatch(Top)
    BY <1>4 DEF InvocationEnds
  <2>2. "ran" \in Outcome
    BY DEF Outcome
  <2>. QED BY <1>1, <2>1, <2>2, ReturnType
<1>. QED BY <1>3, <1>4

(* Every step keeps the types.                                             *)
LEMMA TypeStep ==
    ASSUME TypeOK, [Next]_vars
    PROVE  TypeOK'
<1>0. CASE UNCHANGED vars
  BY <1>0 DEF vars, TypeOK
<1>1. ASSUME NEW c \in Contract, Execute(c) PROVE TypeOK'
  <2>1. depth' \in 0..MaxDepth /\ gas' \in 0..GasLimit
    BY <1>1, ConstantsAssumption DEF Execute, TypeOK
  <2>2. frame' \in [1..MaxDepth -> Frame]
    <3>1. ASSUME NEW d \in 1..MaxDepth, d = depth
          PROVE  [frame[d] EXCEPT !.hostCalls = frame[d].hostCalls + 1] \in Frame
      <4>1. frame[d] \in Frame /\ frame[d].hostCalls \in 0..MaxHostCalls
        BY DEF TypeOK, Frame
      <4>2. frame[d].hostCalls + 1 \in 0..MaxHostCalls
        BY <1>1, <3>1, <4>1, ConstantsAssumption DEF Execute, Top
      <4>. QED BY <4>1, <4>2 DEF Frame
    <3>. QED BY <1>1, <3>1, NewFrameType DEF Execute, TypeOK
  <2>. QED BY <1>1, <2>1, <2>2 DEF Execute, TypeOK, heapVars
<1>b. ASSUME UNCHANGED gas PROVE gas' \in 0..GasLimit
  BY <1>b DEF TypeOK
<1>a. ASSUME depth > 0 PROVE depth \in 1..MaxDepth /\ Top \in Frame
  BY <1>a DEF TypeOK, Top
<1>2. CASE InstantiateFails
  BY <1>2, <1>b, ThrowFtlType DEF InstantiateFails
<1>3. CASE InstantiateOutOfMemory
  BY <1>3, <1>b, EscapeType DEF InstantiateOutOfMemory
<1>4. CASE Instantiate
  <2>. depth \in 1..MaxDepth /\ Top \in Frame
    BY <1>4, <1>a DEF Instantiate
  <2>1. ASSUME NEW i \in Obj, NEW m \in Obj
        PROVE  /\ [Top EXCEPT !.pc = "call", !.inst = i] \in Frame
               /\ [Top EXCEPT !.pc = "call", !.inst = i, !.mem = m] \in Frame
    BY DEF Frame, Pc
  <2>2. frame' \in [1..MaxDepth -> Frame]
    <3>1. theMemory # None => theMemory \in Obj
      BY DEF TypeOK
    <3>2. PICK f \in Frame : SetTop(f)
      <4>1. PICK i \in Obj \ (insts \cup mems) : 
               \/ SetTop([Top EXCEPT !.pc = "call", !.inst = i])
               \/ \E m \in Obj : SetTop([Top EXCEPT !.pc = "call", !.inst = i, !.mem = m])
        BY <1>4, <3>1, Zenon DEF Instantiate
      <4>. QED BY <2>1, <4>1, Zenon
    <3>. QED BY <3>2 DEF SetTop, TypeOK
  <2>3. /\ insts' \subseteq Obj
        /\ mems' \subseteq Obj
        /\ content' \in [Obj -> [by: Obj \cup {None}, version: Nat]]
        /\ theMemory' \in Obj \cup {None}
    <3>1. PICK i \in Obj : insts' = insts \cup {i}
      BY <1>4, Zenon DEF Instantiate
    <3>2. \/ UNCHANGED <<mems, content, theMemory>>
          \/ \E m \in Obj : /\ mems' = mems \cup {m}
                           /\ content' = [content EXCEPT ![m] = Blank]
                           /\ theMemory' = m
      BY <1>4, Zenon DEF Instantiate
    <3>. QED BY <3>1, <3>2 DEF TypeOK, Blank
  <2>. QED BY <1>4, <2>2, <2>3 DEF Instantiate, TypeOK
<1>5. CASE CallAbsent
  <2>1. "none" \in Outcome
    BY DEF Outcome
  <2>. QED BY <1>5, <1>b, <2>1, ReturnType DEF CallAbsent, TypeOK
<1>6. CASE CallArity
  BY <1>6, <1>b, ThrowFtlType DEF CallArity
<1>7. CASE Call
  <2>. depth \in 1..MaxDepth /\ Top \in Frame
    BY <1>7, <1>a DEF Call
  <2>1. ASSUME NEW p \in {"start", "apply"}
        PROVE  [Top EXCEPT !.pc = p, !.oldEnv = signal.env,
                           !.oldCatching = signal.catching] \in Frame
    BY DEF Frame, Pc, TypeOK
  <2>2. frame' \in [1..MaxDepth -> Frame]
    BY <1>7, <2>1 DEF Call, SetTop, TypeOK, Top
  <2>3. content' \in [Obj -> [by: Obj \cup {None}, version: Nat]]
    BY <1>7 DEF Call, TypeOK, Image, Frame
  <2>4. rctx' \in [mem: Obj \cup {None}, ctx: Obj \cup {None}]
    BY <1>7 DEF Call, Frame
  <2>5. signal' \in [env: 0..Dead, catching: BOOLEAN, operand: 0..Dead]
    <3>1. [env |-> depth, catching |-> TRUE, operand |-> depth]
             \in [env: 0..Dead, catching: BOOLEAN, operand: 0..Dead]
      BY ConstantsAssumption DEF Dead
    <3>2. signal \in [env: 0..Dead, catching: BOOLEAN, operand: 0..Dead]
      BY DEF TypeOK
    <3>. QED BY <1>7, <3>1, <3>2 DEF Call, EnterCatch
  <2>. QED BY <1>7, <2>2, <2>3, <2>4, <2>5 DEF Call, TypeOK
<1>8. CASE CallOutOfMemory
  BY <1>8, <1>b, EscapeType DEF CallOutOfMemory
<1>9. CASE WasmReturn
  BY <1>9, <1>b, InvocationEndsType DEF WasmReturn, Running
<1>10. CASE AssertFails
  BY <1>10, <1>b, ThrowFtlType DEF AssertFails, Running
<1>11. CASE BadPointer
  BY <1>11, <1>b, EscapeType DEF BadPointer
<1>12. CASE FtlExit
  <2>1. CASE gas < GasCallBase
    BY <1>12, <1>b, <2>1, ThrowFtlType DEF FtlExit, UseGas, Running
  <2>2. CASE ~(gas < GasCallBase)
    <3>1. gas' \in 0..GasLimit
      BY <1>12, <2>2, ConstantsAssumption DEF FtlExit, UseGas, TypeOK
    <3>2. CASE signal.env = depth
      BY <1>12, <2>2, <3>1, <3>2, InvocationEndsType DEF FtlExit, UseGas, Running
    <3>3. CASE signal.env # depth
      BY <1>12, <2>2, <3>1, <3>3 DEF FtlExit, UseGas, TypeOK, heapVars
    <3>. QED BY <3>2, <3>3
  <2>. QED BY <2>1, <2>2
<1>13. CASE Trap
  <2>. depth \in 1..MaxDepth /\ Top \in Frame
    BY <1>13, <1>a DEF Trap, Running
  <2>1. signal' \in [env: 0..Dead, catching: BOOLEAN, operand: 0..Dead]
    BY <1>13, ConstantsAssumption DEF Trap, LeaveCatch, TypeOK, Frame, Dead
  <2>. QED BY <1>13, <2>1 DEF Trap, TypeOK, heapVars
<1>14. CASE CallAction
  <2>. depth \in 1..MaxDepth /\ Top \in Frame
    BY <1>14, <1>a DEF CallAction, Running
  <2>1. CASE gas < GasCallBase
    BY <1>14, <1>b, <2>1, ThrowFtlType DEF CallAction, UseGas, Running
  <2>2. CASE ~(gas < GasCallBase)
    <3>1. gas' \in 0..GasLimit
      BY <1>14, <2>2, ConstantsAssumption DEF CallAction, UseGas, TypeOK
    <3>2. [Top EXCEPT !.inCallback = TRUE, !.hostCalls = 0] \in Frame
      <4>1. 0 \in 0..MaxHostCalls
        BY ConstantsAssumption
      <4>. QED BY <4>1 DEF Frame
    <3>3. frame' \in [1..MaxDepth -> Frame]
      BY <1>14, <2>2, <3>2 DEF CallAction, UseGas, SetTop, TypeOK, Top
    <3>. QED BY <1>14, <2>2, <3>1, <3>3 DEF CallAction, UseGas, TypeOK, heapVars
  <2>. QED BY <2>1, <2>2
<1>15. CASE CallbackReturns
  <2>. depth \in 1..MaxDepth /\ Top \in Frame
    BY <1>15, <1>a DEF CallbackReturns
  <2>1. [Top EXCEPT !.inCallback = FALSE] \in Frame
    BY DEF Frame
  <2>2. frame' \in [1..MaxDepth -> Frame]
    BY <1>15, <2>1 DEF CallbackReturns, SetTop, TypeOK, Top
  <2>3. /\ rctx' \in [mem: Obj \cup {None}, ctx: Obj \cup {None}]
        /\ theMemory' \in Obj \cup {None}
    BY <1>15 DEF CallbackReturns, Frame
  <2>. QED BY <1>15, <2>2, <2>3 DEF CallbackReturns, TypeOK, heapVars
<1>16. ASSUME NEW n \in GasStep, NEW m \in Obj \cup {None}, Compute(n, m)
       PROVE  TypeOK'
  <2>1. CASE gas < n
    BY <1>16, <1>b, <2>1, ThrowFtlType DEF Compute, UseGas, Running
  <2>2. CASE ~(gas < n)
    <3>1. gas' \in 0..GasLimit
      BY <1>16, <2>2, ConstantsAssumption DEF Compute, UseGas, TypeOK
    <3>2. content' \in [Obj -> [by: Obj \cup {None}, version: Nat]]
      BY <1>16, <2>2 DEF Compute, UseGas, TypeOK
    <3>. QED BY <1>16, <2>2, <3>1, <3>2 DEF Compute, UseGas, TypeOK
  <2>. QED BY <2>1, <2>2
<1>17. CASE Terminated
  BY <1>17 DEF Terminated, vars, TypeOK
<1>. QED BY <1>0, <1>1, <1>2, <1>3, <1>4, <1>5, <1>6, <1>7, <1>8, <1>9, <1>10,
            <1>11, <1>12, <1>13, <1>14, <1>15, <1>16, <1>17 DEF Next, Library

(* Every variable keeps its type along every behaviour of the library,     *)
(* through nesting, exceptions, exits and traps.                           *)
THEOREM Typing == Spec => []TypeOK
<1>1. Init => TypeOK
  BY ConstantsAssumption, NewFrameType
     DEF Init, TypeOK, Blank, NoSignal, Dead
<1>2. TypeOK /\ [Next]_vars => TypeOK'
  BY TypeStep
<1>. QED BY <1>1, <1>2, PTL DEF Spec

-----------------------------------------------------------------------------
(* The inductive invariant is preserved.                                   *)

(* What a return leaves of the stack: the activations below keep all but   *)
(* their record of nested outcomes.                                        *)
LEMMA PopFacts ==
    ASSUME TypeOK, depth > 0, NEW STATE o, o \in Outcome, Return(o)
    PROVE  /\ depth' = depth - 1 /\ depth' \in 0..MaxDepth
           /\ \A d \in 1..depth' :
                 /\ d \in 1..depth /\ d # depth
                 /\ frame'[d].pc = frame[d].pc
                 /\ frame'[d].inCallback = frame[d].inCallback
                 /\ frame'[d].inst = frame[d].inst
                 /\ frame'[d].mem = frame[d].mem
                 /\ frame'[d].oldEnv = frame[d].oldEnv
                 /\ frame'[d].oldCatching = frame[d].oldCatching
                 /\ frame'[d].nested = IF d = depth' THEN Worst(frame[d].nested, o)
                                       ELSE frame[d].nested
<1>1. depth' = depth - 1 /\ depth' \in 0..MaxDepth
  BY ConstantsAssumption DEF Return, TypeOK
<1>2. ASSUME NEW d \in 1..depth'
      PROVE  /\ d \in 1..depth /\ d # depth /\ d \in 1..MaxDepth
             /\ d + 1 = depth <=> d = depth'
  BY <1>1, ConstantsAssumption DEF TypeOK
<1>3. ASSUME NEW d \in 1..depth'
      PROVE  frame'[d] = IF d = depth'
                         THEN [frame[d] EXCEPT !.nested = Worst(frame[d].nested, o)]
                         ELSE frame[d]
  BY <1>2 DEF Return, Pop
<1>4. \A d \in 1..MaxDepth : frame[d] \in Frame
  BY DEF TypeOK
<1>5. ASSUME NEW d \in 1..depth'
      PROVE  /\ d \in 1..depth /\ d # depth
             /\ frame'[d].pc = frame[d].pc
             /\ frame'[d].inCallback = frame[d].inCallback
             /\ frame'[d].inst = frame[d].inst
             /\ frame'[d].mem = frame[d].mem
             /\ frame'[d].oldEnv = frame[d].oldEnv
             /\ frame'[d].oldCatching = frame[d].oldCatching
             /\ frame'[d].nested = IF d = depth' THEN Worst(frame[d].nested, o)
                                   ELSE frame[d].nested
  <2>1. d \in 1..depth /\ d # depth /\ frame[d] \in Frame
    BY <1>2, <1>4
  <2>2. CASE d = depth'
    BY <1>3, <2>1, <2>2 DEF Frame
  <2>3. CASE d # depth'
    BY <1>3, <2>1, <2>3
  <2>. QED BY <2>2, <2>3
<1>. QED BY <1>1, <1>5

(* A return keeps the stack's shape and every statement about memory.      *)
LEMMA ReturnHeap ==
    ASSUME IInv, depth > 0, NEW STATE o, o \in Outcome, Return(o)
    PROVE  /\ StackShape' /\ NoDangling' /\ HeapEmptyWhenIdle'
           /\ MemoryDiscipline' /\ MemoryIsolation' /\ RunningContext'
<1>. USE PopFacts
<1>0. TypeOK
  BY DEF IInv
<1>1. StackShape'
  <2>1. StackShape
    BY DEF IInv
  <2>2. ASSUME NEW d \in 1..depth'
        PROVE  /\ frame'[d].inCallback
               /\ InWasm(frame'[d])
    BY <1>0, <2>1 DEF StackShape, InWasm
  <2>. QED BY <2>2 DEF StackShape, InWasm
<1>2. HeapEmptyWhenIdle'
  <2>1. CASE depth = 1
    BY <2>1 DEF IInv, HeapEmptyWhenIdle, NoDangling, Return, ReleaseGuard
  <2>2. CASE depth # 1
    <3>1. depth' # 0
      BY <1>0, <2>2 DEF TypeOK
    <3>. QED BY <3>1 DEF HeapEmptyWhenIdle
  <2>. QED BY <2>1, <2>2
<1>3. NoDangling'
  <2>1. CASE depth = 1
    BY <1>0, <2>1 DEF IInv, NoDangling, Return, ReleaseGuard
  <2>2. CASE depth # 1
    BY <1>0, <2>2 DEF IInv, NoDangling, Return, ReleaseGuard, heapVars
  <2>. QED BY <2>1, <2>2
<1>4. MemoryDiscipline'
  <2>1. CASE depth = 1
    BY <1>0, <2>1 DEF MemoryDiscipline
  <2>2. CASE depth # 1
    BY <1>0, <2>2 DEF IInv, MemoryDiscipline, Return, ReleaseGuard, heapVars
  <2>. QED BY <2>1, <2>2
<1>5. MemoryIsolation'
  <2>1. CASE depth = 1
    BY <1>0, <2>1 DEF MemoryIsolation
  <2>2. CASE depth # 1
    BY <1>0, <2>2 DEF IInv, MemoryIsolation, InWasm, Return, ReleaseGuard, heapVars
  <2>. QED BY <2>1, <2>2
<1>6. RunningContext'
  BY <1>0 DEF IInv, StackShape, RunningContext, Running, Top
<1>. QED BY <1>1, <1>2, <1>3, <1>4, <1>5, <1>6

(* ... and about signals, whether the activation never entered wasm, left  *)
(* it at the end of catchHardwareTraps, or was thrown out of it.           *)
LEMMA ReturnSignals ==
    ASSUME IInv, mode = "ok", depth > 0, NEW STATE o, o \in Outcome, Return(o),
           \/ ~InWasm(Top) /\ o = "none" /\ signal' \in {signal, Dangle(signal, depth)}
           \/ InWasm(Top) /\ o = "ran" /\ signal' = LeaveCatch(Top)
           \/ InWasm(Top) /\ o = "failed"
    PROVE  SignalDiscipline'
<1>. USE PopFacts
<1>0. TypeOK /\ StackShape /\ SignalDiscipline
  BY DEF IInv
<1>1. ASSUME NEW d \in 1..depth', Serves(d)'
      PROVE  d = depth' /\ d + 1 = depth /\ InWasm(frame[d])
  BY <1>0, <1>1 DEF StackShape, Serves, InWasm, TypeOK
<1>2. ASSUME NEW d \in 1..depth', Serves(d)', frame'[d].nested # "failed"
      PROVE  signal'.env = d /\ signal'.catching
  <2>1. /\ d + 1 = depth /\ InWasm(frame[d]) /\ o # "failed"
        /\ frame[d].nested # "failed"
    BY <1>0, <1>1, <1>2 DEF Worst, Outcome
  <2>2. CASE ~InWasm(Top) /\ o = "none" /\ signal' \in {signal, Dangle(signal, depth)}
    <3>1. signal.env = d /\ signal.catching /\ signal.env # depth
      BY <1>0, <2>1, <2>2 DEF SignalDiscipline, Serves, Top, TypeOK
    <3>. QED BY <2>2, <3>1 DEF Dangle
  <2>3. CASE InWasm(Top) /\ o = "ran" /\ signal' = LeaveCatch(Top)
    BY <1>0, <2>1, <2>3 DEF SignalDiscipline, LeaveCatch, Top, TypeOK
  <2>. QED BY <2>1, <2>2, <2>3
<1>3. ASSUME NEW d \in 1..depth', Serves(d)', frame'[d].nested = "none"
      PROVE  signal'.operand = d
  <2>1. /\ d + 1 = depth /\ InWasm(frame[d]) /\ o = "none"
        /\ frame[d].nested = "none"
    BY <1>0, <1>1, <1>3 DEF Worst, Outcome
  <2>2. signal.operand = d /\ signal.operand # depth
    BY <1>0, <2>1 DEF SignalDiscipline, Serves, Top, TypeOK
  <2>. QED BY <2>1, <2>2 DEF Dangle
<1>4. ASSUME NEW d \in 1..depth', NEW e \in 1..depth', e = d + 1,
             InWasm(frame'[e]), frame'[d].nested # "failed"
      PROVE  frame'[e].oldEnv = d /\ frame'[e].oldCatching
  <2>1. d # depth' /\ frame[d].nested # "failed" /\ InWasm(frame[e])
    BY <1>0, <1>4 DEF InWasm, TypeOK
  <2>. QED BY <1>0, <1>4, <2>1 DEF SignalDiscipline
<1>. QED BY <1>2, <1>3, <1>4 DEF SignalDiscipline

LEMMA ThrowFtlInv ==
    ASSUME IInv, mode = "ok", depth > 0, ThrowFtl, gas' \in 0..GasLimit
    PROVE  IInv'
<1>1. PICK o \in Outcome : /\ Return(o)
                           /\ \/ ~InWasm(Top) /\ o = "none"
                              \/ InWasm(Top) /\ o = "failed"
  BY DEF ThrowFtl, Outcome
<1>2. TypeOK'
  BY ThrowFtlType DEF IInv
<1>3. SignalDiscipline'
  BY <1>1, ReturnSignals DEF ThrowFtl
<1>. QED BY <1>1, <1>2, <1>3, ReturnHeap DEF IInv

(* Leaving the library changes nothing but the mode.                       *)
LEMMA EscapeInv ==
    ASSUME IInv, EscapeLibrary, gas' \in 0..GasLimit
    PROVE  IInv'
<1>1. TypeOK'
  BY EscapeType DEF IInv
<1>. QED
  BY <1>1 DEF IInv, EscapeLibrary, heapVars, StackShape, NoDangling, HeapEmptyWhenIdle,
              MemoryDiscipline, MemoryIsolation, RunningContext, Running, InWasm

(* A step that only moves the innermost activation from wasm to wasm, in   *)
(* or out of a callback, or into its next invocation.                      *)
LEMMA SetTopFacts ==
    ASSUME TypeOK, depth > 0, NEW STATE f, SetTop(f), UNCHANGED depth
    PROVE  /\ depth \in 1..MaxDepth /\ depth \in 1..depth
           /\ frame'[depth] = f /\ Top' = f
           /\ \A d \in 1..depth : d # depth => frame'[d] = frame[d]
<1>1. depth \in 1..MaxDepth /\ depth \in 1..depth /\ 1..depth \subseteq 1..MaxDepth
  BY ConstantsAssumption DEF TypeOK
<1>. QED BY <1>1 DEF TypeOK, SetTop, Top

(* SameButTop: the statements about memory do not notice a change of the   *)
(* innermost activation that keeps its instance and its memory and stays   *)
(* in wasm.                                                                *)
LEMMA SameMemory ==
    ASSUME IInv, depth > 0, NEW STATE f, SetTop(f), InWasm(Top), InWasm(f),
           f.inst = Top.inst, f.mem = Top.mem,
           UNCHANGED <<depth, insts, mems, theMemory>>,
           \A m \in Obj : content'[m].by = content[m].by,
           f.inCallback => Top.inCallback
    PROVE  StackShape' /\ NoDangling' /\ HeapEmptyWhenIdle'
           /\ MemoryDiscipline' /\ MemoryIsolation'
<1>. USE SetTopFacts
<1>0. TypeOK
  BY DEF IInv
<1>a. \A d \in 1..depth : /\ frame'[d].inst = frame[d].inst
                          /\ frame'[d].mem = frame[d].mem
                          /\ InWasm(frame'[d]) <=> InWasm(frame[d])
                          /\ frame'[d].inCallback => frame[d].inCallback
                          /\ d # depth => frame'[d] = frame[d]
                          /\ frame'[d].pc = "instantiate" <=> frame[d].pc = "instantiate"
  BY <1>0 DEF Top, InWasm
<1>1. StackShape'
  BY <1>a DEF IInv, StackShape
<1>2. NoDangling' /\ HeapEmptyWhenIdle'
  BY <1>a DEF IInv, NoDangling, HeapEmptyWhenIdle
<1>3. MemoryDiscipline'
  BY <1>a DEF IInv, MemoryDiscipline
<1>4. MemoryIsolation'
  <2>1. \A d \in 1..depth : InWasm(frame[d]) /\ frame[d].mem # None => frame[d].mem \in Obj
    BY <1>0 DEF IInv, NoDangling, InWasm, TypeOK
  <2>. QED BY <1>a, <2>1 DEF IInv, MemoryIsolation
<1>. QED BY <1>1, <1>2, <1>3, <1>4

LEMMA InvocationEndsInv ==
    ASSUME IInv, Running, InvocationEnds, gas' \in 0..GasLimit
    PROVE  IInv'
<1>. depth > 0 /\ mode = "ok" /\ InWasm(Top) /\ TypeOK /\ SignalDiscipline
  BY DEF Running, IInv
<1>0. TypeOK'
  BY InvocationEndsType DEF IInv
<1>1. CASE Top.pc = "start" /\ Entry[Top.contract] = "ok"
  <2> DEFINE f == [Top EXCEPT !.pc = "apply", !.nested = "none"]
  <2>1. SetTop(f) /\ EnterCatch(depth) /\ UNCHANGED <<mode, depth, heapVars, theMemory, rctx>>
    BY <1>1 DEF InvocationEnds
  <2>2. Top \in Frame
    BY DEF TypeOK, Top
  <2>3. /\ InWasm(f) /\ f.inst = Top.inst /\ f.mem = Top.mem
        /\ f.inCallback = Top.inCallback /\ f.nested = "none"
        /\ f.oldEnv = Top.oldEnv /\ f.oldCatching = Top.oldCatching
    BY <2>2 DEF Frame, InWasm
  <2>. HIDE DEF f
  <2>4. StackShape' /\ NoDangling' /\ HeapEmptyWhenIdle' /\ MemoryDiscipline' /\ MemoryIsolation'
    BY <2>1, <2>3, SameMemory DEF heapVars
  <2>5. RunningContext'
    BY <2>1, <2>3, SetTopFacts DEF IInv, RunningContext, Running
  <2>6. SignalDiscipline'
    <3>. USE SetTopFacts
    <3>1. ASSUME NEW d \in 1..depth, Serves(d)' PROVE d = depth
      BY <2>1, <2>3, <3>1 DEF Serves
    <3>2. ASSUME NEW d \in 1..depth, NEW e \in 1..depth, e = d + 1,
                 InWasm(frame'[e]), frame'[d].nested # "failed"
          PROVE  frame'[e].oldEnv = d /\ frame'[e].oldCatching
      BY <2>1, <2>3, <3>2 DEF SignalDiscipline, Top
    <3>. QED BY <2>1, <3>1, <3>2 DEF SignalDiscipline, EnterCatch
  <2>. QED BY <1>0, <2>4, <2>5, <2>6 DEF IInv
<1>2. CASE Top.pc = "start" /\ Entry[Top.contract] # "ok"
  <2>1. mode' = "escaped" /\ UNCHANGED <<depth, frame, heapVars, theMemory, rctx>>
    BY <1>2 DEF InvocationEnds
  <2>. QED BY <1>0, <2>1 DEF IInv, heapVars, StackShape, NoDangling, HeapEmptyWhenIdle,
              MemoryDiscipline, MemoryIsolation, RunningContext, Running, InWasm
<1>3. CASE Top.pc # "start"
  <2>1. Return("ran") /\ signal' = LeaveCatch(Top) /\ "ran" \in Outcome
    BY <1>3 DEF InvocationEnds, Outcome
  <2>2. SignalDiscipline'
    BY <2>1, ReturnSignals
  <2>. QED BY <1>0, <2>1, <2>2, ReturnHeap DEF IInv
<1>. QED BY <1>1, <1>2, <1>3

(* A new activation on top of one that waits in call_action, or of none.   *)
LEMMA ExecuteInv ==
    ASSUME IInv, NEW c \in Contract, Execute(c), TypeOK'
    PROVE  IInv'
<1>. TypeOK /\ StackShape
  BY DEF IInv
<1>1. depth' = depth + 1 /\ depth \in 0..MaxDepth /\ depth' \in 1..MaxDepth
  BY ConstantsAssumption DEF Execute, TypeOK
<1>2. /\ frame'[depth'].pc = "instantiate" /\ ~frame'[depth'].inCallback
      /\ frame'[depth'].inst = None /\ frame'[depth'].mem = None
  BY <1>1 DEF Execute, NewFrame
<1>3. ASSUME NEW d \in 1..depth', d # depth'
      PROVE  /\ d \in 1..depth
             /\ frame'[d].pc = frame[d].pc
             /\ frame'[d].inCallback = frame[d].inCallback
             /\ frame'[d].inst = frame[d].inst
             /\ frame'[d].mem = frame[d].mem
             /\ frame'[d].oldEnv = frame[d].oldEnv
             /\ frame'[d].oldCatching = frame[d].oldCatching
             /\ frame'[d].nested = frame[d].nested
  <2>1. d \in 1..depth /\ d \in 1..MaxDepth /\ d # depth + 1
    BY <1>1, <1>3, ConstantsAssumption
  <2>a. frame[d] \in Frame
    BY <2>1 DEF TypeOK
  <2>2. frame'[d] = IF d = depth
                    THEN [frame[d] EXCEPT !.hostCalls = frame[d].hostCalls + 1]
                    ELSE frame[d]
    BY <2>1 DEF Execute
  <2>3. CASE d = depth
    BY <2>1, <2>a, <2>2, <2>3 DEF Frame
  <2>4. CASE d # depth
    BY <2>1, <2>2, <2>4
  <2>. QED BY <2>3, <2>4
<1>4. \A d \in 1..depth : frame[d].inCallback /\ InWasm(frame[d])
  BY <1>1 DEF Execute, HostRuns, Top, StackShape
<1>5. mode = "ok" /\ mode' = "ok" /\ UNCHANGED <<insts, mems, content, theMemory, rctx, signal>>
  BY DEF Execute, HostRuns, heapVars
<1>6. StackShape'
  BY <1>1, <1>2, <1>3, <1>4 DEF StackShape, InWasm
<1>7. NoDangling' /\ HeapEmptyWhenIdle'
  BY <1>1, <1>2, <1>3, <1>5 DEF IInv, NoDangling, HeapEmptyWhenIdle
<1>8. MemoryDiscipline'
  BY <1>1, <1>2, <1>3, <1>5 DEF IInv, MemoryDiscipline
<1>9. MemoryIsolation'
  BY <1>1, <1>2, <1>3, <1>5 DEF IInv, MemoryIsolation, InWasm
<1>10. RunningContext'
  BY <1>2 DEF RunningContext, Running, InWasm, Top
<1>11. SignalDiscipline'
  <2>0. SignalDiscipline
    BY <1>5 DEF IInv
  <2>1. ASSUME NEW d \in 1..depth', Serves(d)'
        PROVE  d = depth /\ d # depth' /\ Serves(d)
    <3>1. d # depth'
      BY <1>2, <2>1 DEF Serves, InWasm
    <3>2. d = depth
      BY <1>1, <2>1, <3>1 DEF Serves
    <3>. QED BY <1>4, <3>1, <3>2 DEF Serves
  <2>2. ASSUME NEW d \in 1..depth', NEW e \in 1..depth', e = d + 1,
               InWasm(frame'[e]), frame'[d].nested # "failed"
        PROVE  frame'[e].oldEnv = d /\ frame'[e].oldCatching
    <3>1. e # depth' /\ d # depth'
      BY <1>1, <1>2, <2>2 DEF InWasm
    <3>. QED BY <1>3, <2>0, <2>2, <3>1 DEF SignalDiscipline, InWasm
  <2>. QED BY <1>3, <1>5, <2>0, <2>1, <2>2 DEF SignalDiscipline
<1>. QED BY <1>6, <1>7, <1>8, <1>9, <1>10, <1>11 DEF IInv

(* A new instance, with no memory, with the memory theMemoryInstance names *)
(* or with a new one: in no case with the memory of a caller.              *)
LEMMA InstantiateInv ==
    ASSUME IInv, Instantiate, TypeOK'
    PROVE  IInv'
<1>. TypeOK /\ StackShape /\ depth > 0 /\ mode = "ok" /\ Top.pc = "instantiate"
  BY DEF IInv, Instantiate
<1>1. PICK i \in Obj \ (insts \cup mems), m \in Obj \cup {None} :
        /\ insts' = insts \cup {i}
        /\ SetTop([Top EXCEPT !.pc = "call", !.inst = i, !.mem = m])
        /\ \/ m = None /\ UNCHANGED <<mems, content, theMemory>>
           \/ m = theMemory /\ UNCHANGED <<mems, content, theMemory>>
           \/ /\ m \in Obj \ mems
              /\ mems' = mems \cup {m}
              /\ content' = [content EXCEPT ![m] = Blank]
              /\ theMemory' = m
  <2>0. Top \in Frame /\ Top.mem = None
    <3>1. depth \in 1..depth /\ depth \in 1..MaxDepth
      BY DEF TypeOK
    <3>. QED BY <3>1 DEF TypeOK, StackShape, Top
  <2>1. \A i \in Obj : [Top EXCEPT !.pc = "call", !.inst = i]
                      = [Top EXCEPT !.pc = "call", !.inst = i, !.mem = None]
    BY <2>0 DEF Frame
  <2>2. PICK i \in Obj \ (insts \cup mems) :
          /\ insts' = insts \cup {i}
          /\ \/ /\ SetTop([Top EXCEPT !.pc = "call", !.inst = i])
                /\ UNCHANGED <<mems, content, theMemory>>
             \/ /\ SetTop([Top EXCEPT !.pc = "call", !.inst = i, !.mem = theMemory])
                /\ UNCHANGED <<mems, content, theMemory>>
             \/ \E m \in Obj \ (insts \cup mems \cup {i}) :
                  /\ SetTop([Top EXCEPT !.pc = "call", !.inst = i, !.mem = m])
                  /\ mems' = mems \cup {m}
                  /\ content' = [content EXCEPT ![m] = Blank]
                  /\ theMemory' = m
    BY Zenon DEF Instantiate
  <2>3. theMemory \in Obj \cup {None}
    BY DEF TypeOK
  <2>4. CASE /\ SetTop([Top EXCEPT !.pc = "call", !.inst = i])
             /\ UNCHANGED <<mems, content, theMemory>>
    BY <2>1, <2>2, <2>4, Zenon
  <2>5. CASE /\ SetTop([Top EXCEPT !.pc = "call", !.inst = i, !.mem = theMemory])
             /\ UNCHANGED <<mems, content, theMemory>>
    BY <2>2, <2>3, <2>5, Zenon
  <2>6. CASE \E m \in Obj \ (insts \cup mems \cup {i}) :
                  /\ SetTop([Top EXCEPT !.pc = "call", !.inst = i, !.mem = m])
                  /\ mems' = mems \cup {m}
                  /\ content' = [content EXCEPT ![m] = Blank]
                  /\ theMemory' = m
    <3>1. PICK m \in Obj \ (insts \cup mems \cup {i}) :
                  /\ SetTop([Top EXCEPT !.pc = "call", !.inst = i, !.mem = m])
                  /\ mems' = mems \cup {m}
                  /\ content' = [content EXCEPT ![m] = Blank]
                  /\ theMemory' = m
      BY <2>6, Zenon
    <3>2. m \in Obj \ mems
      OBVIOUS
    <3>. QED BY <2>2, <3>1, <3>2, Zenon
  <2>. QED BY <2>2, <2>4, <2>5, <2>6, Zenon
<1> DEFINE f == [Top EXCEPT !.pc = "call", !.inst = i, !.mem = m]
<1>2. UNCHANGED <<mode, depth, gas, rctx, signal>>
  BY DEF Instantiate
<1>3. /\ f.pc = "call" /\ f.inst = i /\ f.mem = m
      /\ f.inCallback = Top.inCallback /\ f.nested = Top.nested
  BY DEF TypeOK, Top, Frame
<1>. HIDE DEF f
<1>4. /\ depth \in 1..depth
      /\ frame'[depth] = f /\ Top' = f
      /\ \A d \in 1..depth : d # depth => frame'[d] = frame[d]
  BY <1>1, <1>2, SetTopFacts DEF f
<1>5. ~f.inCallback
  BY <1>3, <1>4 DEF StackShape, InWasm, Top
<1>6. StackShape'
  BY <1>2, <1>3, <1>4, <1>5 DEF StackShape, InWasm
<1>7. NoDangling' /\ HeapEmptyWhenIdle'
  BY <1>1, <1>2, <1>3, <1>4 DEF IInv, NoDangling, HeapEmptyWhenIdle
<1>8. \A d \in 1..depth : d # depth /\ m # None => frame[d].mem # m
  BY <1>1, <1>4 DEF IInv, MemoryDiscipline, NoDangling, StackShape, InWasm
<1>9. MemoryDiscipline'
  <2>1. ASSUME NEW d \in 1..depth, NEW e \in 1..depth, d # e, frame'[d].mem # None
        PROVE  frame'[d].mem # frame'[e].mem
    BY <1>3, <1>4, <1>8, <2>1 DEF IInv, MemoryDiscipline
  <2>2. ASSUME NEW d \in 1..depth, frame'[d].inCallback, frame'[d].mem # None
        PROVE  theMemory' # frame'[d].mem
    BY <1>1, <1>3, <1>4, <1>5, <1>8, <2>2 DEF IInv, MemoryDiscipline
  <2>. QED BY <1>2, <2>1, <2>2 DEF MemoryDiscipline
<1>10. MemoryIsolation'
  <2>1. ASSUME NEW d \in 1..depth, InWasm(frame'[d]), frame'[d].mem # None
        PROVE  /\ frame'[d] = frame[d] /\ frame[d].mem # m
               /\ content'[frame[d].mem] = content[frame[d].mem]
    <3>1. d # depth
      BY <1>3, <1>4, <2>1 DEF InWasm
    <3>2. frame'[d] = frame[d] /\ frame[d].mem # m
      BY <1>4, <1>8, <2>1, <3>1
    <3>3. frame[d].mem \in Obj
      <4>1. d \in 1..MaxDepth
        BY ConstantsAssumption DEF TypeOK
      <4>2. frame[d] \in Frame
        BY <4>1 DEF TypeOK
      <4>. QED BY <2>1, <3>2, <4>2 DEF Frame
    <3>. QED BY <1>1, <3>2, <3>3 DEF TypeOK
  <2>. QED BY <1>2, <2>1 DEF IInv, MemoryIsolation
<1>11. RunningContext'
  BY <1>3, <1>4 DEF RunningContext, Running, InWasm
<1>12. SignalDiscipline'
  <2>0. ~InWasm(f) /\ ~InWasm(frame[depth])
    BY <1>3 DEF InWasm, Top
  <2>. QED BY <1>2, <1>3, <1>4, <2>0 DEF IInv, SignalDiscipline, Serves
<1>. QED BY <1>6, <1>7, <1>9, <1>10, <1>11, <1>12 DEF IInv

(* Entering wasm resets the memory of the innermost activation only, and   *)
(* publishes its context.                                                  *)
LEMMA CallInv ==
    ASSUME IInv, Call, TypeOK'
    PROVE  IInv'
<1>. TypeOK /\ StackShape /\ depth > 0 /\ mode = "ok" /\ Top.pc = "call" /\ SignalDiscipline
  BY DEF IInv, Call
<1>0. UNCHANGED <<depth, gas, insts, mems, theMemory>>
  BY DEF Call
<1>a. depth \in 1..depth /\ depth \in 1..MaxDepth /\ Top = frame[depth] /\ Top \in Frame
  BY ConstantsAssumption DEF TypeOK, Top
<1>b. /\ ~InWasm(Top) /\ ~Top.inCallback
      /\ Top.inst \in insts /\ Top.mem \in mems \cup {None}
  BY <1>a DEF IInv, StackShape, NoDangling, InWasm
<1>c. \A d \in 1..depth : /\ d # depth /\ Top.mem # None => frame[d].mem # Top.mem
                          /\ d # depth => frame[d].inCallback /\ InWasm(frame[d])
  BY <1>a DEF IInv, MemoryDiscipline, StackShape
<1>d. \A d \in 1..depth : frame[d].mem \in Obj \cup {None}
  <2>1. \A d \in 1..depth : d \in 1..MaxDepth
    BY ConstantsAssumption DEF TypeOK
  <2>. QED BY <2>1 DEF TypeOK, Frame
<1>e. \A x \in Obj : content'[x] = IF x = Top.mem THEN Image(Top.inst) ELSE content[x]
  <2>1. content' = IF Top.mem = None THEN content
                   ELSE [content EXCEPT ![Top.mem] = Image(Top.inst)]
    BY DEF Call
  <2>. QED BY <1>a, <1>d, <2>1, ConstantsAssumption DEF TypeOK
<1>1. CASE UNCHANGED frame /\ mode' = "escaped"
  <2>1. StackShape' /\ NoDangling' /\ HeapEmptyWhenIdle' /\ MemoryDiscipline' /\ RunningContext'
    BY <1>0, <1>1 DEF IInv, StackShape, NoDangling, HeapEmptyWhenIdle, MemoryDiscipline,
                      RunningContext, Running, InWasm
  <2>2. MemoryIsolation'
    BY <1>0, <1>1, <1>a, <1>b, <1>c, <1>d, <1>e DEF IInv, MemoryIsolation, InWasm
  <2>. QED BY <1>1, <2>1, <2>2 DEF IInv
<1>2. CASE /\ \E p \in {"start", "apply"} :
                SetTop([Top EXCEPT !.pc = p, !.oldEnv = signal.env,
                                   !.oldCatching = signal.catching])
           /\ EnterCatch(depth) /\ UNCHANGED mode
  <2>1. PICK p \in {"start", "apply"} :
                SetTop([Top EXCEPT !.pc = p, !.oldEnv = signal.env,
                                   !.oldCatching = signal.catching])
    BY <1>2
  <2> DEFINE f == [Top EXCEPT !.pc = p, !.oldEnv = signal.env,
                              !.oldCatching = signal.catching]
  <2>2. /\ InWasm(f) /\ f.inst = Top.inst /\ f.mem = Top.mem
        /\ f.inCallback = Top.inCallback /\ f.nested = Top.nested
        /\ f.oldEnv = signal.env /\ f.oldCatching = signal.catching
        /\ f.pc # "instantiate"
    BY <1>a DEF Frame, InWasm
  <2>. HIDE DEF f
  <2>3. /\ frame'[depth] = f /\ Top' = f
        /\ \A d \in 1..depth : d # depth => frame'[d] = frame[d]
    BY <1>0, <2>1, SetTopFacts DEF f
  <2>4. StackShape'
    BY <1>0, <1>b, <2>2, <2>3 DEF StackShape
  <2>5. NoDangling' /\ HeapEmptyWhenIdle'
    BY <1>0, <1>b, <2>2, <2>3 DEF IInv, NoDangling, HeapEmptyWhenIdle
  <2>6. MemoryDiscipline'
    BY <1>0, <1>a, <1>b, <2>2, <2>3 DEF IInv, MemoryDiscipline
  <2>7. MemoryIsolation'
    <3>1. ASSUME NEW d \in 1..depth, d # depth, frame'[d].mem # None
          PROVE  content'[frame'[d].mem].by = frame'[d].inst
      BY <1>c, <1>d, <1>e, <2>3, <3>1 DEF IInv, MemoryIsolation
    <3>2. ASSUME f.mem # None PROVE content'[f.mem].by = f.inst
      BY <1>a, <1>d, <1>e, <2>2, <3>2 DEF Image
    <3>. QED BY <1>0, <2>3, <3>1, <3>2 DEF MemoryIsolation
  <2>8. RunningContext'
    BY <2>2, <2>3 DEF RunningContext, Call
  <2>9. SignalDiscipline'
    <3>1. ASSUME NEW d \in 1..depth, Serves(d)' PROVE d = depth
      BY <1>0, <2>2, <2>3, <3>1 DEF Serves
    <3>2. ASSUME NEW d \in 1..depth, NEW e \in 1..depth, e = d + 1,
                 InWasm(frame'[e]), frame'[d].nested # "failed"
          PROVE  frame'[e].oldEnv = d /\ frame'[e].oldCatching
      <4>1. d # depth /\ frame'[d] = frame[d]
        BY <2>3, <3>2, ConstantsAssumption DEF TypeOK
      <4>2. CASE e = depth
        <5>1. Serves(d)
          BY <1>a, <1>b, <1>c, <3>2, <4>1, <4>2 DEF Serves
        <5>. QED BY <2>2, <2>3, <3>2, <4>1, <4>2, <5>1 DEF SignalDiscipline
      <4>3. CASE e # depth
        BY <2>3, <3>2, <4>1, <4>3 DEF SignalDiscipline
      <4>. QED BY <4>2, <4>3
    <3>. QED BY <1>0, <1>2, <3>1, <3>2 DEF SignalDiscipline, EnterCatch
  <2>. QED BY <2>4, <2>5, <2>6, <2>7, <2>8, <2>9 DEF IInv
<1>3. \/ UNCHANGED frame /\ mode' = "escaped"
      \/ /\ \E p \in {"start", "apply"} :
                SetTop([Top EXCEPT !.pc = p, !.oldEnv = signal.env,
                                   !.oldCatching = signal.catching])
         /\ EnterCatch(depth) /\ UNCHANGED mode
  <2>1. (IF HasStart[Top.contract] THEN "start" ELSE "apply") \in {"start", "apply"}
    OBVIOUS
  <2>. QED BY <2>1, Zenon DEF Call
<1>. QED BY <1>1, <1>2, <1>3

(* call_action leaves for the host: the memory stops being theMemory.      *)
LEMMA CallActionInv ==
    ASSUME IInv, Running, TypeOK',
           SetTop([Top EXCEPT !.inCallback = TRUE, !.hostCalls = 0]),
           theMemory' = None, UNCHANGED <<mode, depth, heapVars, rctx, signal>>
    PROVE  IInv'
<1>. TypeOK /\ StackShape /\ depth > 0 /\ InWasm(Top)
  BY DEF IInv, Running
<1> DEFINE f == [Top EXCEPT !.inCallback = TRUE, !.hostCalls = 0]
<1>1. /\ f.pc = Top.pc /\ f.inst = Top.inst /\ f.mem = Top.mem /\ f.inCallback
      /\ f.nested = Top.nested /\ f.oldEnv = Top.oldEnv /\ f.oldCatching = Top.oldCatching
  BY DEF TypeOK, Top, Frame
<1>. HIDE DEF f
<1>2. /\ depth \in 1..depth /\ frame'[depth] = f /\ Top' = f
      /\ \A d \in 1..depth : d # depth => frame'[d] = frame[d]
  BY SetTopFacts DEF f
<1>3. \A d \in 1..depth : /\ frame'[d].pc = frame[d].pc
                          /\ frame'[d].inst = frame[d].inst
                          /\ frame'[d].mem = frame[d].mem
                          /\ frame'[d].nested = frame[d].nested
                          /\ frame'[d].oldEnv = frame[d].oldEnv
                          /\ frame'[d].oldCatching = frame[d].oldCatching
                          /\ frame'[d].inCallback
  BY <1>1, <1>2 DEF Top, StackShape
<1>4. StackShape'
  BY <1>1, <1>2, <1>3 DEF StackShape, InWasm, Top
<1>5. NoDangling' /\ HeapEmptyWhenIdle'
  BY <1>3 DEF IInv, NoDangling, HeapEmptyWhenIdle, heapVars
<1>6. MemoryDiscipline'
  BY <1>3 DEF IInv, MemoryDiscipline
<1>7. MemoryIsolation'
  BY <1>3 DEF IInv, MemoryIsolation, InWasm, heapVars
<1>8. RunningContext'
  BY <1>1, <1>2 DEF RunningContext, Running
<1>9. mode = "ok" => SignalDiscipline'
  BY <1>3 DEF IInv, SignalDiscipline, Serves, InWasm
<1>. QED BY <1>4, <1>5, <1>6, <1>7, <1>8, <1>9 DEF IInv

(* The callback returns: theMemory and the running context name the memory *)
(* of this activation again, which no other activation shares.             *)
LEMMA CallbackReturnsInv ==
    ASSUME IInv, CallbackReturns, TypeOK'
    PROVE  IInv'
<1>. /\ TypeOK /\ StackShape /\ depth > 0 /\ mode = "ok" /\ Top.inCallback
     /\ UNCHANGED <<mode, depth, gas, heapVars, signal>>
  BY DEF IInv, CallbackReturns
<1> DEFINE f == [Top EXCEPT !.inCallback = FALSE]
<1>1. /\ f.pc = Top.pc /\ f.inst = Top.inst /\ f.mem = Top.mem /\ ~f.inCallback
      /\ f.nested = Top.nested /\ f.oldEnv = Top.oldEnv /\ f.oldCatching = Top.oldCatching
  BY DEF TypeOK, Top, Frame
<1>. HIDE DEF f
<1>2. /\ depth \in 1..depth /\ frame'[depth] = f /\ Top' = f
      /\ \A d \in 1..depth : d # depth => frame'[d] = frame[d]
  BY SetTopFacts DEF f, CallbackReturns
<1>3. \A d \in 1..depth : /\ frame'[d].pc = frame[d].pc
                          /\ frame'[d].inst = frame[d].inst
                          /\ frame'[d].mem = frame[d].mem
                          /\ frame'[d].nested = frame[d].nested
                          /\ frame'[d].oldEnv = frame[d].oldEnv
                          /\ frame'[d].oldCatching = frame[d].oldCatching
                          /\ frame'[d].inCallback => d # depth /\ frame[d].inCallback
  BY <1>1, <1>2 DEF Top
<1>4. StackShape'
  BY <1>2, <1>3 DEF StackShape, InWasm
<1>5. NoDangling' /\ HeapEmptyWhenIdle'
  <2>1. Top.mem \in mems \cup {None}
    BY <1>2 DEF IInv, NoDangling, StackShape, InWasm, Top
  <2>. QED BY <1>3, <2>1 DEF IInv, NoDangling, HeapEmptyWhenIdle, heapVars, CallbackReturns
<1>6. MemoryDiscipline'
  BY <1>2, <1>3 DEF IInv, MemoryDiscipline, CallbackReturns, Top
<1>7. MemoryIsolation'
  BY <1>3 DEF IInv, MemoryIsolation, InWasm, heapVars
<1>8. RunningContext'
  BY <1>1, <1>2 DEF RunningContext, CallbackReturns
<1>9. SignalDiscipline'
  BY <1>3 DEF IInv, SignalDiscipline, Serves, InWasm
<1>. QED BY <1>4, <1>5, <1>6, <1>7, <1>8, <1>9 DEF IInv

(* Wasm writes its own memory.                                             *)
LEMMA ComputeInv ==
    ASSUME IInv, Running, TypeOK', NEW m \in Obj \cup {None},
           content' = IF m = None THEN content ELSE [content EXCEPT ![m].version = @ + 1],
           UNCHANGED <<mode, depth, frame, insts, mems, theMemory, rctx, signal>>
    PROVE  IInv'
<1>1. \A x \in Obj : content'[x].by = content[x].by
  BY DEF IInv, TypeOK
<1>2. \A d \in 1..depth : frame[d].mem # None => frame[d].mem \in Obj
  <2>1. \A d \in 1..depth : d \in 1..MaxDepth
    BY ConstantsAssumption DEF IInv, TypeOK
  <2>. QED BY <2>1 DEF IInv, TypeOK, Frame
<1>3. MemoryIsolation'
  BY <1>1, <1>2 DEF IInv, MemoryIsolation, InWasm
<1>4. /\ StackShape' /\ NoDangling' /\ HeapEmptyWhenIdle' /\ MemoryDiscipline'
      /\ RunningContext'
  BY DEF IInv, StackShape, NoDangling, HeapEmptyWhenIdle, MemoryDiscipline,
         RunningContext, Running, InWasm, Top
<1>5. mode = "ok" => SignalDiscipline'
  BY DEF IInv, SignalDiscipline, Serves, InWasm
<1>. QED BY <1>3, <1>4, <1>5 DEF IInv

(* The mode changes, nothing else that matters.                            *)
LEMMA EndOfProcessInv ==
    ASSUME IInv, TypeOK', mode' # "ok",
           UNCHANGED <<depth, frame, heapVars, theMemory, rctx>>
    PROVE  IInv'
  BY DEF IInv, heapVars, StackShape, NoDangling, HeapEmptyWhenIdle,
         MemoryDiscipline, MemoryIsolation, RunningContext, Running, InWasm

-----------------------------------------------------------------------------
(* The theorems.                                                           *)

LEMMA InvInit == Init => IInv
<1>. SUFFICES ASSUME Init PROVE IInv
  OBVIOUS
<1>1. TypeOK
  BY ConstantsAssumption, NewFrameType DEF Init, TypeOK, Blank, NoSignal, Dead
<1>2. 1..depth = {}
  BY DEF Init
<1>. QED BY <1>1, <1>2 DEF Init, IInv, StackShape, NoDangling, HeapEmptyWhenIdle,
            MemoryDiscipline, MemoryIsolation, RunningContext, Running, SignalDiscipline

LEMMA InvStep ==
    ASSUME IInv, [Next]_vars
    PROVE  IInv'
<1>a. TypeOK'
  BY TypeStep DEF IInv
<1>b. gas' \in 0..GasLimit
  BY <1>a DEF TypeOK
<1>0. CASE UNCHANGED vars
  BY <1>0, <1>a DEF vars, IInv, StackShape, NoDangling, HeapEmptyWhenIdle, MemoryDiscipline,
              MemoryIsolation, RunningContext, Running, InWasm, Top, SignalDiscipline, Serves
<1>1. ASSUME NEW c \in Contract, Execute(c) PROVE IInv'
  BY <1>1, <1>a, ExecuteInv
<1>2. CASE InstantiateFails
  BY <1>2, <1>b, ThrowFtlInv DEF InstantiateFails
<1>3. CASE InstantiateOutOfMemory
  BY <1>3, <1>b, EscapeInv DEF InstantiateOutOfMemory
<1>4. CASE Instantiate
  BY <1>4, <1>a, InstantiateInv
<1>5. CASE CallAbsent
  <2>1. "none" \in Outcome /\ ~InWasm(Top)
    BY <1>5 DEF Outcome, CallAbsent, InWasm
  <2>2. SignalDiscipline'
    BY <1>5, <2>1, ReturnSignals DEF CallAbsent
  <2>. QED BY <1>5, <1>a, <2>1, <2>2, ReturnHeap DEF CallAbsent, IInv
<1>6. CASE CallArity
  BY <1>6, <1>b, ThrowFtlInv DEF CallArity
<1>7. CASE Call
  BY <1>7, <1>a, CallInv
<1>8. CASE CallOutOfMemory
  BY <1>8, <1>b, EscapeInv DEF CallOutOfMemory
<1>9. CASE WasmReturn
  BY <1>9, <1>b, InvocationEndsInv DEF WasmReturn
<1>10. CASE AssertFails
  BY <1>10, <1>b, ThrowFtlInv DEF AssertFails, Running
<1>11. CASE BadPointer
  BY <1>11, <1>b, EscapeInv DEF BadPointer
<1>12. CASE FtlExit
  <2>1. CASE gas < GasCallBase
    BY <1>12, <1>b, <2>1, ThrowFtlInv DEF FtlExit, UseGas, Running
  <2>2. CASE ~(gas < GasCallBase) /\ signal.env = depth
    BY <1>12, <1>b, <2>2, InvocationEndsInv DEF FtlExit, UseGas
  <2>3. CASE ~(gas < GasCallBase) /\ signal.env # depth
    BY <1>12, <1>a, <2>3, EndOfProcessInv DEF FtlExit, UseGas
  <2>. QED BY <2>1, <2>2, <2>3
<1>13. CASE Trap
  BY <1>13, <1>a, EndOfProcessInv DEF Trap
<1>14. CASE CallAction
  <2>1. CASE gas < GasCallBase
    BY <1>14, <1>b, <2>1, ThrowFtlInv DEF CallAction, UseGas, Running
  <2>2. CASE ~(gas < GasCallBase)
    BY <1>14, <1>a, <2>2, CallActionInv DEF CallAction, UseGas
  <2>. QED BY <2>1, <2>2
<1>15. CASE CallbackReturns
  BY <1>15, <1>a, CallbackReturnsInv
<1>16. ASSUME NEW n \in GasStep, NEW m \in Obj \cup {None}, Compute(n, m)
       PROVE  IInv'
  <2>1. CASE gas < n
    BY <1>16, <1>b, <2>1, ThrowFtlInv DEF Compute, UseGas, Running
  <2>2. CASE ~(gas < n)
    BY <1>16, <1>a, <2>2, ComputeInv DEF Compute, UseGas
  <2>. QED BY <2>1, <2>2
<1>17. CASE Terminated
  BY <1>0, <1>17 DEF Terminated
<1>. QED BY <1>0, <1>1, <1>2, <1>3, <1>4, <1>5, <1>6, <1>7, <1>8, <1>9, <1>10,
            <1>11, <1>12, <1>13, <1>14, <1>15, <1>16, <1>17 DEF Next, Library

(* The inductive invariant holds along every behaviour.                    *)
THEOREM Invariance == Spec => []IInv
<1>1. IInv /\ [Next]_vars => IInv'
  BY InvStep
<1>. QED BY InvInit, <1>1, PTL DEF Spec

(* Contracts on the stack never share a linear memory, for any depth of    *)
(* re-entrance, any contracts and any way in which executions end.         *)
THEOREM Isolation == Spec => []MemoryIsolation
<1>1. IInv => MemoryIsolation
  BY DEF IInv
<1>. QED BY <1>1, Invariance, PTL

(* The intrinsics always act for the contract that calls them.             *)
THEOREM ContextFollowsStack == Spec => []RunningContext
<1>1. IInv => RunningContext
  BY DEF IInv
<1>. QED BY <1>1, Invariance, PTL

(* The shared garbage collection frees nothing an activation still uses,   *)
(* and everything once the last activation is gone.                        *)
THEOREM Collection == Spec => [](NoDangling /\ HeapEmptyWhenIdle)
<1>1. IInv => NoDangling /\ HeapEmptyWhenIdle
  BY DEF IInv
<1>. QED BY <1>1, Invariance, PTL

(* ftl_exit and traps find their own catchHardwareTraps, as long as no     *)
(* nested execution has disturbed the signal state.                        *)
THEOREM SignalTargets == Spec => [](ExitTarget /\ TrapTarget)
<1>1. IInv => ExitTarget /\ TrapTarget
  <2>. SUFFICES ASSUME IInv, Running
                PROVE  /\ Top.nested # "failed" => signal.env = depth /\ signal.catching
                       /\ Top.nested = "none" => signal.env = depth /\ signal.operand = depth
    BY DEF ExitTarget, TrapTarget
  <2>1. SignalDiscipline /\ depth \in 1..depth
    BY DEF IInv, Running, TypeOK
  <2>2. Serves(depth)
    BY DEF Serves, Running, Top
  <2>. QED BY <2>1, <2>2 DEF SignalDiscipline, Top
<1>. QED BY <1>1, Invariance, PTL

-----------------------------------------------------------------------------
(* Action properties.                                                      *)

(* The steps that can touch the content of a memory: the return of the     *)
(* outermost activation, a new memory, the reset on entry of wasm, and a   *)
(* write through the innermost activation's memory.                        *)
LEMMA ContentSteps ==
    ASSUME IInv, [Next]_vars
    PROVE  \/ UNCHANGED content
           \/ depth' = 0
           \/ \E m \in Obj \ mems : content' = [content EXCEPT ![m] = Blank]
           \/ /\ depth > 0 /\ ~Top.inCallback /\ Top.mem # None /\ Top.mem \in Obj
              /\ \E v : content' = [content EXCEPT ![Top.mem] = v]
<1> DEFINE Goal == \/ UNCHANGED content
                   \/ depth' = 0
                   \/ \E m \in Obj \ mems : content' = [content EXCEPT ![m] = Blank]
                   \/ /\ depth > 0 /\ ~Top.inCallback /\ Top.mem # None /\ Top.mem \in Obj
                      /\ \E v : content' = [content EXCEPT ![Top.mem] = v]
<1>. TypeOK
  BY DEF IInv
<1>r. ASSUME NEW STATE o, Return(o), depth > 0 PROVE UNCHANGED content \/ depth' = 0
  BY <1>r DEF Return, ReleaseGuard, heapVars
<1>t. ASSUME ThrowFtl, depth > 0 PROVE UNCHANGED content \/ depth' = 0
  BY <1>t, <1>r DEF ThrowFtl
<1>e. ASSUME InvocationEnds, depth > 0 PROVE UNCHANGED content \/ depth' = 0
  BY <1>e, <1>r DEF InvocationEnds, heapVars
<1>m. ASSUME depth > 0 PROVE Top.mem # None => Top.mem \in Obj
  BY <1>m DEF TypeOK, Top, Frame
<1>0. CASE UNCHANGED vars
  BY <1>0 DEF vars
<1>1. ASSUME NEW c \in Contract, Execute(c) PROVE Goal
  BY <1>1 DEF Execute, heapVars
<1>2. CASE InstantiateFails \/ CallArity \/ AssertFails
  BY <1>2, <1>t DEF InstantiateFails, CallArity, AssertFails, Running
<1>3. CASE InstantiateOutOfMemory \/ CallOutOfMemory \/ BadPointer
  BY <1>3 DEF InstantiateOutOfMemory, CallOutOfMemory, BadPointer, EscapeLibrary, heapVars
<1>4. CASE Instantiate
  <2>1. \/ UNCHANGED content
        \/ \E i \in Obj : \E m \in Obj \ (insts \cup mems \cup {i}) :
               content' = [content EXCEPT ![m] = Blank]
    BY <1>4, Zenon DEF Instantiate
  <2>. QED BY <2>1
<1>5. CASE CallAbsent
  BY <1>5, <1>r DEF CallAbsent
<1>6. CASE Call
  <2>1. /\ depth > 0 /\ Top.pc = "call" /\ ~Top.inCallback
    <3>1. depth \in 1..depth
      BY <1>6 DEF Call, TypeOK
    <3>. QED BY <1>6, <3>1 DEF Call, IInv, StackShape, InWasm, Top
  <2>. QED BY <1>6, <1>m, <2>1 DEF Call
<1>7. CASE WasmReturn
  BY <1>7, <1>e DEF WasmReturn, Running
<1>8. CASE FtlExit
  BY <1>8, <1>t, <1>e DEF FtlExit, UseGas, Running, heapVars
<1>9. CASE Trap
  BY <1>9 DEF Trap, heapVars
<1>10. CASE CallAction
  BY <1>10, <1>t DEF CallAction, UseGas, Running, heapVars
<1>11. CASE CallbackReturns
  BY <1>11 DEF CallbackReturns, heapVars
<1>12. ASSUME NEW n \in GasStep, NEW m \in Obj \cup {None}, Compute(n, m)
       PROVE  Goal
  <2>1. CASE gas < n
    BY <1>12, <1>t, <2>1 DEF Compute, UseGas, Running
  <2>2. CASE ~(gas < n)
    <3>1. m = Top.mem /\ depth > 0 /\ ~Top.inCallback
      BY <1>12 DEF IInv, Compute, RunningContext, Running
    <3>2. \/ UNCHANGED content
          \/ m # None /\ \E v : content' = [content EXCEPT ![m] = v]
      BY <1>12, <2>2 DEF Compute, UseGas
    <3>. QED BY <1>m, <3>1, <3>2
  <2>. QED BY <2>1, <2>2
<1>13. CASE Terminated
  BY <1>13 DEF Terminated, vars
<1>. HIDE DEF Goal
<1>14. Goal
  BY <1>0, <1>1, <1>2, <1>3, <1>4, <1>5, <1>6, <1>7, <1>8, <1>9, <1>10,
     <1>11, <1>12, <1>13 DEF Next, Library, Goal
<1>. QED BY <1>14 DEF Goal

(* No step of a nested execution changes the memory of a caller that waits *)
(* in call_action.                                                         *)
THEOREM CallerMemoryPreserved == Spec => CallerUntouched
<1>1. ASSUME IInv, [Next]_vars, NEW d \in 1..depth', d \in 1..depth,
             frame[d].inCallback, frame[d].mem # None
      PROVE  content'[frame[d].mem] = content[frame[d].mem]
  <2>. TypeOK
    BY <1>1 DEF IInv
  <2>1. /\ frame[d].mem \in Obj /\ frame[d].mem \in mems
        /\ depth > 0 /\ depth \in 1..depth
    <3>1. d \in 1..MaxDepth /\ depth > 0 /\ depth \in 1..depth
      BY <1>1, ConstantsAssumption DEF TypeOK
    <3>2. frame[d].mem \in mems
      BY <1>1 DEF IInv, NoDangling, StackShape, InWasm
    <3>. QED BY <3>1, <3>2 DEF TypeOK
  <2>2. CASE UNCHANGED content
    BY <2>2
  <2>3. CASE depth' = 0
    BY <2>3, <1>1
  <2>4. CASE \E m \in Obj \ mems : content' = [content EXCEPT ![m] = Blank]
    BY <2>1, <2>4 DEF TypeOK
  <2>5. CASE /\ ~Top.inCallback /\ Top.mem # None /\ Top.mem \in Obj
             /\ \E v : content' = [content EXCEPT ![Top.mem] = v]
    <3>1. d # depth
      BY <1>1, <2>5 DEF Top
    <3>2. frame[d].mem # Top.mem
      BY <1>1, <2>1, <3>1 DEF IInv, MemoryDiscipline, Top
    <3>. QED BY <2>1, <2>5, <3>2 DEF TypeOK
  <2>. QED BY <1>1, <2>2, <2>3, <2>4, <2>5, ContentSteps
<1>2. IInv /\ [Next]_vars =>
        [\A d \in 1..depth' :
           d \in 1..depth /\ frame[d].inCallback /\ frame[d].mem # None
             => content'[frame[d].mem] = content[frame[d].mem]]_vars
  BY <1>1
<1>. QED BY <1>2, Invariance, PTL DEF Spec, CallerUntouched

(* No step of a running transaction adds gas.                              *)
THEOREM GasNeverGrows == Spec => GasMonotone
<1>1. TypeOK /\ [Next]_vars => [depth > 0 => gas' \in 0..gas]_vars
  <2>. SUFFICES ASSUME TypeOK, Next, depth > 0 PROVE gas' \in 0..gas
    BY DEF vars
  <2>1. UNCHANGED gas => gas' \in 0..gas
    BY DEF TypeOK
  <2>2. ASSUME NEW c \in Contract, Execute(c) PROVE gas' \in 0..gas
    BY <2>1, <2>2 DEF Execute
  <2>3. CASE FtlExit \/ CallAction
    BY <2>1, <2>3, ConstantsAssumption DEF FtlExit, CallAction, UseGas, TypeOK
  <2>4. ASSUME NEW n \in GasStep, NEW m \in Obj \cup {None}, Compute(n, m)
        PROVE  gas' \in 0..gas
    <3>1. n \in Nat
      BY ConstantsAssumption
    <3>. QED BY <2>1, <2>4, <3>1 DEF Compute, UseGas, TypeOK
  <2>5. CASE \/ InstantiateFails \/ InstantiateOutOfMemory \/ Instantiate
             \/ CallAbsent \/ CallArity \/ Call \/ CallOutOfMemory
             \/ WasmReturn \/ AssertFails \/ BadPointer \/ Trap
             \/ CallbackReturns \/ Terminated
    BY <2>1, <2>5 DEF InstantiateFails, InstantiateOutOfMemory, Instantiate, CallAbsent,
        CallArity, Call, CallOutOfMemory, WasmReturn, AssertFails, BadPointer, Trap,
        CallbackReturns, Terminated, vars
  <2>. QED BY <2>2, <2>3, <2>4, <2>5 DEF Next, Library
<1>. QED BY <1>1, Typing, PTL DEF Spec, GasMonotone
=============================================================================
