----------------------------- MODULE Execution -----------------------------
(***************************************************************************)
(* One host thread running contracts through execute() (wasmlib.cpp).      *)
(*                                                                         *)
(* An activation of execute() builds a wasm_interface (which shares the    *)
(* process-wide runtime_guard), instantiates the contract, resets its      *)
(* memory and runs its start function and its "apply" export.  A contract  *)
(* may call call_action, which leaves for a host callback; the host may    *)
(* re-enter execute() from there.  The activations therefore form a stack, *)
(* and all of them share the process-wide state of the library:            *)
(*   - Runtime::theMemoryInstance, the linear memory instantiateModule     *)
(*     gives to every module that declares one;                            *)
(*   - the_running_instance_context, what the intrinsics resolve wasm      *)
(*     addresses and host calls against;                                   *)
(*   - the object heap of WAVM, collected by the last runtime_guard;       *)
(*   - the signal state of Platform::catchHardwareTraps;                   *)
(*   - the gas counter the host passes by pointer.                         *)
(* An ftl::exception unwinds to the execute() that raised it; a            *)
(* Runtime::Exception is caught by nobody and leaves the library.          *)
(***************************************************************************)
EXTENDS Naturals

CONSTANTS
    Contract,       \* the contracts the host can run
    Entry,          \* Entry[c]: how the code of c fares, see EntryKind
    HasMemory,      \* HasMemory[c]: c declares a linear memory
    HasStart,       \* HasStart[c]: c has a start function
    Obj,            \* addresses of the objects on the WAVM heap
    None,           \* the null pointer
    MaxDepth,       \* bound on the activations of execute() on the stack
    MaxHostCalls,   \* bound on the executions one host callback starts
    GasLimit,       \* the largest gas budget the host grants
    GasCallBase,    \* GAS_CALL_BASE, the price of an intrinsic
    GasStep         \* the gas amounts a flush of the injected meter charges

(* What becomes of a contract's code: it does not parse, inject or link;   *)
(* it has no export "apply"; "apply" has another number of parameters; the *)
(* one parameter is not an i64; or it can be called.                       *)
EntryKind == {"unloadable", "absent", "arity", "mistyped", "ok"}

ASSUME ConstantsAssumption ==
    /\ Contract # {}
    /\ Entry \in [Contract -> EntryKind]
    /\ HasMemory \in [Contract -> BOOLEAN]
    /\ HasStart \in [Contract -> BOOLEAN]
    /\ None \notin Obj
    /\ MaxDepth \in Nat \ {0}
    /\ MaxHostCalls \in Nat
    /\ GasLimit \in Nat
    /\ GasCallBase \in Nat \ {0}
    /\ GasStep \subseteq Nat \ {0}

VARIABLES
    mode,       \* "ok" while the process can still serve calls
    depth,      \* activations of execute() on the stack
    frame,      \* frame[d]: the d-th activation, 1 the outermost
    gas,        \* *remained_gas
    insts,      \* live ModuleInstance objects
    mems,       \* live MemoryInstance objects
    content,    \* content[m]: whose data memory m holds, and its version
    theMemory,  \* Runtime::theMemoryInstance
    rctx,       \* the_running_instance_context
    signal      \* signalReturnEnv, isCatchingSignals, signalOperand

vars == <<mode, depth, frame, gas, insts, mems, content, theMemory, rctx, signal>>

heapVars == <<insts, mems, content>>

(* signalReturnEnv and signalOperand are named by the depth of the         *)
(* activation whose catchHardwareTraps set them: 0 is null or never set,   *)
(* Dead a stack frame that is gone.                                        *)
Dead == MaxDepth + 1
NoSignal == [env |-> 0, catching |-> FALSE, operand |-> 0]

(* The program point of an activation: inside get_instantiated_module, on  *)
(* entry of call(), or inside the wasm of the start function or of apply.  *)
Pc == {"instantiate", "call", "start", "apply"}

(* What execute() did to the signal state: it never entered wasm, it left  *)
(* wasm through the end of catchHardwareTraps, or through an exception.    *)
Outcome == {"none", "ran", "failed"}

(* An activation.  inCallback: its call_action waits for the host.         *)
(* oldEnv, oldCatching: the locals of its catchHardwareTraps.  hostCalls:  *)
(* executions its current callback started.  nested: the worst an execution *)
(* nested in its current invocation did, see Outcome.                       *)
Frame == [contract: Contract, pc: Pc, inCallback: BOOLEAN,
          inst: Obj \cup {None}, mem: Obj \cup {None},
          oldEnv: 0..Dead, oldCatching: BOOLEAN, hostCalls: 0..MaxHostCalls,
          nested: Outcome]

(* The activation execute() starts on contract c.                          *)
NewFrame(c) ==
    [contract |-> c, pc |-> "instantiate", inCallback |-> FALSE,
     inst |-> None, mem |-> None, oldEnv |-> 0, oldCatching |-> FALSE,
     hostCalls |-> 0, nested |-> "none"]
NoFrame == NewFrame(CHOOSE c \in Contract : TRUE)

Top == frame[depth]
InWasm(f) == f.pc \in {"start", "apply"}

(* Wasm of the innermost activation has control.                           *)
Running == mode = "ok" /\ depth > 0 /\ InWasm(Top) /\ ~Top.inCallback

(* The host has control: no execution at all, or inside a callback.        *)
HostRuns == mode = "ok" /\ (depth > 0 => Top.inCallback)

(* The bytes of a memory: the image of the module of instance `by', after  *)
(* `version' writes.                                                       *)
Image(i) == [by |-> i, version |-> 0]
Blank == [by |-> None, version |-> 0]

-----------------------------------------------------------------------------
(* Steps the actions below are made of.                                    *)

(* The innermost activation becomes f.                                     *)
SetTop(f) == frame' = [frame EXCEPT ![depth] = f]

(* catchHardwareTraps up to the call of the thunk.                         *)
EnterCatch(d) == signal' = [env |-> d, catching |-> TRUE, operand |-> d]

(* Fault: the return environment of the outer call is not put back.        *)
LeaveCatchForgetsEnv(f) == [env |-> 0, catching |-> f.oldCatching, operand |-> 0]

(* "Reset the signal state" at the end of catchHardwareTraps.              *)
LeaveCatch(f) == [env |-> f.oldEnv, catching |-> f.oldCatching, operand |-> 0]

(* Leaving a frame through an exception skips that reset: what pointed     *)
(* into the frame dangles.                                                 *)
Dangle(s, d) == [env |-> IF s.env = d THEN Dead ELSE s.env,
                 catching |-> s.catching,
                 operand |-> IF s.operand = d THEN Dead ELSE s.operand]

(* Fault: every wavm_runtime collects, as the comment in wavm.hpp has it.   *)
ReleaseGuardEveryTime ==
    /\ insts' = {}
    /\ mems' = {}
    /\ theMemory' = None
    /\ content' = [o \in Obj |-> Blank]

(* ~wavm_runtime of the outermost activation drops the last runtime_guard, *)
(* which runs freeUnreferencedObjects({}): nothing roots the instances.    *)
(* ~MemoryInstance clears theMemoryInstance.                               *)
ReleaseGuard ==
    IF depth = 1
    THEN /\ insts' = {}
         /\ mems' = {}
         /\ theMemory' = IF mems = {} THEN theMemory ELSE None
         /\ content' = [o \in Obj |-> Blank]
    ELSE UNCHANGED <<heapVars, theMemory>>

Worst(o, p) == IF o = "failed" \/ p = "none" THEN o ELSE p

(* The frame is popped; the activation below notes, as history, how it     *)
(* ended.                                                                  *)
Pop(outcome) ==
    [d \in 1..MaxDepth |->
        IF d = depth THEN NoFrame
        ELSE IF d + 1 = depth
        THEN [frame[d] EXCEPT !.nested = Worst(frame[d].nested, outcome)]
        ELSE frame[d]]

(* execute() returns, 0 or the code of an ftl::exception.                  *)
Return(outcome) ==
    /\ depth' = depth - 1
    /\ frame' = Pop(outcome)
    /\ ReleaseGuard
    /\ UNCHANGED <<mode, rctx>>

(* FTL_THROW from the innermost activation: it unwinds to its execute().   *)
ThrowFtl ==
    /\ Return(IF InWasm(Top) THEN "failed" ELSE "none")
    /\ signal' = Dangle(signal, depth)

(* A Runtime::Exception: no handler in the library, none in the caller.    *)
EscapeLibrary ==
    /\ mode' = "escaped"
    /\ UNCHANGED <<depth, frame, heapVars, theMemory, rctx, signal>>

(* use_gas succeeds or throws; Then is what the caller does next.          *)
UseGas(n, Then) ==
    IF gas < n
    THEN ThrowFtl /\ UNCHANGED gas
    ELSE gas' = gas - n /\ Then

-----------------------------------------------------------------------------
Init ==
    /\ mode = "ok"
    /\ depth = 0
    /\ frame = [d \in 1..MaxDepth |-> NoFrame]
    /\ gas = 0
    /\ insts = {}
    /\ mems = {}
    /\ content = [o \in Obj |-> Blank]
    /\ theMemory = None
    /\ rctx = [mem |-> None, ctx |-> None]
    /\ signal = NoSignal

(* The host calls execute(): a transaction of its own with a fresh budget, *)
(* or from a callback, on the caller's counter.  The constructors of       *)
(* wasm_interface, wavm_runtime and wasm_context run.                      *)
Execute(c) ==
    /\ HostRuns
    /\ depth < MaxDepth
    /\ depth > 0 => Top.hostCalls < MaxHostCalls
    /\ IF depth = 0 THEN gas' \in 0..GasLimit ELSE UNCHANGED gas
    /\ depth' = depth + 1
    /\ frame' = [d \in 1..MaxDepth |->
                    IF d = depth + 1 THEN NewFrame(c)
                    ELSE IF d = depth
                    THEN [frame[d] EXCEPT !.hostCalls = frame[d].hostCalls + 1]
                    ELSE frame[d]]
    /\ UNCHANGED <<mode, heapVars, theMemory, rctx, signal>>

(* get_instantiated_module fails to parse, inject, validate or link.       *)
InstantiateFails ==
    /\ mode = "ok" /\ depth > 0 /\ Top.pc = "instantiate"
    /\ Entry[Top.contract] = "unloadable"
    /\ ThrowFtl
    /\ UNCHANGED gas

(* createTable or createMemory finds no address space.                     *)
InstantiateOutOfMemory ==
    /\ mode = "ok" /\ depth > 0 /\ Top.pc = "instantiate"
    /\ Entry[Top.contract] # "unloadable"
    /\ EscapeLibrary
    /\ UNCHANGED gas

(* instantiateModule: a module that declares a memory takes                *)
(* theMemoryInstance, which is created if there is none.                   *)
Instantiate ==
    /\ mode = "ok" /\ depth > 0 /\ Top.pc = "instantiate"
    /\ Entry[Top.contract] # "unloadable"
    /\ \E i \in Obj \ (insts \cup mems) :
         /\ insts' = insts \cup {i}
         /\ IF ~HasMemory[Top.contract]
            THEN /\ SetTop([Top EXCEPT !.pc = "call", !.inst = i])
                 /\ UNCHANGED <<mems, content, theMemory>>
            ELSE IF theMemory # None
            THEN /\ SetTop([Top EXCEPT !.pc = "call", !.inst = i, !.mem = theMemory])
                 /\ UNCHANGED <<mems, content, theMemory>>
            ELSE \E m \in Obj \ (insts \cup mems \cup {i}) :
                   /\ SetTop([Top EXCEPT !.pc = "call", !.inst = i, !.mem = m])
                   /\ mems' = mems \cup {m}
                   /\ content' = [content EXCEPT ![m] = Blank]
                   /\ theMemory' = m
    /\ UNCHANGED <<mode, depth, gas, rctx, signal>>

(* call() finds no export "apply" and returns.                             *)
CallAbsent ==
    /\ mode = "ok" /\ depth > 0 /\ Top.pc = "call"
    /\ Entry[Top.contract] = "absent"
    /\ Return("none")
    /\ UNCHANGED <<gas, signal>>

(* FTL_ASSERT on the number of parameters of "apply".                      *)
CallArity ==
    /\ mode = "ok" /\ depth > 0 /\ Top.pc = "call"
    /\ Entry[Top.contract] = "arity"
    /\ ThrowFtl
    /\ UNCHANGED gas

(* call(): reset the memory and copy the image in, publish the running     *)
(* context, reset the globals, and invoke the start function or apply.     *)
(* invokeFunction checks the parameter types before it enters the wasm.    *)
Call ==
    /\ mode = "ok" /\ depth > 0 /\ Top.pc = "call"
    /\ Entry[Top.contract] \in {"mistyped", "ok"}
    /\ content' = IF Top.mem = None THEN content
                  ELSE [content EXCEPT ![Top.mem] = Image(Top.inst)]
    /\ rctx' = [mem |-> Top.mem, ctx |-> Top.inst]
    /\ IF HasStart[Top.contract] \/ Entry[Top.contract] = "ok"
       THEN /\ SetTop([Top EXCEPT
                   !.pc = IF HasStart[Top.contract] THEN "start" ELSE "apply",
                   !.oldEnv = signal.env, !.oldCatching = signal.catching])
            /\ EnterCatch(depth)
            /\ UNCHANGED mode
       ELSE mode' = "escaped" /\ UNCHANGED <<frame, signal>>
    /\ UNCHANGED <<depth, gas, insts, mems, theMemory>>

(* resetMemory cannot commit the pages the module asks for.                *)
CallOutOfMemory ==
    /\ mode = "ok" /\ depth > 0 /\ Top.pc = "call"
    /\ Entry[Top.contract] \in {"mistyped", "ok"}
    /\ Top.mem # None
    /\ EscapeLibrary
    /\ UNCHANGED gas

(* The invocation ends, by return or through ftl_exit: after the start     *)
(* function apply is invoked, after apply execute() returns 0.             *)
InvocationEnds ==
    IF Top.pc = "start"
    THEN /\ IF Entry[Top.contract] = "ok"
            THEN /\ SetTop([Top EXCEPT !.pc = "apply", !.nested = "none"])
                 /\ EnterCatch(depth)
                 /\ UNCHANGED mode
            ELSE mode' = "escaped" /\ UNCHANGED frame /\ signal' = LeaveCatch(Top)
         /\ UNCHANGED <<depth, heapVars, theMemory, rctx>>
    ELSE Return("ran") /\ signal' = LeaveCatch(Top)

(* The wasm function returns.                                              *)
WasmReturn ==
    /\ Running
    /\ InvocationEnds
    /\ UNCHANGED gas

(* Wasm code between two flushes of the meter, or an intrinsic that stays  *)
(* in the library: it pays, and may write linear memory.  JIT code uses    *)
(* the memory of its instance, an intrinsic that of the running context.   *)
Compute(n, m) ==
    /\ Running
    /\ m \in {Top.mem, rctx.mem}
    /\ UseGas(n, /\ content' = IF m = None THEN content
                               ELSE [content EXCEPT ![m].version = @ + 1]
                 /\ UNCHANGED <<mode, depth, frame, insts, mems, theMemory, rctx, signal>>)

(* abort, ftl_assert and the API checks that raise an ftl::exception.      *)
AssertFails ==
    /\ Running
    /\ ThrowFtl
    /\ UNCHANGED gas

(* An intrinsic given an address outside the memory: causeException.       *)
BadPointer ==
    /\ Running
    /\ EscapeLibrary
    /\ UNCHANGED gas

(* ftl_exit pays and jumps to signalReturnEnv.                             *)
FtlExit ==
    /\ Running
    /\ UseGas(GasCallBase,
              IF signal.env = depth THEN InvocationEnds
              ELSE /\ mode' = "undefined"
                   /\ UNCHANGED <<depth, frame, heapVars, theMemory, rctx, signal>>)

(* A hardware trap in JIT code: signalHandler writes through signalOperand *)
(* and jumps; handleHardwareTrap then raises a Runtime::Exception.         *)
Trap ==
    /\ Running
    /\ mode' = IF signal.operand = 0 \/ ~signal.catching THEN "fatal"
               ELSE IF signal.operand = Dead \/ signal.env # depth THEN "undefined"
               ELSE "escaped"
    /\ signal' = IF mode' = "escaped" THEN LeaveCatch(Top) ELSE signal
    /\ UNCHANGED <<depth, frame, gas, heapVars, theMemory, rctx>>

(* Fault: the callee is given the memory of the caller.                    *)
CallActionSharesMemory ==
    /\ Running
    /\ UseGas(GasCallBase,
              /\ SetTop([Top EXCEPT !.inCallback = TRUE, !.hostCalls = 0])
              /\ UNCHANGED <<mode, depth, heapVars, theMemory, rctx, signal>>)

(* Fault: calling out is free.                                             *)
CallActionFree ==
    /\ Running
    /\ SetTop([Top EXCEPT !.inCallback = TRUE, !.hostCalls = 0])
    /\ theMemory' = None
    /\ UNCHANGED <<mode, depth, gas, heapVars, rctx, signal>>

(* call_action up to the host callback.                                    *)
CallAction ==
    /\ Running
    /\ UseGas(GasCallBase,
              /\ SetTop([Top EXCEPT !.inCallback = TRUE, !.hostCalls = 0])
              /\ theMemory' = None
              /\ UNCHANGED <<mode, depth, heapVars, rctx, signal>>)

(* Fault: the running context is left to the last execution.               *)
CallbackReturnsStale ==
    /\ mode = "ok" /\ depth > 0 /\ Top.inCallback
    /\ SetTop([Top EXCEPT !.inCallback = FALSE])
    /\ theMemory' = Top.mem
    /\ UNCHANGED <<mode, depth, gas, heapVars, rctx, signal>>

(* The callback returns and call_action restores the running context.      *)
CallbackReturns ==
    /\ mode = "ok" /\ depth > 0 /\ Top.inCallback
    /\ SetTop([Top EXCEPT !.inCallback = FALSE])
    /\ rctx' = [mem |-> Top.mem, ctx |-> Top.inst]
    /\ theMemory' = Top.mem
    /\ UNCHANGED <<mode, depth, gas, heapVars, signal>>

(* The process is gone.                                                    *)
Terminated ==
    /\ mode # "ok"
    /\ UNCHANGED vars

(* Everything but the host's choice to call execute().                     *)
Library ==
    \/ InstantiateFails \/ InstantiateOutOfMemory \/ Instantiate
    \/ CallAbsent \/ CallArity \/ Call \/ CallOutOfMemory
    \/ WasmReturn \/ AssertFails \/ BadPointer \/ FtlExit \/ Trap \/ CallAction
    \/ CallbackReturns
    \/ \E n \in GasStep, m \in Obj \cup {None} : Compute(n, m)

Next ==
    \/ \E c \in Contract : Execute(c)
    \/ Library
    \/ Terminated

Spec == Init /\ [][Next]_vars

(* The library and the wasm it runs make progress; the host may leave it   *)
(* alone but its callbacks return.                                         *)
FairSpec == Spec /\ WF_vars(Library)

-----------------------------------------------------------------------------
(* Safety.                                                                 *)

TypeOK ==
    /\ mode \in {"ok", "escaped", "fatal", "undefined"}
    /\ depth \in 0..MaxDepth
    /\ frame \in [1..MaxDepth -> Frame]
    /\ gas \in 0..GasLimit
    /\ insts \subseteq Obj
    /\ mems \subseteq Obj
    /\ content \in [Obj -> [by: Obj \cup {None}, version: Nat]]
    /\ theMemory \in Obj \cup {None}
    /\ rctx \in [mem: Obj \cup {None}, ctx: Obj \cup {None}]
    /\ signal \in [env: 0..Dead, catching: BOOLEAN, operand: 0..Dead]

(* While wasm runs, the intrinsics act for the innermost contract: the     *)
(* running context names its memory and its wasm_context, also after       *)
(* call_action has come back from executions of other contracts.           *)
RunningContext ==
    Running => rctx = [mem |-> Top.mem, ctx |-> Top.inst]

(* Two contracts on the stack never share linear memory, although every    *)
(* instance takes it from the one global theMemoryInstance: the memory of  *)
(* an activation that has entered wasm holds that activation's own data.   *)
MemoryIsolation ==
    \A d \in 1..depth :
        InWasm(frame[d]) /\ frame[d].mem # None
            => content[frame[d].mem].by = frame[d].inst

(* No activation uses an object the garbage collection of a nested         *)
(* execution has freed.                                                    *)
NoDangling ==
    /\ \A d \in 1..depth :
          frame[d].pc # "instantiate" => /\ frame[d].inst \in insts
                                         /\ frame[d].mem \in mems \cup {None}
    /\ theMemory \in mems \cup {None}

(* When the last execute() has returned, the collection has taken every    *)
(* instance and memory, and theMemoryInstance does not outlive its memory. *)
HeapEmptyWhenIdle ==
    depth = 0 => insts = {} /\ mems = {} /\ theMemory = None

(* ftl_exit has a live target, its own catchHardwareTraps, in every        *)
(* activation below which no execution was unwound out of wasm by an       *)
(* ftl::exception.                                                         *)
ExitTarget ==
    Running /\ Top.nested # "failed" => signal.env = depth /\ signal.catching

(* A trap can be recorded and delivered in every activation below which    *)
(* no execution has entered wasm.                                          *)
TrapTarget ==
    Running /\ Top.nested = "none" => signal.env = depth /\ signal.operand = depth

-----------------------------------------------------------------------------
(* Action properties.                                                      *)

(* Whatever a nested execution does, and however it ends, the memory of a  *)
(* caller waiting in call_action keeps its content.                        *)
CallerUntouched ==
    [][\A d \in 1..depth' :
          d \in 1..depth /\ frame[d].inCallback /\ frame[d].mem # None
              => content'[frame[d].mem] = content[frame[d].mem]]_vars

(* A transaction never gains gas, and never owes any: use_gas refuses      *)
(* before the unsigned counter could wrap, in every nested execution.      *)
GasMonotone == [][depth > 0 => gas' \in 0..gas]_vars

-----------------------------------------------------------------------------
(* Liveness.                                                               *)

(* Every execute() comes back to the host, or the process ends: gas bounds *)
(* the work, nesting included, and no callback order leaves it stuck.      *)
EveryCallReturns == depth > 0 ~> (depth = 0 \/ mode # "ok")
=============================================================================
