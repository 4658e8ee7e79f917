------------------------------- MODULE WasmRun -------------------------------
(***************************************************************************)
(* What the wasm of a contract does when nobody meters it: the behaviour   *)
(* the injected code must keep.  One function calls itself or an import;   *)
(* conditions, branch table indices and traps are the data's choice.       *)
(***************************************************************************)
EXTENDS WasmCode

CONSTANTS
    MaxCalls    \* frames the native stack has room for, less one

VARIABLES
    status,     \* "loading", "running", "returned", "trapped" or "aborted"
    code,       \* the body of the function, any that validation accepts
    pc,         \* the operator that runs next
    callers     \* where the frames below return to, the innermost last

runVars == <<status, code, pc, callers>>

Init ==
    /\ status = "loading"
    /\ WellFormed(code)
    /\ pc = 1
    /\ callers = <<>>

Load ==
    /\ status = "loading" /\ status' = "running"
    /\ UNCHANGED <<code, pc, callers>>

(* The current frame returns.                                              *)
Leave ==
    IF callers = <<>>
    THEN status' = "returned" /\ UNCHANGED <<pc, callers>>
    ELSE /\ pc' = callers[Len(callers)]
         /\ callers' = SubSeq(callers, 1, Len(callers) - 1)
         /\ UNCHANGED status

Step ==
    /\ status = "running"
    /\ \E q \in Successors(code, pc) :
          IF q = Exit THEN Leave
          ELSE pc' = q /\ UNCHANGED <<status, callers>>
    /\ UNCHANGED code

Call ==
    /\ status = "running" /\ Calls(code[pc])
    /\ IF Len(callers) = MaxCalls
       THEN status' = "trapped" /\ UNCHANGED <<pc, callers>>
       ELSE /\ pc' = 1
            /\ callers' = Append(callers, pc + 1)
            /\ UNCHANGED status
    /\ UNCHANGED code

Trap ==
    /\ status = "running" /\ MayTrap(code[pc])
    /\ status' = "trapped"
    /\ UNCHANGED <<code, pc, callers>>

(* The host stops the run: an exception of an import, or no gas.           *)
Abort ==
    /\ status = "running"
    /\ status' = "aborted"
    /\ UNCHANGED <<code, pc, callers>>

Next == Load \/ Step \/ Call \/ Trap \/ Abort

Spec == Init /\ [][Next]_runVars
=============================================================================
