---------------------------- MODULE MC_Execution ----------------------------
(* An instance of Execution for TLC: contracts are named after what they    *)
(* have; three can run, one does not load, and the "apply" of the others is *)
(* missing or has another type.                                             *)
EXTENDS Execution, TLC

CONSTANTS token, plain, starter, broken, odd, mute, wide, o1, o2, o3, o4

MCContract == {token, plain, starter, broken, odd, mute, wide}
MCEntry == (token :> "ok") @@ (plain :> "ok") @@ (starter :> "ok") @@ (broken :> "unloadable")
           @@ (odd :> "mistyped") @@ (mute :> "absent") @@ (wide :> "arity")
MCHasMemory == [c \in MCContract |-> c \in {token, starter, broken, odd}]
MCHasStart == [c \in MCContract |-> c \in {starter, odd}]

MCObj == {o1, o2, o3, o4}
=============================================================================
