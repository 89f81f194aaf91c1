----------------------------- MODULE MCPrimitives -----------------------------
(***************************************************************************)
(* What the kernel is built on: the ready heap and the spinlock.  They     *)
(* share no state, so a behaviour runs one of them, chosen at the start.   *)
(***************************************************************************)
EXTENDS Spinlock, ReadyHeap, TLC

VARIABLE part

PrimitivesInit == part \in {"lock", "heap"} /\ Init /\ HeapInit

LockPart == part = "lock" /\ Next /\ UNCHANGED <<part, heapVars>>
HeapPart == part = "heap" /\ HeapNext /\ UNCHANGED <<part, vars>>

PrimitivesNext == LockPart \/ HeapPart

PrimitivesSpec == PrimitivesInit /\ [][PrimitivesNext]_<<part, vars, heapVars>>

\* Nothing in the heap tells one task from another.
TasksAlike == Permutations(Pids)

=============================================================================
