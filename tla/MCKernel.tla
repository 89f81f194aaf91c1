------------------------------ MODULE MCKernel ------------------------------
(* Values for the constants of Kernel that a .cfg cannot write.            *)
EXTENDS Kernel

\* Two servers and an idle task, as on a secondary core.
BootThree == <<0, 0, 2>>

\* A server and an idle task: one slot is left for Create.
BootTwo == <<0, 1>>

\* What Spec and the properties checked of it read: not the history owed, and
\* of a slot that is not live neither the priority nor the ring, which
\* KernelCreate writes before anything reads them.
Observed ==
  <<live, [t \in live |-> <<prio[t], inbox[t]>>], pid, heap, blocked,
    waitingSend, waitingReply, eventVars>>

=============================================================================
