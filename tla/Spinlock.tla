------------------------------ MODULE Spinlock ------------------------------
(***************************************************************************)
(* spinlock_lock and spinlock_unlock, one instruction per action.          *)
(*                                                                         *)
(* Each caller runs on a core with an exclusive monitor and an event       *)
(* register.  The architecture clears a monitor when another core writes   *)
(* the lock, and on the return from an exception; clearing it by a write   *)
(* also sets the event register, which WFE waits for.                      *)
(***************************************************************************)
EXTENDS Naturals, FiniteSets

CONSTANT Cores   \* the cores that contend for the lock

ASSUME CoresAssumption == IsFiniteSet(Cores)

VARIABLES
  lock,     \* the lock word, 0 or 1
  pc,       \* where each core is in spinlock_lock / spinlock_unlock
  monitor,  \* cores whose exclusive monitor is set
  event     \* cores whose event register is set

vars == <<lock, pc, monitor, event>>

Places == {"out", "wfe", "ldaxr", "stxr", "in", "sev"}

TypeOK ==
  /\ lock \in {0, 1}
  /\ pc \in [Cores -> Places]
  /\ monitor \subseteq Cores
  /\ event \subseteq Cores

Init ==
  /\ lock = 0
  /\ pc = [c \in Cores |-> "out"]
  /\ monitor = {}
  /\ event = {}

Goto(c, place) == pc' = [pc EXCEPT ![c] = place]

-----------------------------------------------------------------------------
\* sevl: the first WFE falls through.
Call(c) ==
  /\ pc[c] = "out"
  /\ Goto(c, "wfe")
  /\ event' = event \cup {c}
  /\ UNCHANGED <<lock, monitor>>

Wfe(c) ==
  /\ pc[c] = "wfe" /\ c \in event
  /\ Goto(c, "ldaxr")
  /\ event' = event \ {c}
  /\ UNCHANGED <<lock, monitor>>

\* Mutant of Ldaxr: the value read is not looked at.
LdaxrTakesHeld(c) ==
  /\ pc[c] = "ldaxr"
  /\ monitor' = monitor \cup {c}
  /\ Goto(c, "stxr")
  /\ UNCHANGED <<lock, event>>

\* ldaxr, then cbnz back to the WFE while the lock is held.
Ldaxr(c) ==
  /\ pc[c] = "ldaxr"
  /\ monitor' = monitor \cup {c}
  /\ Goto(c, IF lock = 0 THEN "stxr" ELSE "wfe")
  /\ UNCHANGED <<lock, event>>

\* Mutant of Stxr: an addition that does not ask the monitor.
StxrAdds(c) ==
  /\ pc[c] = "stxr"
  /\ lock' = lock + 1
  /\ monitor' = {}
  /\ event' = event \cup (monitor \ {c})
  /\ Goto(c, "in")

\* stxr stores only while the monitor is set; cbnz then goes back to the stxr,
\* not to the ldaxr, so a store that failed is tried again without it.
Stxr(c) ==
  /\ pc[c] = "stxr"
  /\ IF c \in monitor
     THEN /\ lock' = 1
          /\ monitor' = {}
          /\ event' = event \cup (monitor \ {c})
          /\ Goto(c, "in")
     ELSE UNCHANGED vars

\* The release store of spinlock_unlock.
Stlr(c) ==
  /\ pc[c] = "in"
  /\ lock' = 0
  /\ monitor' = {}
  /\ event' = event \cup (monitor \ {c})
  /\ Goto(c, "sev")

\* Mutant of Sev: no event is sent.
SevMissing(c) ==
  /\ pc[c] = "sev"
  /\ Goto(c, "out")
  /\ UNCHANGED <<lock, monitor, event>>

\* sev after the store wakes every core that waits.
Sev(c) ==
  /\ pc[c] = "sev"
  /\ event' = Cores
  /\ Goto(c, "out")
  /\ UNCHANGED <<lock, monitor>>

\* An interrupt is taken and returned from between two instructions.
Interrupted(c) ==
  /\ monitor' = monitor \ {c}
  /\ UNCHANGED <<lock, pc, event>>

Lock(c) == Wfe(c) \/ Ldaxr(c) \/ Stxr(c)

Unlock(c) == Stlr(c) \/ Sev(c)

Next == \E c \in Cores : Call(c) \/ Lock(c) \/ Unlock(c) \/ Interrupted(c)

Spec == Init /\ [][Next]_vars

\* A core executes its instructions; it need not ask for the lock again.
FairSpec == Spec /\ \A c \in Cores : WF_vars(Lock(c) \/ Unlock(c))

-----------------------------------------------------------------------------
(* Properties.                                                             *)

\* The lock word is 1 exactly while one core is between lock and unlock.
MutualExclusion ==
  /\ \A c, d \in Cores : pc[c] = "in" /\ pc[d] = "in" => c = d
  /\ lock = 1 <=> \E c \in Cores : pc[c] = "in"

\* A core asleep in WFE while the lock is free is about to be woken: no sev is
\* lost between its ldaxr and its wfe.
NoSleeperForgotten ==
  \A c \in Cores :
    pc[c] = "wfe" /\ c \notin event /\ lock = 0 => \E d \in Cores : pc[d] = "sev"

\* A free lock that somebody wants is taken by somebody.
FreeLockIsTaken ==
  (\E c \in Cores : pc[c] \in {"wfe", "ldaxr", "stxr"}) ~> lock = 1

=============================================================================
