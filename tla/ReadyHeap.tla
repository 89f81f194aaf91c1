------------------------------ MODULE ReadyHeap ------------------------------
(***************************************************************************)
(* The ready heap of one core, an array kept as a binary heap: insertion   *)
(* and extraction with one exchange per action, so that what stands in the *)
(* array between two exchanges is seen.  Kernel takes from this module     *)
(* that scrPick returns a task of highest priority.                        *)
(*                                                                         *)
(* The kernel runs with interrupts masked, but the timer whose two halves  *)
(* stamp an entry goes on: its low word may wrap between the two reads.    *)
(* Left out: the tests of compare_state for the stamp (uint64_t)-1.        *)
(***************************************************************************)
EXTENDS Naturals

CONSTANTS
  Pids,         \* tasks; each is in the heap at most once (Kernel: OnePlace)
  Levels,       \* priorities, 0 is highest
  Capacity,     \* NUMPROCS
  Unused,       \* what a cell from size on holds: nobody reads it
  LowWord,      \* the low word of the timer counts modulo this (2^32)
  MaxTime       \* bound: the time at which the model's timer stops

ASSUME ReadyHeapAssumption ==
  /\ Levels \subseteq Nat /\ Capacity \in Nat \ {0}
  /\ LowWord \in Nat \ {0} /\ MaxTime \in Nat

VARIABLES
  harr,      \* the array
  size,
  heapAt,    \* "idle", or the loop under way: "stamp", "up", "down"
  index,     \* the i of _bubbleUp or bubbleDown
  hand,      \* insertKey's copy of its argument, while it stamps it
  now,       \* the timer, both words
  inside     \* history: the entries inserted and not yet extracted

heapVars == <<harr, size, heapAt, index, hand, now, inside>>

\* came is no field of the code but a history: what the timer showed when the
\* stamp was complete.
Entries == [pid : Pids, priority : Levels, time : Nat, came : Nat]

Cells == 0 .. Capacity - 1

\* compare_state(a, b) = 1.
Precedes(a, b) ==
  \/ a.priority < b.priority
  \/ a.priority = b.priority /\ a.time < b.time

\* (i - 1) / 2 as C rounds it: the root is its own parent.
Parent(i) == IF i = 0 THEN 0 ELSE (i - 1) \div 2

Swapped(i, j) == [harr EXCEPT ![i] = harr[j], ![j] = harr[i]]

HeapInit ==
  /\ harr = [i \in Cells |-> Unused] /\ size = 0
  /\ heapAt = "idle" /\ index = 0 /\ hand = {}
  /\ now = 0 /\ inside = {}

\* The timer matters only where it is read.
TimerTicks ==
  /\ heapAt \in {"idle", "stamp"} /\ now < MaxTime
  /\ now' = now + 1
  /\ UNCHANGED <<harr, size, heapAt, index, hand, inside>>

\* insertKey_state_heap reads the high word ...
InsertReadsHigh(p, level) ==
  /\ heapAt = "idle" /\ p \notin {e.pid : e \in inside}
  /\ hand' = {[pid |-> p, priority |-> level, time |-> LowWord * (now \div LowWord), came |-> now]}
  /\ heapAt' = "stamp"
  /\ UNCHANGED <<harr, size, index, now, inside>>

\* The entry of hand with its stamp complete.
Stamp(e) ==
  [pid |-> e.pid, priority |-> e.priority, time |-> e.time + (now % LowWord), came |-> now]

\* ... then the low one; a full heap drops the entry.
InsertReadsLow ==
  /\ heapAt = "stamp"
  /\ hand' = {}
  /\ IF size = Capacity
     THEN heapAt' = "idle" /\ UNCHANGED <<harr, index, inside>>
     ELSE \E e \in hand :
            LET k == Stamp(e)
            IN /\ harr' = [harr EXCEPT ![size] = k]
               /\ heapAt' = "up" /\ index' = size
               /\ inside' = inside \cup {k}
  /\ UNCHANGED <<size, now>>

\* One call of _bubbleUp_state_heap; size counts the entry when the last returns.
BubbleUp ==
  /\ heapAt = "up"
  /\ IF Precedes(harr[index], harr[Parent(index)])
     THEN /\ harr' = Swapped(index, Parent(index)) /\ index' = Parent(index)
          /\ UNCHANGED <<heapAt, size>>
     ELSE heapAt' = "idle" /\ index' = 0 /\ size' = size + 1 /\ UNCHANGED harr
  /\ UNCHANGED <<hand, now, inside>>

\* Mutant of ExtractMin: size counts down before the last cell is moved.
ExtractMinCountsFirst ==
  /\ heapAt = "idle" /\ size > 0
  /\ size' = size - 1
  /\ inside' = inside \ {harr[0]}
  /\ IF size = 1
     THEN harr' = [harr EXCEPT ![0] = Unused] /\ UNCHANGED <<heapAt, index>>
     ELSE /\ harr' = [harr EXCEPT ![0] = harr[size - 2], ![size - 1] = Unused]
          /\ heapAt' = "down" /\ index' = 0
  /\ UNCHANGED <<hand, now>>

\* extractMin_state_heap up to bubbleDown: the root goes to the caller.
ExtractMin ==
  /\ heapAt = "idle" /\ size > 0
  /\ size' = size - 1
  /\ inside' = inside \ {harr[0]}
  /\ IF size = 1
     THEN harr' = [harr EXCEPT ![0] = Unused] /\ UNCHANGED <<heapAt, index>>
     ELSE /\ harr' = [harr EXCEPT ![0] = harr[size - 1], ![size - 1] = Unused]
          /\ heapAt' = "down" /\ index' = 0
  /\ UNCHANGED <<hand, now>>

\* Mutant of Smallest: the right child is compared with the parent only.
SmallestRight(i) ==
  LET least(j, k) == IF j < size /\ Precedes(harr[j], harr[i]) THEN j ELSE k
  IN least(2 * i + 2, least(2 * i + 1, i))

\* The least of a cell and those of its children that are in the heap.
Smallest(i) ==
  LET least(j, k) == IF j < size /\ Precedes(harr[j], harr[k]) THEN j ELSE k
  IN least(2 * i + 2, least(2 * i + 1, i))

\* One call of bubbleDown_state_heap.
BubbleDown ==
  /\ heapAt = "down"
  /\ IF Smallest(index) # index
     THEN harr' = Swapped(index, Smallest(index)) /\ index' = Smallest(index) /\ UNCHANGED heapAt
     ELSE heapAt' = "idle" /\ index' = 0 /\ UNCHANGED harr
  /\ UNCHANGED <<size, hand, now, inside>>

HeapNext ==
  \/ TimerTicks \/ InsertReadsLow \/ BubbleUp \/ ExtractMin \/ BubbleDown
  \/ \E p \in Pids, l \in Levels : InsertReadsHigh(p, l)

HeapSpec == HeapInit /\ [][HeapNext]_heapVars

-----------------------------------------------------------------------------
(* Properties.                                                             *)

HeapTypeOK ==
  /\ harr \in [Cells -> Entries \cup {Unused}] /\ size \in 0 .. Capacity
  /\ heapAt \in {"idle", "stamp", "up", "down"} /\ index \in Cells
  /\ hand \subseteq Entries /\ now \in Nat /\ inside \subseteq Entries

\* The cells in use.
InUse == IF heapAt = "up" THEN 0 .. size ELSE 0 .. size - 1

\* scrPick takes an entry of the highest priority: no exchange leaves a lower one at
\* the root when the heap is at rest.
HighestIsTaken ==
  heapAt \in {"idle", "stamp"} => \A i \in InUse : harr[0].priority <= harr[i].priority

\* The exchanges lose no entry and double none.
EntriesKept ==
  /\ {harr[i] : i \in InUse} = inside
  /\ \A i, j \in InUse : harr[i].pid = harr[j].pid => i = j

\* Of two tasks of the same priority the one that came earlier is taken first,
\* unless the low word wrapped while the other was stamped: its stamp is then
\* one wrap too old.
EarlierIsTakenFirst ==
  heapAt \in {"idle", "stamp"} =>
    \A i \in InUse :
      harr[i].priority = harr[0].priority /\ harr[i].came < harr[0].came
        => harr[0].time + LowWord <= harr[0].came

\* scrPick takes the right task, by priority and then by the time of coming.
RightOneIsTaken == HighestIsTaken /\ EarlierIsTakenFirst

=============================================================================
