-------------------------- MODULE PrimitivesProofs --------------------------
(***************************************************************************)
(* Theorems about Spinlock for every set of cores, and about ReadyHeap for *)
(* every size, any priorities and any time.                                *)
(***************************************************************************)
EXTENDS MCPrimitives, WellFoundedInduction, TLAPS

-----------------------------------------------------------------------------
(* The spinlock.                                                           *)

\* A core that is about to store with its monitor set found the lock free, and
\* nobody has written it since: every write clears every monitor.
MonitorGuardsLock == \A c \in Cores : pc[c] = "stxr" /\ c \in monitor => lock = 0

IInv == TypeOK /\ MutualExclusion /\ MonitorGuardsLock /\ NoSleeperForgotten

\* What moving core c does to the program counters.
LEMMA Moved ==
  ASSUME TypeOK, NEW c \in Cores, NEW place \in Places, Goto(c, place)
  PROVE  /\ pc' \in [Cores -> Places] /\ pc'[c] = place
         /\ \A d \in Cores : d # c => pc'[d] = pc[d]
BY DEF TypeOK, Goto

LEMMA InitHolds == Init => IInv
BY DEF Init, IInv, TypeOK, Places, MutualExclusion, MonitorGuardsLock, NoSleeperForgotten

\* An instruction that does not touch the lock word, of a core that is neither
\* inside nor about to store.
LEMMA OutsideStep ==
  ASSUME IInv, NEW c \in Cores, NEW place \in Places,
         pc[c] \notin {"in", "sev"}, place \notin {"in", "sev"}, Goto(c, place),
         UNCHANGED lock,
         monitor' = monitor \/ (monitor' = monitor \cup {c} /\ (place = "stxr" => lock = 0)),
         place = "stxr" => lock = 0 /\ monitor' = monitor \cup {c},
         event' \in SUBSET Cores, event \ {c} \subseteq event',
         place = "wfe" => c \in event' \/ lock = 1
  PROVE  IInv'
<1>1. /\ pc' \in [Cores -> Places] /\ pc'[c] = place
      /\ \A d \in Cores : d # c => pc'[d] = pc[d]
  BY Moved DEF IInv
<1>2. TypeOK'
  BY <1>1 DEF IInv, TypeOK
<1>3. MutualExclusion'
  BY <1>1 DEF IInv, MutualExclusion
<1>4. MonitorGuardsLock'
  BY <1>1 DEF IInv, MonitorGuardsLock
<1>5. NoSleeperForgotten'
  BY <1>1 DEF IInv, NoSleeperForgotten
<1> QED
  BY <1>2, <1>3, <1>4, <1>5 DEF IInv

LEMMA StxrStep ==
  ASSUME IInv, NEW c \in Cores, Stxr(c)
  PROVE  IInv'
<1>1. CASE c \notin monitor
  BY <1>1 DEF Stxr, vars, IInv, TypeOK, MutualExclusion, MonitorGuardsLock, NoSleeperForgotten
<1>2. CASE c \in monitor
  <2>1. /\ pc[c] = "stxr" /\ lock' = 1 /\ monitor' = {}
        /\ event' = event \cup (monitor \ {c}) /\ Goto(c, "in")
    BY <1>2 DEF Stxr
  <2>2. /\ pc' \in [Cores -> Places] /\ pc'[c] = "in"
        /\ \A d \in Cores : d # c => pc'[d] = pc[d]
    BY <2>1, Moved DEF IInv, Places
  <2>3. \A d \in Cores : pc[d] # "in"
    BY <1>2, <2>1 DEF IInv, MonitorGuardsLock, MutualExclusion
  <2>4. MutualExclusion'
    BY <2>1, <2>2, <2>3 DEF MutualExclusion
  <2>5. TypeOK' /\ MonitorGuardsLock' /\ NoSleeperForgotten'
    BY <2>1, <2>2 DEF IInv, TypeOK, MonitorGuardsLock, NoSleeperForgotten
  <2> QED
    BY <2>4, <2>5 DEF IInv
<1> QED
  BY <1>1, <1>2

LEMMA StlrStep ==
  ASSUME IInv, NEW c \in Cores, Stlr(c)
  PROVE  IInv'
<1>1. /\ pc[c] = "in" /\ lock' = 0 /\ monitor' = {}
      /\ event' = event \cup (monitor \ {c}) /\ Goto(c, "sev")
  BY DEF Stlr
<1>2. /\ pc' \in [Cores -> Places] /\ pc'[c] = "sev"
      /\ \A d \in Cores : d # c => pc'[d] = pc[d]
  BY <1>1, Moved DEF IInv, Places
<1>3. MutualExclusion'
  BY <1>1, <1>2 DEF IInv, MutualExclusion
<1>4. TypeOK' /\ MonitorGuardsLock' /\ NoSleeperForgotten'
  BY <1>1, <1>2 DEF IInv, TypeOK, MonitorGuardsLock, NoSleeperForgotten
<1> QED
  BY <1>3, <1>4 DEF IInv

LEMMA SevStep ==
  ASSUME IInv, NEW c \in Cores, Sev(c)
  PROVE  IInv'
<1>1. /\ pc[c] = "sev" /\ event' = Cores /\ Goto(c, "out") /\ UNCHANGED <<lock, monitor>>
  BY DEF Sev
<1>2. /\ pc' \in [Cores -> Places] /\ pc'[c] = "out"
      /\ \A d \in Cores : d # c => pc'[d] = pc[d]
  BY <1>1, Moved DEF IInv, Places
<1> QED
  BY <1>1, <1>2 DEF IInv, TypeOK, MutualExclusion, MonitorGuardsLock, NoSleeperForgotten

\* However many cores contend, and wherever interrupts strike between the
\* instructions.
THEOREM Invariance == Spec => []IInv
<1>1. Init => IInv
  BY InitHolds
<1>2. IInv /\ [Next]_vars => IInv'
  <2> SUFFICES ASSUME IInv, [Next]_vars PROVE IInv'
    OBVIOUS
  <2>1. ASSUME NEW c \in Cores, Call(c) PROVE IInv'
    <3>1. "wfe" \in Places /\ event \cup {c} \in SUBSET Cores
      BY DEF Places, IInv, TypeOK
    <3> QED
      BY <2>1, <3>1, OutsideStep DEF Call
  <2>2. ASSUME NEW c \in Cores, Wfe(c) PROVE IInv'
    <3>1. "ldaxr" \in Places /\ event \ {c} \in SUBSET Cores
      BY DEF Places, IInv, TypeOK
    <3> QED
      BY <2>2, <3>1, OutsideStep DEF Wfe
  <2>3. ASSUME NEW c \in Cores, Ldaxr(c) PROVE IInv'
    <3> DEFINE place == IF lock = 0 THEN "stxr" ELSE "wfe"
    <3>1. place \in Places /\ event \in SUBSET Cores /\ lock \in {0, 1}
      BY DEF Places, IInv, TypeOK
    <3> QED
      BY <2>3, <3>1, OutsideStep DEF Ldaxr
  <2>4. ASSUME NEW c \in Cores, Interrupted(c) PROVE IInv'
    BY <2>4 DEF Interrupted, IInv, TypeOK, MutualExclusion, MonitorGuardsLock, NoSleeperForgotten
  <2>5. CASE UNCHANGED vars
    BY <2>5 DEF vars, IInv, TypeOK, MutualExclusion, MonitorGuardsLock, NoSleeperForgotten
  <2> QED
    BY <2>1, <2>2, <2>3, <2>4, <2>5, StxrStep, StlrStep, SevStep DEF Next, Lock, Unlock
<1> QED
  BY <1>1, <1>2, PTL DEF Spec

\* Every core is at a place of the lock's code, and the lock word is 0 or 1.
THEOREM Typing == Spec => []TypeOK
<1>1. IInv => TypeOK
  BY DEF IInv
<1> QED
  BY <1>1, Invariance, PTL

\* Mutual exclusion of the mailbox spinlock.
THEOREM Exclusion == Spec => []MutualExclusion
<1>1. IInv => MutualExclusion
  BY DEF IInv
<1> QED
  BY <1>1, Invariance, PTL

\* wfe and sev lose no wake-up, without any fence between ldaxr and wfe.
THEOREM Wakeups == Spec => []NoSleeperForgotten
<1>1. IInv => NoSleeperForgotten
  BY DEF IInv
<1> QED
  BY <1>1, Invariance, PTL

-----------------------------------------------------------------------------
(* The ready heap.                                                         *)

AtRest == heapAt \in {"idle", "stamp"}

\* Where the loops stand in the array.
Indices ==
  /\ AtRest => index = 0
  /\ heapAt = "up" => size < Capacity /\ index \in 0 .. size
  /\ heapAt = "down" => size > 0 /\ index \in 0 .. size - 1

Filled == \A i \in InUse : harr[i] \in Entries

\* The order of the heap, broken only between the cell a loop stands at and its
\* parent, or its children; what is around that cell is in order.
Sorted ==
  \A j \in InUse :
    \/ j = 0 \/ (heapAt = "up" /\ j = index) \/ (heapAt = "down" /\ Parent(j) = index)
    \/ ~ Precedes(harr[j], harr[Parent(j)])

Around ==
  ~ AtRest /\ index # 0 =>
    \A j \in InUse : j # 0 /\ Parent(j) = index => ~ Precedes(harr[j], harr[Parent(index)])

\* The entry in hand has the high word of a time not after now, and is of a task
\* that is not in the heap.
HandStamped ==
  \A e \in hand :
    /\ \E q \in Nat : e.time = LowWord * q /\ q <= now \div LowWord
    /\ \A f \in inside : f.pid # e.pid

\* A stamp is true, or at least one wrap too old.
Stamped == \A e \in inside : e.time = e.came \/ e.time + LowWord <= e.came

HeapInv ==
  HeapTypeOK /\ Indices /\ Filled /\ Sorted /\ Around /\ EntriesKept /\ HandStamped /\ Stamped

LEMMA ParentOf ==
  ASSUME NEW j \in Nat, j # 0
  PROVE  /\ Parent(j) \in Nat /\ Parent(j) < j
         /\ j = 2 * Parent(j) + 1 \/ j = 2 * Parent(j) + 2
BY DEF Parent

LEMMA ChildOf ==
  ASSUME NEW i \in Nat
  PROVE  Parent(2 * i + 1) = i /\ Parent(2 * i + 2) = i
BY DEF Parent

\* Precedes is a strict weak order.
LEMMA Order ==
  ASSUME NEW a \in Entries, NEW b \in Entries, NEW c \in Entries
  PROVE  /\ Precedes(a, b) => ~ Precedes(b, a)
         /\ ~ Precedes(a, b) /\ ~ Precedes(b, c) => ~ Precedes(a, c)
         /\ ~ Precedes(a, b) /\ Precedes(c, b) => ~ Precedes(a, c)
<1>1. \A e \in Entries : e.priority \in Nat /\ e.time \in Nat
  BY ReadyHeapAssumption DEF Entries
<1>2. /\ a.priority \in Nat /\ a.time \in Nat /\ b.priority \in Nat /\ b.time \in Nat
      /\ c.priority \in Nat /\ c.time \in Nat
  BY <1>1
<1> QED
  BY <1>2 DEF Precedes

\* What precedes an entry that is not after another precedes that one.
LEMMA Below ==
  ASSUME HeapInv, NEW i \in InUse, NEW j \in InUse, NEW k \in InUse,
         Precedes(harr[i], harr[j]), ~ Precedes(harr[k], harr[j])
  PROVE  Precedes(harr[i], harr[k])
<1>1. /\ harr[i] \in Entries /\ harr[j] \in Entries /\ harr[k] \in Entries
  BY DEF HeapInv, Filled
<1>2. \A e \in Entries : e.priority \in Nat /\ e.time \in Nat
  BY ReadyHeapAssumption DEF Entries
<1> QED
  BY <1>1, <1>2 DEF Precedes

\* In an ordered array nothing precedes the root.
LEMMA RootFirst ==
  ASSUME NEW n \in Nat, NEW h,
         \A j \in 0 .. n - 1 : h[j] \in Entries,
         \A j \in 0 .. n - 1 : j # 0 => ~ Precedes(h[j], h[Parent(j)])
  PROVE  \A j \in 0 .. n - 1 : ~ Precedes(h[j], h[0])
<1> DEFINE Bad == {j \in 0 .. n - 1 : Precedes(h[j], h[0])}
<1>1. SUFFICES ASSUME Bad # {} PROVE FALSE
  OBVIOUS
<1>2. Bad \subseteq Nat
  OBVIOUS
<1>3. PICK j \in Bad : \A k \in Bad : <<k, j>> \notin OpToRel(<, Nat)
  BY <1>1, <1>2, NatLessThanWellFounded, WFMin
<1>4. j \in 0 .. n - 1 /\ Precedes(h[j], h[0]) /\ h[0] \in Entries /\ h[j] \in Entries
  OBVIOUS
<1>5. j # 0
  BY <1>4, Order
<1>6. Parent(j) \in 0 .. n - 1 /\ Parent(j) < j
  BY <1>4, <1>5, ParentOf
<1>7. Parent(j) \notin Bad
  BY <1>2, <1>3, <1>6 DEF OpToRel
<1>8. ~ Precedes(h[Parent(j)], h[0]) /\ ~ Precedes(h[j], h[Parent(j)])
  BY <1>4, <1>5, <1>6, <1>7
<1> QED
  BY <1>4, <1>6, <1>8, Order

\* What holds at the root when the heap is at rest.
LEMMA RootLeast ==
  ASSUME HeapInv, AtRest
  PROVE  \A i \in InUse : ~ Precedes(harr[i], harr[0])
<1>1. InUse = 0 .. size - 1 /\ size \in Nat
  BY DEF HeapInv, HeapTypeOK, AtRest, InUse
<1>2. \A j \in 0 .. size - 1 : j # 0 => ~ Precedes(harr[j], harr[Parent(j)])
  BY <1>1 DEF HeapInv, Sorted, AtRest
<1> QED
  BY <1>1, <1>2, RootFirst DEF HeapInv, Filled

\* An exchange of two cells in use keeps the entries.
LEMMA Exchange ==
  ASSUME HeapInv, NEW i \in InUse, NEW j \in InUse, i # j, harr' = Swapped(i, j),
         InUse' = InUse, UNCHANGED inside
  PROVE  /\ harr' \in [Cells -> Entries \cup {Unused}]
         /\ harr'[i] = harr[j] /\ harr'[j] = harr[i]
         /\ \A k \in InUse : k \notin {i, j} => harr'[k] = harr[k]
         /\ Filled' /\ EntriesKept'
<1>1. InUse \subseteq Cells
  BY ReadyHeapAssumption DEF HeapInv, HeapTypeOK, Indices, InUse, Cells
<1>2. /\ harr' \in [Cells -> Entries \cup {Unused}]
      /\ harr'[i] = harr[j] /\ harr'[j] = harr[i]
      /\ \A k \in InUse : k \notin {i, j} => harr'[k] = harr[k]
  BY <1>1 DEF Swapped, HeapInv, HeapTypeOK
<1>3. Filled'
  BY <1>2 DEF HeapInv, Filled
<1>4. {harr'[k] : k \in InUse} = {harr[k] : k \in InUse}
  BY <1>2
<1>5. \A k, l \in InUse : harr'[k].pid = harr'[l].pid => k = l
  BY <1>2 DEF HeapInv, EntriesKept
<1> QED
  BY <1>2, <1>3, <1>4, <1>5 DEF HeapInv, EntriesKept

\* The words of a time, and what a wrap does to a stamp.
LEMMA Quotients ==
  ASSUME NEW t \in Nat
  PROVE  /\ t \div LowWord \in Nat /\ t % LowWord \in Nat
         /\ t = LowWord * (t \div LowWord) + (t % LowWord)
         /\ (t + 1) \div LowWord \in Nat /\ t \div LowWord <= (t + 1) \div LowWord
BY ReadyHeapAssumption, Z3

LEMMA TornStamp ==
  ASSUME NEW t \in Nat, NEW q \in Nat, q <= t \div LowWord
  PROVE  LET s == LowWord * q + (t % LowWord) IN s = t \/ s + LowWord <= t
<1>1. /\ t \div LowWord \in Nat /\ t % LowWord \in Nat
      /\ t = LowWord * (t \div LowWord) + (t % LowWord)
  BY Quotients
<1> DEFINE d == t \div LowWord
           r == t % LowWord
<1>2. d \in Nat /\ r \in Nat /\ t = LowWord * d + r /\ q <= d /\ LowWord \in Nat
  BY <1>1, ReadyHeapAssumption
<1>3. SUFFICES LowWord * q + r = t \/ LowWord * q + r + LowWord <= t
  OBVIOUS
<1> HIDE DEF d, r
<1>4. CASE q = d
  BY <1>2, <1>4
<1>5. CASE q < d
  <2>1. PICK m \in Nat : d = q + 1 + m
    BY <1>2, <1>5
  <2>2. LowWord * d = LowWord * q + LowWord + LowWord * m /\ LowWord * m \in Nat
    BY <1>2, <2>1
  <2> QED
    BY <1>2, <2>2
<1> QED
  BY <1>2, <1>4, <1>5

LEMMA HeapInitHolds == HeapInit => HeapInv
<1> SUFFICES ASSUME HeapInit PROVE HeapInv
  OBVIOUS
<1>1. /\ harr = [i \in Cells |-> Unused] /\ size = 0 /\ heapAt = "idle" /\ index = 0
      /\ hand = {} /\ now = 0 /\ inside = {}
  BY DEF HeapInit
<1>2. 0 \in Cells /\ InUse = {}
  BY <1>1, ReadyHeapAssumption DEF Cells, InUse
<1>3. HeapTypeOK
  BY <1>1, <1>2, ReadyHeapAssumption DEF HeapTypeOK
<1>4. Indices /\ Filled /\ Sorted /\ Around /\ HandStamped /\ Stamped
  BY <1>1, <1>2 DEF Indices, Filled, Sorted, Around, HandStamped, Stamped, AtRest
<1>5. EntriesKept
  BY <1>1, <1>2 DEF EntriesKept
<1> QED
  BY <1>3, <1>4, <1>5 DEF HeapInv

LEMMA TickKeeps ==
  ASSUME HeapInv, TimerTicks
  PROVE  HeapInv'
<1>1. /\ heapAt \in {"idle", "stamp"} /\ now' = now + 1 /\ now \in Nat
      /\ UNCHANGED <<harr, size, heapAt, index, hand, inside>>
  BY DEF TimerTicks, HeapInv, HeapTypeOK
<1>2. InUse' = InUse
  BY <1>1 DEF InUse
<1>3. HeapTypeOK' /\ Indices' /\ Filled' /\ Sorted' /\ Around' /\ EntriesKept' /\ Stamped'
  BY <1>1, <1>2 DEF HeapInv, HeapTypeOK, Indices, Filled, Sorted, Around, EntriesKept, Stamped, AtRest
<1>4. now \div LowWord <= now' \div LowWord
  BY <1>1, Quotients
<1>5. HandStamped'
  <2> SUFFICES ASSUME NEW e \in hand
               PROVE  /\ \E q \in Nat : e.time = LowWord * q /\ q <= now' \div LowWord
                      /\ \A f \in inside : f.pid # e.pid
    BY <1>1 DEF HandStamped
  <2>1. PICK q \in Nat : e.time = LowWord * q /\ q <= now \div LowWord
    BY DEF HeapInv, HandStamped
  <2>2. q <= now' \div LowWord
    BY <1>1, <1>4, <2>1, Quotients
  <2> QED
    BY <2>1, <2>2 DEF HeapInv, HandStamped
<1> QED
  BY <1>3, <1>5 DEF HeapInv

LEMMA HighKeeps ==
  ASSUME HeapInv, NEW p \in Pids, NEW l \in Levels, InsertReadsHigh(p, l)
  PROVE  HeapInv'
<1> DEFINE e == [pid |-> p, priority |-> l, time |-> LowWord * (now \div LowWord), came |-> now]
<1>1. /\ heapAt = "idle" /\ p \notin {f.pid : f \in inside} /\ hand' = {e} /\ heapAt' = "stamp"
      /\ UNCHANGED <<harr, size, index, now, inside>>
  BY DEF InsertReadsHigh
<1>2. InUse' = InUse
  BY <1>1 DEF InUse
<1>3. now \in Nat /\ now \div LowWord \in Nat
  BY Quotients DEF HeapInv, HeapTypeOK
<1>4. e \in Entries
  BY <1>3, ReadyHeapAssumption DEF Entries
<1>5. HeapTypeOK'
  BY <1>1, <1>4 DEF HeapInv, HeapTypeOK
<1>6. Indices' /\ Filled' /\ Sorted' /\ Around' /\ EntriesKept' /\ Stamped'
  BY <1>1, <1>2 DEF HeapInv, Indices, Filled, Sorted, Around, EntriesKept, Stamped, AtRest
<1>7. HandStamped'
  BY <1>1, <1>3 DEF HandStamped
<1> QED
  BY <1>5, <1>6, <1>7 DEF HeapInv

LEMMA LowKeeps ==
  ASSUME HeapInv, InsertReadsLow
  PROVE  HeapInv'
<1>1. /\ heapAt = "stamp" /\ hand' = {} /\ UNCHANGED <<size, now>>
      /\ size \in 0 .. Capacity /\ now \in Nat /\ index = 0 /\ InUse = 0 .. size - 1
  BY DEF InsertReadsLow, HeapInv, HeapTypeOK, Indices, AtRest, InUse
<1>2. CASE size = Capacity
  <2>1. heapAt' = "idle" /\ UNCHANGED <<harr, index, inside>>
    BY <1>2 DEF InsertReadsLow
  <2>2. InUse' = InUse
    BY <1>1, <2>1 DEF InUse
  <2>3. HandStamped'
    BY <1>1 DEF HandStamped
  <2>4. HeapTypeOK' /\ Indices' /\ Filled' /\ Sorted' /\ Around' /\ EntriesKept' /\ Stamped'
    BY <1>1, <2>1, <2>2
    DEF HeapInv, HeapTypeOK, Indices, Filled, Sorted, Around, EntriesKept, Stamped, AtRest
  <2> QED
    BY <2>3, <2>4 DEF HeapInv
<1>3. CASE size # Capacity
  <2>1. PICK e \in hand :
          LET k == Stamp(e)
          IN /\ harr' = [harr EXCEPT ![size] = k]
             /\ heapAt' = "up" /\ index' = size
             /\ inside' = inside \cup {k}
    BY <1>3 DEF InsertReadsLow
  <2> DEFINE k == Stamp(e)
  <2>2. e \in Entries
    BY DEF HeapInv, HeapTypeOK
  <2>3. now % LowWord \in Nat
    BY <1>1, Quotients
  <2>4. /\ k \in Entries /\ k.pid = e.pid /\ k.time = e.time + (now % LowWord) /\ k.came = now
    <3>1. e.time \in Nat /\ e.time + (now % LowWord) \in Nat
      BY <2>2, <2>3 DEF Entries
    <3> QED
      BY <1>1, <2>2, <3>1 DEF Stamp, Entries
  <2> HIDE DEF k
  <2>5. /\ harr' = [harr EXCEPT ![size] = k] /\ heapAt' = "up" /\ index' = size
        /\ inside' = inside \cup {k}
    BY <2>1 DEF k
  <2>6. size \in Cells /\ InUse' = InUse \cup {size} /\ size \notin InUse /\ InUse \subseteq Cells
    BY <1>1, <1>3, <2>5, ReadyHeapAssumption DEF Cells, InUse
  <2>7. /\ harr' \in [Cells -> Entries \cup {Unused}] /\ harr'[size] = k
        /\ \A i \in InUse : harr'[i] = harr[i]
    BY <2>4, <2>5, <2>6 DEF HeapInv, HeapTypeOK
  <2>8. HeapTypeOK'
    BY <1>1, <2>4, <2>5, <2>6, <2>7 DEF HeapInv, HeapTypeOK
  <2>9. Indices'
    BY <1>1, <1>3, <2>5, ReadyHeapAssumption DEF Indices, AtRest
  <2>10. Filled'
    BY <2>4, <2>6, <2>7 DEF HeapInv, Filled
  <2>11. Sorted'
    <3> SUFFICES ASSUME NEW j \in InUse, j # 0
                 PROVE  ~ Precedes(harr'[j], harr'[Parent(j)])
      BY <2>5, <2>6 DEF Sorted
    <3>1. Parent(j) \in InUse
      BY <1>1, ParentOf
    <3>2. ~ Precedes(harr[j], harr[Parent(j)])
      BY <1>1 DEF HeapInv, Sorted
    <3> QED
      BY <2>7, <3>1, <3>2
  <2>12. Around'
    <3>1. \A j \in InUse' : j # 0 => Parent(j) # size
      BY <1>1, <2>6, ParentOf
    <3> QED
      BY <2>5, <3>1 DEF Around
  <2>13. \A f \in inside : f.pid # k.pid
    BY <2>4 DEF HeapInv, HandStamped
  <2>14. EntriesKept'
    <3>1. \A i \in InUse : harr[i] \in inside
      BY DEF HeapInv, EntriesKept
    <3>2. {harr'[i] : i \in InUse'} = {harr[i] : i \in InUse} \cup {k}
      BY <2>6, <2>7
    <3>3. \A i, j \in InUse' : harr'[i].pid = harr'[j].pid => i = j
      BY <2>6, <2>7, <2>13, <3>1 DEF HeapInv, EntriesKept
    <3> QED
      BY <2>5, <3>2, <3>3 DEF HeapInv, EntriesKept
  <2>15. HandStamped'
    BY <1>1 DEF HandStamped
  <2>16. k.time = k.came \/ k.time + LowWord <= k.came
    <3>1. PICK q \in Nat : e.time = LowWord * q /\ q <= now \div LowWord
      BY DEF HeapInv, HandStamped
    <3> QED
      BY <1>1, <2>4, <3>1, TornStamp
  <2>17. Stamped'
    BY <2>5, <2>16 DEF HeapInv, Stamped
  <2> QED
    BY <2>8, <2>9, <2>10, <2>11, <2>12, <2>14, <2>15, <2>17 DEF HeapInv
<1> QED
  BY <1>2, <1>3

\* What the loops use of the array: entries, their order, their parents.
LEMMA Ranks ==
  ASSUME HeapInv, NEW i \in InUse, NEW j \in InUse, NEW k \in InUse
  PROVE  /\ Precedes(harr[i], harr[j]) => ~ Precedes(harr[j], harr[i])
         /\ ~ Precedes(harr[i], harr[j]) /\ ~ Precedes(harr[j], harr[k])
              => ~ Precedes(harr[i], harr[k])
         /\ ~ Precedes(harr[i], harr[j]) /\ Precedes(harr[k], harr[j])
              => ~ Precedes(harr[i], harr[k])
<1>1. harr[i] \in Entries /\ harr[j] \in Entries /\ harr[k] \in Entries
  BY DEF HeapInv, Filled
<1> QED
  BY <1>1, Order

LEMMA UpKeeps ==
  ASSUME HeapInv, BubbleUp
  PROVE  HeapInv'
<1> DEFINE up == Parent(index)
<1>1. /\ heapAt = "up" /\ UNCHANGED <<hand, now, inside>>
      /\ size \in 0 .. Capacity /\ size < Capacity /\ index \in 0 .. size /\ InUse = 0 .. size
  BY DEF BubbleUp, HeapInv, HeapTypeOK, Indices, InUse
<1>2. HandStamped' /\ Stamped'
  BY <1>1 DEF HeapInv, HandStamped, Stamped
<1>3. up \in InUse /\ (index # 0 => up < index)
  BY <1>1, ParentOf DEF Parent
<1>4. CASE Precedes(harr[index], harr[up])
  <2>1. /\ harr' = Swapped(index, up) /\ index' = up /\ UNCHANGED <<heapAt, size>>
        /\ InUse' = InUse
    BY <1>4 DEF BubbleUp, InUse
  <2>2. index # up /\ index # 0
    BY <1>1, <1>3, <1>4, Ranks DEF Parent
  <2>3. /\ harr' \in [Cells -> Entries \cup {Unused}]
        /\ harr'[index] = harr[up] /\ harr'[up] = harr[index]
        /\ \A k \in InUse : k \notin {index, up} => harr'[k] = harr[k]
        /\ Filled' /\ EntriesKept'
    BY <1>1, <1>3, <2>1, <2>2, Exchange
  <2>4. HeapTypeOK' /\ Indices'
    BY <1>1, <1>3, <2>1, <2>3, ReadyHeapAssumption DEF HeapInv, HeapTypeOK, Indices, AtRest, Cells
  <2>5. \A j \in InUse : j # 0 /\ j # index => ~ Precedes(harr[j], harr[Parent(j)])
    BY <1>1 DEF HeapInv, Sorted
  <2>6. \A j \in InUse : j # 0 /\ Parent(j) = index => ~ Precedes(harr[j], harr[up])
    BY <1>1, <2>2 DEF HeapInv, Around, AtRest
  <2>7. Sorted'
    <3> SUFFICES ASSUME NEW j \in InUse, j # 0, j # up
                 PROVE  ~ Precedes(harr'[j], harr'[Parent(j)])
      BY <1>1, <2>1 DEF Sorted
    <3>1. Parent(j) \in InUse /\ Parent(j) < j
      BY <1>1, ParentOf
    <3>2. CASE j = index
      BY <1>1, <1>3, <1>4, <2>3, <3>2, Ranks
    <3>3. CASE j # index /\ Parent(j) = index
      BY <1>1, <2>3, <2>6, <3>1, <3>3
    <3>4. CASE j # index /\ Parent(j) = up
      <4>1. ~ Precedes(harr[j], harr[up])
        BY <2>5, <3>4
      <4>2. ~ Precedes(harr[j], harr[index])
        BY <1>1, <1>3, <1>4, <4>1, Ranks
      <4> QED
        BY <2>3, <3>4, <4>2
    <3>5. CASE j # index /\ Parent(j) \notin {index, up}
      BY <2>3, <2>5, <3>1, <3>5
    <3> QED
      BY <3>2, <3>3, <3>4, <3>5
  <2>8. Around'
    <3> SUFFICES ASSUME up # 0, NEW j \in InUse, j # 0, Parent(j) = up
                 PROVE  ~ Precedes(harr'[j], harr'[Parent(up)])
      BY <2>1 DEF Around
    <3>1. Parent(up) \in InUse /\ Parent(up) < up
      BY <1>1, <1>3, ParentOf
    <3>2. harr'[Parent(up)] = harr[Parent(up)]
      BY <1>1, <1>3, <2>2, <2>3, <3>1
    <3>3. ~ Precedes(harr[up], harr[Parent(up)])
      BY <1>3, <2>2, <2>5
    <3>4. CASE j = index
      BY <2>3, <3>2, <3>3, <3>4
    <3>5. CASE j # index
      <4>1. j # up
        BY <1>1, ParentOf
      <4>2. ~ Precedes(harr[j], harr[up])
        BY <2>5, <3>5
      <4>3. ~ Precedes(harr[j], harr[Parent(up)])
        BY <1>3, <3>1, <3>3, <4>2, Ranks
      <4> QED
        BY <2>3, <3>2, <3>5, <4>1, <4>3
    <3> QED
      BY <3>4, <3>5
  <2> QED
    BY <1>2, <2>3, <2>4, <2>7, <2>8 DEF HeapInv
<1>5. CASE ~ Precedes(harr[index], harr[up])
  <2>1. heapAt' = "idle" /\ index' = 0 /\ size' = size + 1 /\ UNCHANGED harr
    BY <1>5 DEF BubbleUp
  <2>2. InUse' = InUse
    BY <1>1, <2>1 DEF InUse
  <2>3. HeapTypeOK' /\ Indices' /\ Around'
    BY <1>1, <2>1, ReadyHeapAssumption DEF HeapInv, HeapTypeOK, Indices, Around, AtRest, Cells
  <2>4. Filled' /\ EntriesKept'
    BY <1>1, <2>1, <2>2 DEF HeapInv, Filled, EntriesKept
  <2>5. Sorted'
    BY <1>1, <1>5, <2>1, <2>2 DEF HeapInv, Sorted
  <2> QED
    BY <1>2, <2>3, <2>4, <2>5 DEF HeapInv
<1> QED
  BY <1>4, <1>5

LEMMA ExtractKeeps ==
  ASSUME HeapInv, ExtractMin
  PROVE  HeapInv'
<1>1. /\ heapAt = "idle" /\ size > 0 /\ size' = size - 1 /\ inside' = inside \ {harr[0]}
      /\ UNCHANGED <<hand, now>>
      /\ size \in 1 .. Capacity /\ index = 0 /\ InUse = 0 .. size - 1
  BY DEF ExtractMin, HeapInv, HeapTypeOK, Indices, AtRest, InUse
<1>2. HandStamped' /\ Stamped' /\ inside' \subseteq Entries
  BY <1>1 DEF HeapInv, HeapTypeOK, HandStamped, Stamped
<1>3. InUse \subseteq Cells
  BY <1>1, ReadyHeapAssumption DEF Cells
<1>4. CASE size = 1
  <2>1. harr' = [harr EXCEPT ![0] = Unused] /\ UNCHANGED <<heapAt, index>>
    BY <1>4 DEF ExtractMin
  <2>2. InUse' = {} /\ InUse = {0}
    BY <1>1, <1>4, <2>1 DEF InUse
  <2>3. HeapTypeOK' /\ Indices' /\ Around'
    BY <1>1, <1>2, <2>1, ReadyHeapAssumption DEF HeapInv, HeapTypeOK, Indices, Around, AtRest
  <2>4. Filled' /\ Sorted' /\ EntriesKept'
    BY <1>1, <2>2 DEF HeapInv, Filled, Sorted, EntriesKept
  <2> QED
    BY <1>2, <2>3, <2>4 DEF HeapInv
<1>5. CASE size # 1
  <2>1. /\ harr' = [harr EXCEPT ![0] = harr[size - 1], ![size - 1] = Unused]
        /\ heapAt' = "down" /\ index' = 0
    BY <1>5 DEF ExtractMin
  <2>2. /\ InUse' = 0 .. size - 2 /\ size - 1 \in InUse /\ 0 \in InUse' /\ size - 1 # 0
        /\ InUse = InUse' \cup {size - 1}
    BY <1>1, <1>5, <2>1 DEF InUse
  <2>3. /\ harr' \in [Cells -> Entries \cup {Unused}]
        /\ harr'[0] = harr[size - 1]
        /\ \A i \in InUse' : i # 0 => harr'[i] = harr[i]
    BY <1>1, <1>3, <2>1, <2>2 DEF HeapInv, HeapTypeOK, Filled
  <2>4. HeapTypeOK' /\ Indices'
    BY <1>1, <1>2, <1>5, <2>1, <2>3, ReadyHeapAssumption
    DEF HeapInv, HeapTypeOK, Indices, AtRest, Cells
  <2>5. Filled'
    BY <2>2, <2>3 DEF HeapInv, Filled
  <2>6. Around'
    BY <2>1 DEF Around
  <2>7. Sorted'
    <3> SUFFICES ASSUME NEW j \in InUse', j # 0, Parent(j) # 0
                 PROVE  ~ Precedes(harr'[j], harr'[Parent(j)])
      BY <1>1, <2>1 DEF Sorted
    <3>1. Parent(j) \in InUse' /\ j \in InUse
      BY <1>1, <2>2, ParentOf
    <3>2. ~ Precedes(harr[j], harr[Parent(j)])
      BY <1>1, <3>1 DEF HeapInv, Sorted
    <3> QED
      BY <2>3, <3>1, <3>2
  <2>8. EntriesKept'
    <3>1. \A i, j \in InUse : harr[i].pid = harr[j].pid => i = j
      BY DEF HeapInv, EntriesKept
    <3>2. \A i, j \in InUse' : harr'[i].pid = harr'[j].pid => i = j
      <4> DEFINE From(i) == IF i = 0 THEN size - 1 ELSE i
      <4>1. \A i \in InUse' : From(i) \in InUse /\ harr'[i] = harr[From(i)]
        BY <2>2, <2>3
      <4>2. \A i, j \in InUse' : From(i) = From(j) => i = j
        BY <1>1, <2>2
      <4> HIDE DEF From
      <4> QED
        BY <3>1, <4>1, <4>2
    <3>3. inside = {harr[i] : i \in InUse}
      BY DEF HeapInv, EntriesKept
    <3>4. inside' = {harr[i] : i \in InUse \ {0}}
      BY <1>1, <2>2, <3>1, <3>3
    <3>5. {harr'[i] : i \in InUse'} = {harr[i] : i \in InUse \ {0}}
      <4>1. \A i \in InUse' : harr'[i] \in {harr[j] : j \in InUse \ {0}}
        BY <2>2, <2>3
      <4>2. \A j \in InUse \ {0} : harr[j] \in {harr'[i] : i \in InUse'}
        BY <2>2, <2>3
      <4> QED
        BY <4>1, <4>2
    <3> QED
      BY <3>2, <3>4, <3>5 DEF EntriesKept
  <2> QED
    BY <1>2, <2>4, <2>5, <2>6, <2>7, <2>8 DEF HeapInv
<1> QED
  BY <1>4, <1>5

\* The cell that bubbleDown goes on with.
LEMMA SmallestOf ==
  ASSUME HeapInv, heapAt = "down"
  PROVE  LET s == Smallest(index) IN
         /\ s \in InUse
         /\ s = index \/ (Parent(s) = index /\ s > index /\ Precedes(harr[s], harr[index]))
         /\ \A j \in InUse : j # 0 /\ Parent(j) = index => ~ Precedes(harr[j], harr[s])
<1> DEFINE l == 2 * index + 1
           r == 2 * index + 2
           least(j, k) == IF j < size /\ Precedes(harr[j], harr[k]) THEN j ELSE k
           a == least(l, index)
           s == least(r, a)
<1>1. Smallest(index) = s
  BY DEF Smallest
<1>2. size \in Nat /\ index \in 0 .. size - 1 /\ InUse = 0 .. size - 1
  BY DEF HeapInv, HeapTypeOK, Indices, InUse
<1>3. l \in Nat /\ r \in Nat /\ l > index /\ r > index /\ Parent(l) = index /\ Parent(r) = index
  <2>1. index \in Nat
    BY <1>2
  <2>2. Parent(2 * index + 1) = index /\ Parent(2 * index + 2) = index
    BY <2>1, ChildOf
  <2> QED
    BY <2>1, <2>2
<1>4. /\ a \in InUse /\ (a = index \/ (a = l /\ Precedes(harr[a], harr[index])))
      /\ (l < size => ~ Precedes(harr[l], harr[a]))
  <2>1. CASE l < size /\ Precedes(harr[l], harr[index])
    BY <1>2, <1>3, <2>1, Ranks
  <2>2. CASE ~ (l < size /\ Precedes(harr[l], harr[index]))
    BY <1>2, <1>3, <2>2
  <2> QED
    BY <2>1, <2>2
<1> HIDE DEF l, r, a
<1>5. /\ s \in InUse
      /\ s = index \/ (s \in {l, r} /\ Precedes(harr[s], harr[index]))
      /\ l < size => ~ Precedes(harr[l], harr[s])
      /\ r < size => ~ Precedes(harr[r], harr[s])
  <2>1. CASE r < size /\ Precedes(harr[r], harr[a])
    <3>1. s = r /\ r \in InUse /\ ~ Precedes(harr[r], harr[r])
      BY <1>2, <1>3, <2>1, Ranks
    <3>2. l < size => l \in InUse
      BY <1>2, <1>3
    <3>3. l < size => ~ Precedes(harr[l], harr[r])
      BY <1>4, <2>1, <3>1, <3>2, Ranks
    <3>4. Precedes(harr[r], harr[index])
      <4>1. index \in InUse /\ ~ Precedes(harr[index], harr[a])
        BY <1>2, <1>4, Ranks
      <4> QED
        BY <1>4, <2>1, <3>1, <4>1, Below
    <3> QED
      BY <3>1, <3>3, <3>4
  <2>2. CASE ~ (r < size /\ Precedes(harr[r], harr[a]))
    BY <1>2, <1>3, <1>4, <2>2
  <2> QED
    BY <2>1, <2>2
<1> HIDE DEF s
<1>6. \A j \in InUse : j # 0 /\ Parent(j) = index => j < size /\ j \in {l, r}
  BY <1>2, ParentOf DEF l, r
<1> QED
  BY <1>1, <1>3, <1>5, <1>6

LEMMA DownKeeps ==
  ASSUME HeapInv, BubbleDown
  PROVE  HeapInv'
<1> DEFINE s == Smallest(index)
<1>1. /\ heapAt = "down" /\ UNCHANGED <<size, hand, now, inside>>
      /\ size \in 1 .. Capacity /\ index \in 0 .. size - 1 /\ InUse = 0 .. size - 1
  BY DEF BubbleDown, HeapInv, HeapTypeOK, Indices, InUse
<1>2. HandStamped' /\ Stamped'
  BY <1>1 DEF HeapInv, HandStamped, Stamped
<1>3. /\ s \in InUse
      /\ s = index \/ (Parent(s) = index /\ s > index /\ Precedes(harr[s], harr[index]))
      /\ \A j \in InUse : j # 0 /\ Parent(j) = index => ~ Precedes(harr[j], harr[s])
  BY <1>1, SmallestOf
<1>4. \A j \in InUse : j # 0 /\ Parent(j) # index => ~ Precedes(harr[j], harr[Parent(j)])
  BY <1>1 DEF HeapInv, Sorted
<1>5. CASE s # index
  <2>1. /\ harr' = Swapped(index, s) /\ index' = s /\ UNCHANGED heapAt /\ InUse' = InUse
    BY <1>1, <1>5 DEF BubbleDown, InUse
  <2> HIDE DEF s
  <2>2. /\ harr' \in [Cells -> Entries \cup {Unused}]
        /\ harr'[index] = harr[s] /\ harr'[s] = harr[index]
        /\ \A k \in InUse : k \notin {index, s} => harr'[k] = harr[k]
        /\ Filled' /\ EntriesKept'
    BY <1>1, <1>3, <1>5, <2>1, Exchange
  <2>3. s # 0 /\ Parent(s) = index /\ s > index /\ Precedes(harr[s], harr[index])
    BY <1>1, <1>3, <1>5
  <2>4. HeapTypeOK' /\ Indices'
    BY <1>1, <1>3, <2>1, <2>2, ReadyHeapAssumption DEF HeapInv, HeapTypeOK, Indices, AtRest, Cells
  <2>5. Sorted'
    <3> SUFFICES ASSUME NEW j \in InUse, j # 0, Parent(j) # s
                 PROVE  ~ Precedes(harr'[j], harr'[Parent(j)])
      BY <1>1, <2>1 DEF Sorted
    <3>1. Parent(j) \in InUse /\ Parent(j) < j
      BY <1>1, ParentOf
    <3>2. CASE j = s
      BY <1>1, <1>3, <2>2, <2>3, <3>2, Ranks
    <3>3. CASE j # s /\ Parent(j) = index
      BY <1>1, <1>3, <2>2, <3>1, <3>3
    <3>4. CASE j = index
      <4>1. ~ Precedes(harr[s], harr[Parent(index)])
        BY <1>1, <1>3, <2>3, <3>4 DEF HeapInv, Around, AtRest
      <4> QED
        BY <2>2, <2>3, <3>1, <3>4, <4>1
    <3>5. CASE j # s /\ j # index /\ Parent(j) # index
      BY <1>4, <2>2, <3>1, <3>5
    <3> QED
      BY <3>2, <3>3, <3>4, <3>5
  <2>6. Around'
    <3> SUFFICES ASSUME NEW j \in InUse, j # 0, Parent(j) = s
                 PROVE  ~ Precedes(harr'[j], harr'[Parent(s)])
      BY <2>1 DEF Around
    <3>1. j \notin {index, s}
      BY <1>1, <2>3, ParentOf
    <3>2. ~ Precedes(harr[j], harr[s])
      BY <1>4, <1>5
    <3> QED
      BY <2>2, <2>3, <3>1, <3>2
  <2> QED
    BY <1>2, <2>2, <2>4, <2>5, <2>6 DEF HeapInv
<1>6. CASE s = index
  <2>1. heapAt' = "idle" /\ index' = 0 /\ UNCHANGED harr
    BY <1>6 DEF BubbleDown
  <2>2. InUse' = InUse
    BY <1>1, <2>1 DEF InUse
  <2>3. HeapTypeOK' /\ Indices' /\ Around'
    BY <1>1, <2>1, ReadyHeapAssumption DEF HeapInv, HeapTypeOK, Indices, Around, AtRest, Cells
  <2>4. Filled' /\ EntriesKept'
    BY <1>1, <2>1, <2>2 DEF HeapInv, Filled, EntriesKept
  <2>5. Sorted'
    BY <1>3, <1>4, <1>6, <2>1, <2>2 DEF Sorted
  <2> QED
    BY <1>2, <2>3, <2>4, <2>5 DEF HeapInv
<1> QED
  BY <1>5, <1>6

\* The heap is in order, but for the path of the loop that puts it in order.
THEOREM HeapInvariance == HeapSpec => []HeapInv
<1>1. HeapInv /\ [HeapNext]_heapVars => HeapInv'
  <2> SUFFICES ASSUME HeapInv, [HeapNext]_heapVars PROVE HeapInv'
    OBVIOUS
  <2>1. CASE UNCHANGED heapVars
    <3>1. InUse' = InUse
      BY <2>1 DEF heapVars, InUse
    <3> QED
      BY <2>1, <3>1 DEF heapVars, HeapInv, HeapTypeOK, Indices, Filled, Sorted, Around,
                        EntriesKept, HandStamped, Stamped, AtRest
  <2> QED
    BY <2>1, TickKeeps, HighKeeps, LowKeeps, UpKeeps, ExtractKeeps, DownKeeps DEF HeapNext
<1> QED
  BY <1>1, HeapInitHolds, PTL DEF HeapSpec

\* The heap's loops and its arrays keep their types.
THEOREM HeapTyping == HeapSpec => []HeapTypeOK
<1>1. HeapInv => HeapTypeOK
  BY DEF HeapInv
<1> QED
  BY <1>1, HeapInvariance, PTL

\* What scrPick returns has the highest priority of all that are ready.
THEOREM Highest == HeapSpec => []HighestIsTaken
<1>1. HeapInv => HighestIsTaken
  <2> SUFFICES ASSUME HeapInv, AtRest, NEW i \in InUse
               PROVE  harr[0].priority <= harr[i].priority
    BY DEF HighestIsTaken, AtRest
  <2>1. ~ Precedes(harr[i], harr[0])
    BY RootLeast
  <2>2. 0 \in InUse
    BY DEF InUse, AtRest, HeapInv, HeapTypeOK
  <2>3. harr[0] \in Entries /\ harr[i] \in Entries
    BY <2>2 DEF HeapInv, Filled
  <2>4. harr[0].priority \in Nat /\ harr[i].priority \in Nat
    BY <2>3, ReadyHeapAssumption DEF Entries
  <2> QED
    BY <2>1, <2>4 DEF Precedes
<1> QED
  BY <1>1, HeapInvariance, PTL

\* No entry is lost in an exchange, and none doubled.
THEOREM Kept == HeapSpec => []EntriesKept
<1>1. HeapInv => EntriesKept
  BY DEF HeapInv
<1> QED
  BY <1>1, HeapInvariance, PTL

\* Tasks of one priority are taken in the order in which they came, but for those
\* stamped while the low word of the timer wrapped.
THEOREM Turns == HeapSpec => []EarlierIsTakenFirst
<1>1. HeapInv => EarlierIsTakenFirst
  <2> SUFFICES ASSUME HeapInv, AtRest, NEW i \in InUse,
                      harr[i].priority = harr[0].priority, harr[i].came < harr[0].came
               PROVE  harr[0].time + LowWord <= harr[0].came
    BY DEF EarlierIsTakenFirst, AtRest
  <2>1. ~ Precedes(harr[i], harr[0])
    BY RootLeast
  <2>2. 0 \in InUse
    BY DEF InUse, AtRest, HeapInv, HeapTypeOK
  <2>3. \A k \in InUse : harr[k] \in Entries /\ harr[k] \in inside
    BY DEF HeapInv, Filled, EntriesKept
  <2>4. /\ harr[0].time = harr[0].came \/ harr[0].time + LowWord <= harr[0].came
        /\ harr[i].time = harr[i].came \/ harr[i].time + LowWord <= harr[i].came
    BY <2>2, <2>3 DEF HeapInv, Stamped
  <2>5. \A e \in Entries : e.time \in Nat /\ e.came \in Nat
    BY DEF Entries
  <2>6. /\ harr[0].time \in Nat /\ harr[0].came \in Nat
        /\ harr[i].time \in Nat /\ harr[i].came \in Nat
    BY <2>2, <2>3, <2>5
  <2>7. ~ harr[i].time < harr[0].time
    BY <2>1 DEF Precedes
  <2> QED
    BY <2>4, <2>6, <2>7, ReadyHeapAssumption
<1> QED
  BY <1>1, HeapInvariance, PTL

\* Both: what scrPick takes is of the highest priority, and came first of those, but
\* for a torn stamp.
THEOREM RightOne == HeapSpec => []RightOneIsTaken
<1>1. HighestIsTaken /\ EarlierIsTakenFirst => RightOneIsTaken
  BY DEF RightOneIsTaken
<1> QED
  BY <1>1, Highest, Turns, PTL

\* Side by side, lock and heap behave as each does by itself.
THEOREM PrimitivesAreParts == PrimitivesSpec => Spec /\ HeapSpec
<1>1. PrimitivesInit => Init /\ HeapInit
  BY DEF PrimitivesInit
<1>2. [PrimitivesNext]_<<part, vars, heapVars>> => [Next]_vars
  BY DEF PrimitivesNext, LockPart, HeapPart
<1>3. [PrimitivesNext]_<<part, vars, heapVars>> => [HeapNext]_heapVars
  BY DEF PrimitivesNext, LockPart, HeapPart
<1> QED
  BY <1>1, <1>2, <1>3, PTL DEF PrimitivesSpec, Spec, HeapSpec

=============================================================================
