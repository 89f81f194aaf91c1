---------------------------- MODULE KernelProofs ----------------------------
(***************************************************************************)
(* Theorems about Kernel for every number of task slots, ring size, set of *)
(* priorities and set of events.                                           *)
(***************************************************************************)
EXTENDS Kernel, FiniteSetTheorems, WellFoundedInduction, TLAPS

-----------------------------------------------------------------------------
(* The ready heap.                                                         *)

\* A heap in which no task is queued twice has as many entries as tasks.
LEMMA HeapSize ==
  ASSUME NEW h \in SUBSET (Tid \X {0})
  PROVE  /\ IsFiniteSet(h) /\ IsFiniteSet(Ready(h))
         /\ Cardinality(h) = Cardinality(Ready(h))
<1> DEFINE f == [e \in h |-> e[1]]
<1>1. IsFiniteSet(Tid)
  BY FS_Interval, KernelAssumption DEF KernelAssumption, Tid
<1>2. Ready(h) \in SUBSET Tid
  BY DEF Ready
<1>3. IsFiniteSet(Ready(h))
  BY <1>1, <1>2, FS_Subset
<1>4. f \in [h -> Ready(h)]
  BY DEF Ready
<1>5. \A x, y \in h : f[x] = f[y] => x = y
  <2> TAKE x, y \in h
  <2>1. x = <<x[1], 0>> /\ y = <<y[1], 0>>
    OBVIOUS
  <2> QED BY <2>1
<1>6. f \in Injection(h, Ready(h))
  BY <1>4, <1>5 DEF Injection, IsInjective
<1>7. f \in Surjection(h, Ready(h))
  BY <1>4 DEF Surjection, Ready
<1> QED
  BY <1>3, <1>6, <1>7, FS_Injection

\* Tasks that are not on such a heap always fit: no entry is dropped, and each
\* task gets one.
LEMMA EnqueueFits ==
  ASSUME NEW h \in SUBSET (Tid \X {0}), NEW S \in SUBSET Tid, S \cap Ready(h) = {}
  PROVE  Enqueue(h, S) = {h \cup (S \X {0})}
<1>1. IsFiniteSet(Tid) /\ Cardinality(Tid) = NUMPROCS /\ NUMPROCS \in Nat
  BY FS_Interval, KernelAssumption DEF KernelAssumption, Tid
<1>2. IsFiniteSet(h) /\ IsFiniteSet(Ready(h)) /\ Cardinality(h) = Cardinality(Ready(h))
  BY HeapSize
<1>3. IsFiniteSet(S)
  BY <1>1, FS_Subset
<1>4. Cardinality(Ready(h) \cup S) = Cardinality(h) + Cardinality(S)
  <2>1. Cardinality(Ready(h) \cap S) = 0
    BY FS_EmptySet
  <2>2. Cardinality(Ready(h)) \in Nat /\ Cardinality(S) \in Nat
    BY <1>2, <1>3, FS_CardinalityType
  <2> QED
    BY <1>2, <1>3, <2>1, <2>2, FS_Union
<1>5. Cardinality(Ready(h) \cup S) <= NUMPROCS
  <2>1. Ready(h) \cup S \in SUBSET Tid
    BY DEF Ready
  <2> QED
    BY <1>1, <2>1, FS_Subset
<1>6. Cardinality(h) \in Nat /\ Cardinality(S) \in Nat
  BY <1>2, <1>3, FS_CardinalityType
<1>7. Cardinality(S) <= NUMPROCS - Cardinality(h)
  BY <1>1, <1>4, <1>5, <1>6
<1>8. {E \in SUBSET S : \/ E = S /\ Cardinality(S) <= NUMPROCS - Cardinality(h)
                        \/ /\ Cardinality(E) = NUMPROCS - Cardinality(h)
                           /\ Cardinality(S) > NUMPROCS - Cardinality(h)} = {S}
  BY <1>1, <1>6, <1>7
<1>9. \A t \in S : Cardinality(Copies(h, t)) = 0
  <2> TAKE t \in S
  <2>1. Copies(h, t) = {}
    BY DEF Copies, Ready
  <2> QED
    BY <2>1, FS_EmptySet
<1>10. {<<t, Cardinality(Copies(h, t))>> : t \in S} = S \X {0}
  BY <1>9
<1> QED
  BY <1>8, <1>10 DEF Enqueue

\* The tasks on a heap after one entry per task of S is added.
LEMMA ReadyUnion ==
  ASSUME NEW h, NEW S
  PROVE  Ready(h \cup (S \X {0})) = Ready(h) \cup S
<1>1. \A t \in S : <<t, 0>> \in S \X {0} /\ <<t, 0>>[1] = t
  OBVIOUS
<1>2. \A e \in S \X {0} : e[1] \in S
  OBVIOUS
<1>3. Ready(h \cup (S \X {0})) \subseteq Ready(h) \cup S
  BY <1>2 DEF Ready
<1>4. S \subseteq Ready(h \cup (S \X {0}))
  <2> SUFFICES ASSUME NEW t \in S PROVE t \in Ready(h \cup (S \X {0}))
    OBVIOUS
  <2>1. <<t, 0>> \in h \cup (S \X {0}) /\ t = <<t, 0>>[1]
    BY <1>1
  <2> QED
    BY <2>1 DEF Ready
<1>5. Ready(h) \subseteq Ready(h \cup (S \X {0}))
  BY DEF Ready
<1> QED
  BY <1>3, <1>4, <1>5

\* So waking blocked tasks, none of which is on the heap, adds one entry each.
LEMMA UnblockFits ==
  ASSUME NEW h \in SUBSET (Tid \X {0}), NEW b, NEW S \in SUBSET Tid,
         S \subseteq b, S \cap Ready(h) = {}
  PROVE  Unblock(h, b, S) = {h \cup (S \X {0})}
<1>1. S \ b = {} /\ S \cap b = S
  OBVIOUS
<1>2. {Enqueue(h, (S \cap b) \cup stale) : stale \in SUBSET (S \ b)} = {Enqueue(h, S)}
  BY <1>1
<1>3. Enqueue(h, S) = {h \cup (S \X {0})}
  BY EnqueueFits
<1>4. Unblock(h, b, S) = UNION {Enqueue(h, S)}
  BY <1>2 DEF Unblock
<1> QED
  BY <1>3, <1>4

-----------------------------------------------------------------------------
(* What Schedule establishes, whichever call ended in it.                  *)

\* The heap a handler passes to Schedule: live tasks that are not blocked,
\* each queued once.
Fits(h) == h \in SUBSET ((live' \ blocked') \X {0})

\* From such a heap Schedule leaves every live task in one place, parks only
\* when all are blocked, and loses none.
LEMMA ScheduleStep ==
  ASSUME NEW h, Schedule(h), Fits(h),
         live' \in SUBSET Tid, blocked' \in SUBSET live', prio' \in [Tid -> Nat]
  PROVE  /\ pid' \in 0 .. NUMPROCS /\ heap' \in SUBSET (Tid \X Nat)
         /\ OnePlace' /\ ParksOnlyWhenAllBlocked'
         /\ Orphans' \subseteq live' \ (Ready(h) \cup blocked')
<1> DEFINE c == IF h = {} THEN Rescued ELSE h
<1>1. c \in SUBSET ((live' \ blocked') \X {0})
  BY DEF Fits, Rescued
<1>2. CASE c = {}
  <2>1. pid' = 0 /\ heap' = {}
    BY <1>2 DEF Schedule
  <2>2. h = {} /\ live' = blocked'
    BY <1>2 DEF Rescued
  <2>3. OnePlace' /\ ParksOnlyWhenAllBlocked'
    BY <2>1, <2>2 DEF OnePlace, ParksOnlyWhenAllBlocked
  <2>4. Orphans' = {}
    BY <2>2 DEF Orphans
  <2>5. pid' \in 0 .. NUMPROCS
    BY <2>1, KernelAssumption DEF KernelAssumption
  <2> QED
    BY <2>1, <2>3, <2>4, <2>5
<1>3. CASE c # {}
  <2>1. PICK e \in Pick(c) : pid' = e[1] /\ heap' = c \ {e}
    BY <1>3 DEF Schedule
  <2>2. e \in c /\ \A f \in c : prio'[e[1]] <= prio'[f[1]]
    BY <2>1 DEF Pick
  <2>3. /\ pid' \in live' \ blocked' /\ pid' \in 1 .. NUMPROCS /\ e = <<pid', 0>>
        /\ \A f \in c : f = <<f[1], 0>> /\ f[1] \in live' \ blocked'
    BY <1>1, <2>1, <2>2 DEF Tid
  <2>4. pid' # 0 /\ pid' \in 0 .. NUMPROCS
    BY <2>3, KernelAssumption DEF KernelAssumption
  <2>5. pid' \notin Ready(heap)'
    BY <2>1, <2>3 DEF Ready
  <2>6. \A f \in heap' : f[2] = 0 /\ f[1] \in live' \ blocked'
    BY <2>1, <2>3
  <2>7. OnePlace'
    BY <2>3, <2>5, <2>6 DEF OnePlace
  <2>8. ParksOnlyWhenAllBlocked'
    BY <2>4 DEF ParksOnlyWhenAllBlocked
  <2>9. heap' \in SUBSET (Tid \X Nat)
    BY <1>1, <2>1
  <2>10. Ready(c) = Ready(heap)' \cup {pid'}
    BY <2>1, <2>2 DEF Ready
  <2>11. live' \ (Ready(c) \cup blocked') \subseteq live' \ (Ready(h) \cup blocked')
    BY DEF Ready, Rescued
  <2> QED
    BY <2>4, <2>7, <2>8, <2>9, <2>10, <2>11 DEF Orphans
<1> QED
  BY <1>2, <1>3

\* A core with a free slot has a first one.
LEMMA FreeSlotExists ==
  ASSUME Tid \ live # {}
  PROVE  \E t \in Tid \ live : \A u \in Tid \ live : t <= u
<1>1. Tid \ live \subseteq Nat
  BY KernelAssumption DEF KernelAssumption, Tid
<1>2. PICK t \in Tid \ live : \A u \in Tid \ live : <<u, t>> \notin OpToRel(<, Nat)
  BY <1>1, NatLessThanWellFounded, WFMin
<1>3. \A u \in Tid \ live : ~ (u < t)
  BY <1>1, <1>2 DEF OpToRel
<1>4. \A u \in Tid \ live : t <= u
  <2> TAKE u \in Tid \ live
  <2>1. u \in Nat /\ t \in Nat /\ ~ (u < t)
    BY <1>1, <1>3
  <2> QED
    BY <2>1
<1> QED
  BY <1>4

\* Being in some event's list.
LEMMA InUnion ==
  ASSUME NEW f
  PROVE  \A t : t \in UNION {f[e] : e \in Events} <=> \E e \in Events : t \in f[e]
OBVIOUS

-----------------------------------------------------------------------------
(* The inductive invariant, and the step it takes through each call.       *)

\* OnePlace and OneReasonToSleep need each other: a wake-up enqueues the tasks
\* of a wait record, which are off the heap only because whoever is in a wait
\* record is blocked.
IInv == /\ TypeOK /\ OnePlace /\ OneReasonToSleep
        /\ NoMissedEvent /\ ParksOnlyWhenAllBlocked

\* A running task can be put on the heap, which then holds it once.
LEMMA RunningFits ==
  ASSUME IInv, pid # 0
  PROVE  /\ pid \in Tid /\ pid \in live \ blocked /\ pid \notin Ready(heap)
         /\ heap \in SUBSET ((live \ blocked) \X {0})
         /\ heap \in SUBSET (Tid \X {0})
         /\ live \in SUBSET Tid /\ blocked \in SUBSET live /\ prio \in [Tid -> Nat]
         /\ Enqueue(heap, {pid}) = {heap \cup {<<pid, 0>>}}
<1>1. pid \in live \ blocked /\ pid \notin Ready(heap)
  BY DEF IInv, OnePlace
<1>2. live \in SUBSET Tid /\ blocked \in SUBSET live /\ prio \in [Tid -> Nat]
  BY DEF IInv, TypeOK, OnePlace
<1>3. heap \in SUBSET ((live \ blocked) \X {0}) /\ heap \in SUBSET (Tid \X {0})
  BY <1>2 DEF IInv, TypeOK, OnePlace
<1>4. {pid} \cap Ready(heap) = {} /\ {pid} \in SUBSET Tid /\ {pid} \X {0} = {<<pid, 0>>}
  BY <1>1, <1>2
<1>5. Enqueue(heap, {pid}) = {heap \cup {<<pid, 0>>}}
  BY <1>3, <1>4, EnqueueFits
<1> QED
  BY <1>1, <1>2, <1>3, <1>5

\* A call that keeps the caller ready.
LEMMA RequeueStep ==
  ASSUME IInv, pid # 0, UNCHANGED <<taskVars, blocked>>, Requeue
  PROVE  /\ pid' \in 0 .. NUMPROCS /\ heap' \in SUBSET (Tid \X Nat)
         /\ OnePlace' /\ ParksOnlyWhenAllBlocked'
         /\ Orphans' \subseteq Orphans
<1> DEFINE h == heap \cup ({pid} \X {0})
<1>1. Schedule(h)
  <2>1. h = heap \cup {<<pid, 0>>}
    OBVIOUS
  <2> QED
    BY <2>1, RunningFits DEF Requeue
<1>2. Fits(h)
  BY RunningFits DEF Fits, taskVars
<1>3. live' \in SUBSET Tid /\ blocked' \in SUBSET live' /\ prio' \in [Tid -> Nat]
  BY RunningFits DEF taskVars
<1>4. Ready(h) = Ready(heap) \cup {pid}
  BY ReadyUnion
<1> HIDE DEF h
<1>5. live' \ (Ready(h) \cup blocked') = Orphans
  BY <1>4 DEF Orphans, taskVars
<1> QED
  BY <1>1, <1>2, <1>3, <1>5, ScheduleStep

\* A handler that drops the running task.
LEMMA DropStep ==
  ASSUME IInv, pid # 0, UNCHANGED <<taskVars, blocked>>, Schedule(heap)
  PROVE  /\ pid' \in 0 .. NUMPROCS /\ heap' \in SUBSET (Tid \X Nat)
         /\ OnePlace' /\ ParksOnlyWhenAllBlocked'
<1>1. Fits(heap)
  BY RunningFits DEF Fits, taskVars
<1>2. live' \in SUBSET Tid /\ blocked' \in SUBSET live' /\ prio' \in [Tid -> Nat]
  BY RunningFits DEF taskVars
<1> QED
  BY <1>1, <1>2, ScheduleStep

\* Either way, when no wait record changes.
LEMMA QuietStep ==
  ASSUME IInv, pid # 0, UNCHANGED <<taskVars, blocked, ipcVars, eventVars>>,
         Requeue \/ Schedule(heap)
  PROVE  IInv' /\ (Requeue => Orphans' \subseteq Orphans)
<1>1. /\ pid' \in 0 .. NUMPROCS /\ heap' \in SUBSET (Tid \X Nat)
      /\ OnePlace' /\ ParksOnlyWhenAllBlocked'
  BY RequeueStep, DropStep
<1>2. TypeOK'
  BY <1>1 DEF IInv, TypeOK, taskVars, ipcVars, eventVars
<1>3. OneReasonToSleep' /\ NoMissedEvent'
  BY DEF IInv, OneReasonToSleep, NoMissedEvent, ipcVars, eventVars
<1> QED
  BY <1>1, <1>2, <1>3, RequeueStep DEF IInv

\* Exit takes a task that is on no list.
LEMMA ExitStep ==
  ASSUME IInv, Exit
  PROVE  IInv' /\ Orphans' \subseteq Orphans
<1> USE RunningFits DEF Exit
<1>1. Fits(heap)
  BY DEF Fits, Ready
<1>2. live' \in SUBSET Tid /\ blocked' \in SUBSET live' /\ prio' \in [Tid -> Nat]
  OBVIOUS
<1>3. /\ pid' \in 0 .. NUMPROCS /\ heap' \in SUBSET (Tid \X Nat)
      /\ OnePlace' /\ ParksOnlyWhenAllBlocked'
      /\ Orphans' \subseteq live' \ (Ready(heap) \cup blocked')
  BY <1>1, <1>2, ScheduleStep
<1>4. TypeOK'
  BY <1>2, <1>3 DEF IInv, TypeOK, ipcVars, eventVars
<1>5. OneReasonToSleep' /\ NoMissedEvent'
  BY DEF IInv, OneReasonToSleep, NoMissedEvent, ipcVars, eventVars
<1> QED
  BY <1>3, <1>4, <1>5 DEF IInv, Orphans

\* Create finds a free slot, which no list names, and both entries fit.
LEMMA CreateStep ==
  ASSUME IInv, NEW p \in Priorities, Create(p)
  PROVE  IInv' /\ Orphans' \subseteq Orphans
<1> DEFINE h == heap \cup ({pid} \X {0})
           g == h \cup ({FreeSlot} \X {0})
<1>1. /\ pid # 0 /\ live' = live \cup {FreeSlot} /\ prio' = [prio EXCEPT ![FreeSlot] = p]
      /\ UNCHANGED <<blocked, eventVars>>
  BY DEF Create
<1>2. FreeSlot \in Tid \ live
  <2>1. \E t \in Tid \ live : \A u \in Tid \ live : t <= u
    BY FreeSlotExists DEF Create
  <2> QED
    BY <2>1 DEF FreeSlot
<1>3. /\ FreeSlot \notin blocked /\ FreeSlot # pid /\ FreeSlot \notin Ready(heap)
      /\ FreeSlot \notin waitingSend /\ FreeSlot \notin waitingReply
  <2>1. Ready(heap) \subseteq live
    BY <1>1, RunningFits DEF Ready
  <2> QED
    BY <1>1, <1>2, <2>1, RunningFits DEF IInv, OneReasonToSleep
<1>4. h \in SUBSET (Tid \X {0}) /\ Ready(h) = Ready(heap) \cup {pid}
  BY <1>1, RunningFits, ReadyUnion
<1>5. Ready(g) = Ready(h) \cup {FreeSlot}
  BY ReadyUnion
<1>6. Schedule(g)
  <2>1. Enqueue(heap, {pid}) = {h}
    <3>1. h = heap \cup {<<pid, 0>>}
      OBVIOUS
    <3> QED
      BY <1>1, <3>1, RunningFits
  <2>2. {FreeSlot} \in SUBSET Tid /\ {FreeSlot} \cap Ready(h) = {}
    BY <1>2, <1>3, <1>4
  <2>3. Enqueue(h, {FreeSlot}) = {g}
    <3> HIDE DEF h
    <3> QED
      BY <1>4, <2>2, EnqueueFits
  <2> QED
    BY <2>1, <2>3 DEF Create
<1>7. live' \in SUBSET Tid /\ blocked' \in SUBSET live' /\ prio' \in [Tid -> Nat]
  BY <1>1, <1>2, RunningFits, KernelAssumption DEF KernelAssumption
<1>8. Fits(g)
  <2>1. {pid} \X {0} \in SUBSET ((live' \ blocked') \X {0})
    BY <1>1, RunningFits
  <2>2. {FreeSlot} \X {0} \in SUBSET ((live' \ blocked') \X {0})
    BY <1>1, <1>3
  <2>3. heap \in SUBSET ((live' \ blocked') \X {0})
    BY <1>1, RunningFits
  <2> QED
    BY <2>1, <2>2, <2>3 DEF Fits
<1> HIDE DEF g, h
<1>9. /\ pid' \in 0 .. NUMPROCS /\ heap' \in SUBSET (Tid \X Nat)
      /\ OnePlace' /\ ParksOnlyWhenAllBlocked'
      /\ Orphans' \subseteq live' \ (Ready(g) \cup blocked')
  BY <1>6, <1>7, <1>8, ScheduleStep
<1>10. inbox' \in [Tid -> Seq(Tid)] /\ owed' \in [Tid -> SUBSET Tid]
  <2>1. <<>> \in Seq(Tid) /\ {} \in SUBSET Tid
    OBVIOUS
  <2> QED
    BY <1>2, <2>1 DEF Create, IInv, TypeOK
<1>11. waitingSend' \subseteq Tid /\ waitingReply' \subseteq Tid
  BY DEF Create, IInv, TypeOK
<1>12. TypeOK'
  BY <1>1, <1>7, <1>9, <1>10, <1>11 DEF IInv, TypeOK, eventVars
<1>13. OneReasonToSleep' /\ NoMissedEvent'
  BY <1>1, <1>3 DEF Create, IInv, OneReasonToSleep, NoMissedEvent, eventVars
<1>14. Orphans' \subseteq Orphans
  BY <1>1, <1>4, <1>5, <1>9 DEF Orphans
<1> QED
  BY <1>9, <1>12, <1>13, <1>14 DEF IInv

\* Waking tasks that are blocked, the caller being one of them or put on the
\* heap first: the common end of Receive, Send, Reply and Interrupt.
LEMMA WakeStep ==
  ASSUME IInv, pid # 0, UNCHANGED taskVars,
         NEW h, h \in SUBSET (Tid \X {0}), Ready(h) \subseteq Ready(heap) \cup {pid},
         NEW b, NEW S, S \subseteq b, S \cap Ready(h) = {},
         b \subseteq blocked \cup {pid}, blocked \subseteq b,
         pid \in b => pid \notin Ready(h), pid \in Ready(h) \cup b, Ready(heap) \subseteq Ready(h),
         blocked' = b \ S,
         \E g \in Unblock(h, b, S) : Schedule(g)
  PROVE  /\ pid' \in 0 .. NUMPROCS /\ heap' \in SUBSET (Tid \X Nat)
         /\ OnePlace' /\ ParksOnlyWhenAllBlocked'
         /\ Orphans' \subseteq Orphans
<1> DEFINE g == h \cup (S \X {0})
<1>1. S \in SUBSET Tid /\ S \subseteq live
  BY RunningFits
<1>2. Unblock(h, b, S) = {g}
  BY <1>1, UnblockFits
<1>3. Schedule(g)
  BY <1>2
<1>4. Ready(g) = Ready(h) \cup S
  BY ReadyUnion
<1>5. Ready(g) \subseteq live \ (b \ S)
  <2>1. Ready(heap) \subseteq live \ blocked
    BY RunningFits DEF Ready
  <2> QED
    BY <1>1, <1>4, <2>1, RunningFits
<1>6. Fits(g)
  <2>1. g \in SUBSET (Tid \X {0})
    BY <1>1
  <2> HIDE DEF g
  <2>2. \A e \in g : e = <<e[1], 0>> /\ e[1] \in Ready(g)
    BY <2>1 DEF Ready
  <2> QED
    BY <1>5, <2>2 DEF Fits, taskVars
<1> HIDE DEF g
<1>7. live' \in SUBSET Tid /\ blocked' \in SUBSET live' /\ prio' \in [Tid -> Nat]
  BY RunningFits DEF taskVars
<1>8. /\ pid' \in 0 .. NUMPROCS /\ heap' \in SUBSET (Tid \X Nat)
      /\ OnePlace' /\ ParksOnlyWhenAllBlocked'
      /\ Orphans' \subseteq live' \ (Ready(g) \cup blocked')
  BY <1>3, <1>6, <1>7, ScheduleStep
<1>9. live' \ (Ready(g) \cup blocked') \subseteq Orphans
  BY <1>4 DEF Orphans, taskVars
<1> QED
  BY <1>8, <1>9

\* Going to sleep: the caller joins the blocked tasks.
LEMMA SleepStep ==
  ASSUME IInv, pid # 0, UNCHANGED taskVars, blocked' = blocked \cup {pid}, Schedule(heap)
  PROVE  /\ pid' \in 0 .. NUMPROCS /\ heap' \in SUBSET (Tid \X Nat)
         /\ OnePlace' /\ ParksOnlyWhenAllBlocked'
         /\ Orphans' \subseteq Orphans
<1>1. Ready(heap) \subseteq live' \ blocked'
  BY RunningFits DEF Ready, taskVars
<1>2. Fits(heap)
  <2>1. \A e \in heap : e = <<e[1], 0>> /\ e[1] \in Ready(heap)
    BY RunningFits DEF Ready
  <2> QED
    BY <1>1, <2>1 DEF Fits
<1>3. live' \in SUBSET Tid /\ blocked' \in SUBSET live' /\ prio' \in [Tid -> Nat]
  BY RunningFits DEF taskVars
<1>4. live' \ (Ready(heap) \cup blocked') \subseteq Orphans
  BY DEF Orphans, taskVars
<1> QED
  BY <1>2, <1>3, <1>4, ScheduleStep

\* recieve_helper for the caller, or for a task asleep in Receive.
LEMMA RecieveHelperStep ==
  ASSUME IInv, pid # 0, UNCHANGED taskVars,
         NEW r \in Tid, r = pid \/ r \in waitingSend,
         NEW in \in [Tid -> Seq(Tid)],
         RecieveHelper(r, in, blocked \cup {pid})
  PROVE  /\ pid' \in 0 .. NUMPROCS /\ heap' \in SUBSET (Tid \X Nat)
         /\ OnePlace' /\ ParksOnlyWhenAllBlocked'
         /\ Orphans' \subseteq Orphans
         /\ inbox' \in [Tid -> Seq(Tid)] /\ owed' \in [Tid -> SUBSET Tid]
         /\ \/ blocked' = blocked \cup {pid} /\ waitingSend' = waitingSend \cup {r}
            \/ blocked' = (blocked \cup {pid}) \ {r} /\ waitingSend' = waitingSend \ {r}
<1>1. r \in blocked \cup {pid} /\ r \notin Ready(heap)
  <2>1. waitingSend \subseteq blocked
    BY DEF IInv, OneReasonToSleep
  <2>2. Ready(heap) \cap (blocked \cup {pid}) = {}
    BY RunningFits DEF Ready
  <2> QED
    BY <2>1, <2>2
<1>2. owed \in [Tid -> SUBSET Tid]
  BY DEF IInv, TypeOK
<1>3. CASE LooksEmpty(in[r])
  <2>1. /\ inbox' = in /\ blocked' = blocked \cup {pid} /\ owed' = owed
        /\ waitingSend' = waitingSend \cup {r} /\ Schedule(heap)
    BY <1>3 DEF RecieveHelper
  <2> QED
    BY <1>2, <2>1, SleepStep
<1>4. CASE ~ LooksEmpty(in[r])
  <2>1. /\ inbox' = [in EXCEPT ![r] = Tail(@)]
        /\ blocked' = (blocked \cup {pid}) \ {r}
        /\ waitingSend' = waitingSend \ {r}
        /\ owed' = [owed EXCEPT ![r] = @ \cup {Head(in[r])}]
        /\ \E h \in Unblock(heap, blocked \cup {pid}, {r}) : Schedule(h)
    BY <1>4 DEF RecieveHelper
  <2>2. in[r] \in Seq(Tid) /\ in[r] # <<>>
    <3>1. Len(<<>>) = 0 /\ 0 % QUEUESIZE = 0
      BY KernelAssumption DEF KernelAssumption
    <3> QED
      BY <1>4, <3>1 DEF LooksEmpty
  <2>3. Head(in[r]) \in Tid /\ Tail(in[r]) \in Seq(Tid)
    BY <2>2
  <2>4. inbox' \in [Tid -> Seq(Tid)] /\ owed' \in [Tid -> SUBSET Tid]
    BY <1>2, <2>1, <2>3
  <2>5. heap \in SUBSET (Tid \X {0}) /\ pid \notin Ready(heap)
    BY RunningFits
  <2>6. {r} \subseteq blocked \cup {pid} /\ {r} \cap Ready(heap) = {}
    BY <1>1
  <2>7. /\ pid' \in 0 .. NUMPROCS /\ heap' \in SUBSET (Tid \X Nat)
        /\ OnePlace' /\ ParksOnlyWhenAllBlocked'
        /\ Orphans' \subseteq Orphans
    BY <2>1, <2>5, <2>6, WakeStep
  <2> QED
    BY <2>1, <2>4, <2>7
<1> QED
  BY <1>3, <1>4

\* Receive, asleep or answered from the ring.
LEMMA ReceiveStep ==
  ASSUME IInv, Receive
  PROVE  IInv' /\ Orphans' \subseteq Orphans
<1>1. /\ pid # 0 /\ UNCHANGED <<taskVars, waitingReply, eventVars>>
      /\ RecieveHelper(pid, inbox, blocked \cup {pid})
  BY DEF Receive
<1>2. pid \in Tid /\ inbox \in [Tid -> Seq(Tid)]
  BY <1>1, RunningFits DEF IInv, TypeOK
<1>3. /\ pid' \in 0 .. NUMPROCS /\ heap' \in SUBSET (Tid \X Nat)
      /\ OnePlace' /\ ParksOnlyWhenAllBlocked'
      /\ Orphans' \subseteq Orphans
      /\ inbox' \in [Tid -> Seq(Tid)] /\ owed' \in [Tid -> SUBSET Tid]
      /\ \/ blocked' = blocked \cup {pid} /\ waitingSend' = waitingSend \cup {pid}
         \/ blocked' = (blocked \cup {pid}) \ {pid} /\ waitingSend' = waitingSend \ {pid}
  BY <1>1, <1>2, RecieveHelperStep
<1>4. OneReasonToSleep' /\ NoMissedEvent'
  <2>1. pid \notin blocked
    BY <1>1, RunningFits
  <2> QED
    BY <1>1, <1>3, <2>1 DEF IInv, OneReasonToSleep, NoMissedEvent, eventVars
<1>5. TypeOK'
  BY <1>1, <1>2, <1>3 DEF IInv, TypeOK, taskVars, eventVars
<1> QED
  BY <1>3, <1>4, <1>5 DEF IInv

\* Send, to a busy task or to one asleep in Receive.
LEMMA SendStep ==
  ASSUME IInv, NEW d \in Tid, Send(d)
  PROVE  IInv' /\ Orphans' \subseteq Orphans
<1> DEFINE in == [inbox EXCEPT ![d] = Append(@, pid)]
<1>1. /\ pid # 0 /\ UNCHANGED <<taskVars, eventVars>>
      /\ waitingReply' = waitingReply \cup {pid}
  BY DEF Send
<1>2. pid \in Tid /\ pid \notin blocked
  BY <1>1, RunningFits
<1>3. in \in [Tid -> Seq(Tid)]
  <2>1. inbox[d] \in Seq(Tid) /\ inbox \in [Tid -> Seq(Tid)]
    BY DEF IInv, TypeOK
  <2>2. Append(inbox[d], pid) \in Seq(Tid)
    BY <1>2, <2>1
  <2> QED
    BY <2>1, <2>2
<1>4. /\ pid' \in 0 .. NUMPROCS /\ heap' \in SUBSET (Tid \X Nat)
      /\ OnePlace' /\ ParksOnlyWhenAllBlocked'
      /\ Orphans' \subseteq Orphans
      /\ inbox' \in [Tid -> Seq(Tid)] /\ owed' \in [Tid -> SUBSET Tid]
      /\ \/ blocked' = blocked \cup {pid} /\ waitingSend' = waitingSend
         \/ d \in waitingSend /\ blocked' = (blocked \cup {pid}) \ {d}
                              /\ waitingSend' = waitingSend \ {d}
  <2>1. CASE d \in waitingSend
    <3>1. RecieveHelper(d, in, blocked \cup {pid})
      BY <2>1 DEF Send
    <3> HIDE DEF in
    <3>2. waitingSend \cup {d} = waitingSend
      BY <2>1
    <3> QED
      BY <1>1, <1>3, <2>1, <3>1, <3>2, RecieveHelperStep
  <2>2. CASE d \notin waitingSend
    <3>1. /\ inbox' = in /\ blocked' = blocked \cup {pid}
          /\ UNCHANGED <<waitingSend, owed>> /\ Schedule(heap)
      BY <2>2 DEF Send
    <3>2. owed' \in [Tid -> SUBSET Tid]
      BY <3>1 DEF IInv, TypeOK
    <3> HIDE DEF in
    <3> QED
      BY <1>1, <1>3, <3>1, <3>2, SleepStep
  <2> QED
    BY <2>1, <2>2
<1>5. OneReasonToSleep' /\ NoMissedEvent'
  <2> DEFINE waiters == UNION {pidLs[e] : e \in Events}
  <2>1. UNCHANGED pidLs /\ waiters' = waiters
    BY <1>1 DEF eventVars
  <2>2. /\ blocked = waitingSend \cup waitingReply \cup waiters
        /\ waitingSend \cap waitingReply = {}
        /\ \A e \in Events : pidLs[e] \subseteq waiters
    BY DEF IInv, OneReasonToSleep
  <2>3. waiters \cap (waitingSend \cup waitingReply) = {}
    BY InUnion DEF IInv, OneReasonToSleep
  <2> HIDE DEF waiters
  <2>4. /\ blocked' = waitingSend' \cup waitingReply' \cup waiters'
        /\ waitingSend' \cap waitingReply' = {}
        /\ waiters' \cap (waitingSend' \cup waitingReply') = {}
    BY <1>1, <1>2, <1>4, <2>1, <2>2, <2>3
  <2>5. \A e \in Events : pidLs'[e] \cap (waitingSend' \cup waitingReply') = {}
    BY <2>1, <2>2, <2>4
  <2> QED
    BY <1>1, <2>1, <2>4, <2>5 DEF IInv, OneReasonToSleep, NoMissedEvent, eventVars, waiters
<1>6. TypeOK'
  BY <1>1, <1>2, <1>4 DEF IInv, TypeOK, taskVars, eventVars
<1> QED
  BY <1>4, <1>5, <1>6 DEF IInv

\* Reply and Interrupt put the running task on the heap and then wake others.
LEMMA RequeueAndWake ==
  ASSUME IInv, pid # 0, UNCHANGED taskVars,
         NEW S, S \subseteq blocked, blocked' = blocked \ S,
         \E h \in Enqueue(heap, {pid}) : \E g \in Unblock(h, blocked, S) : Schedule(g)
  PROVE  /\ pid' \in 0 .. NUMPROCS /\ heap' \in SUBSET (Tid \X Nat)
         /\ OnePlace' /\ ParksOnlyWhenAllBlocked'
         /\ Orphans' \subseteq Orphans
<1> DEFINE h == heap \cup ({pid} \X {0})
<1>1. h \in SUBSET (Tid \X {0})
  BY RunningFits
<1>2. Ready(h) = Ready(heap) \cup {pid}
  BY ReadyUnion
<1>3. \E g \in Unblock(h, blocked, S) : Schedule(g)
  <2>1. h = heap \cup {<<pid, 0>>}
    OBVIOUS
  <2> QED
    BY <2>1, RunningFits
<1>4. S \cap Ready(h) = {} /\ pid \notin blocked
  BY <1>2, RunningFits DEF Ready
<1> HIDE DEF h
<1> QED
  BY <1>1, <1>2, <1>3, <1>4, WakeStep

\* Reply wakes a sender, which sleeps on nothing else.
LEMMA ReplyStep ==
  ASSUME IInv, NEW s \in Tid, Reply(s)
  PROVE  IInv' /\ Orphans' \subseteq Orphans
<1>1. /\ pid # 0 /\ s \in waitingReply
      /\ UNCHANGED <<taskVars, waitingSend, inbox, eventVars>>
      /\ blocked' = blocked \ {s} /\ waitingReply' = waitingReply \ {s}
      /\ owed' = [t \in Tid |-> owed[t] \ {s}]
      /\ \E h \in Enqueue(heap, {pid}) : \E g \in Unblock(h, blocked, {s}) : Schedule(g)
  BY DEF Reply
<1>2. {s} \subseteq blocked
  BY <1>1 DEF IInv, OneReasonToSleep
<1>3. /\ pid' \in 0 .. NUMPROCS /\ heap' \in SUBSET (Tid \X Nat)
      /\ OnePlace' /\ ParksOnlyWhenAllBlocked'
      /\ Orphans' \subseteq Orphans
  BY <1>1, <1>2, RequeueAndWake
<1>4. s \notin waitingSend /\ s \notin UNION {pidLs[e] : e \in Events}
  <2>1. \A e \in Events : s \notin pidLs[e]
    BY <1>1 DEF IInv, OneReasonToSleep
  <2> QED
    BY <1>1, <2>1 DEF IInv, OneReasonToSleep
<1>5. OneReasonToSleep' /\ NoMissedEvent'
  BY <1>1, <1>4 DEF IInv, OneReasonToSleep, NoMissedEvent, eventVars
<1>6. TypeOK'
  BY <1>1, <1>3 DEF IInv, TypeOK, taskVars, eventVars
<1> QED
  BY <1>3, <1>5, <1>6 DEF IInv

\* AwaitEvent with an event to consume.
LEMMA AwaitRecordedStep ==
  ASSUME IInv, NEW e \in Events, AwaitRecorded(e)
  PROVE  IInv' /\ Orphans' \subseteq Orphans
<1>1. /\ pid # 0 /\ eventqLen[e] > 0 /\ eventqLen' = [eventqLen EXCEPT ![e] = @ - 1]
      /\ UNCHANGED <<taskVars, blocked, ipcVars, pidLs>> /\ Requeue
  BY DEF AwaitRecorded
<1>2. /\ pid' \in 0 .. NUMPROCS /\ heap' \in SUBSET (Tid \X Nat)
      /\ OnePlace' /\ ParksOnlyWhenAllBlocked'
      /\ Orphans' \subseteq Orphans
  BY <1>1, RequeueStep
<1>3. eventqLen \in [Events -> Nat] /\ eventqLen[e] \in Nat /\ eventqLen[e] - 1 \in Nat
  BY <1>1 DEF IInv, TypeOK
<1>4. TypeOK'
  BY <1>1, <1>2, <1>3 DEF IInv, TypeOK, taskVars, ipcVars
<1>5. OneReasonToSleep'
  BY <1>1 DEF IInv, OneReasonToSleep, ipcVars
<1>6. NoMissedEvent'
  BY <1>1, <1>3 DEF IInv, NoMissedEvent
<1> QED
  BY <1>2, <1>4, <1>5, <1>6 DEF IInv

\* AwaitEvent with none: the caller was on no event's list.
LEMMA AwaitBlocksStep ==
  ASSUME IInv, NEW e \in Events, AwaitBlocks(e)
  PROVE  IInv' /\ Orphans' \subseteq Orphans
<1>1. /\ pid # 0 /\ eventqLen[e] = 0 /\ blocked' = blocked \cup {pid}
      /\ pidLs' = [pidLs EXCEPT ![e] = @ \cup {pid}]
      /\ UNCHANGED <<taskVars, ipcVars, eventqLen>> /\ Schedule(heap)
  BY DEF AwaitBlocks
<1>2. pid \in Tid /\ pid \notin blocked
  BY <1>1, RunningFits
<1>3. /\ pid' \in 0 .. NUMPROCS /\ heap' \in SUBSET (Tid \X Nat)
      /\ OnePlace' /\ ParksOnlyWhenAllBlocked'
      /\ Orphans' \subseteq Orphans
  BY <1>1, SleepStep
<1>4. pidLs \in [Events -> SUBSET Tid]
  BY DEF IInv, TypeOK
<1>5. TypeOK'
  BY <1>1, <1>2, <1>3 DEF IInv, TypeOK, taskVars, ipcVars
<1>6. UNION {pidLs'[f] : f \in Events} = {pid} \cup UNION {pidLs[f] : f \in Events}
  <2>1. \A f \in Events : pidLs'[f] = IF f = e THEN pidLs[f] \cup {pid} ELSE pidLs[f]
    BY <1>1, <1>4
  <2>2. \A t : (\E f \in Events : t \in pidLs'[f]) <=> (t = pid \/ \E f \in Events : t \in pidLs[f])
    BY <2>1
  <2> QED
    BY <2>2, InUnion
<1>7. \A f \in Events : pid \notin pidLs[f]
  BY <1>2 DEF IInv, OneReasonToSleep
<1>8. OneReasonToSleep'
  BY <1>1, <1>2, <1>4, <1>6, <1>7 DEF IInv, OneReasonToSleep, ipcVars
<1>9. NoMissedEvent'
  BY <1>1, <1>4 DEF IInv, NoMissedEvent
<1> QED
  BY <1>3, <1>5, <1>8, <1>9 DEF IInv

\* An interrupt wakes its waiters, which sleep on nothing else.
LEMMA InterruptStep ==
  ASSUME IInv, NEW e \in Events, NEW extra \in 0 .. MaxExtra, Interrupt(e, extra)
  PROVE  IInv' /\ Orphans' \subseteq Orphans
<1> DEFINE one == IF pidLs[e] = {} /\ e \in Latched THEN 1 ELSE 0
<1>1. /\ pid # 0 /\ blocked' = blocked \ pidLs[e] /\ pidLs' = [pidLs EXCEPT ![e] = {}]
      /\ eventqLen' = [eventqLen EXCEPT ![e] = @ + extra + one]
      /\ UNCHANGED <<taskVars, ipcVars>>
      /\ \E h \in Enqueue(heap, {pid} \cap live) :
           \E g \in Unblock(h, blocked, pidLs[e]) : Schedule(g)
  BY DEF Interrupt
<1>2. pidLs \in [Events -> SUBSET Tid] /\ eventqLen \in [Events -> Nat] /\ one \in Nat /\ extra \in Nat
  BY KernelAssumption DEF KernelAssumption, IInv, TypeOK
<1> HIDE DEF one
<1>3. pidLs[e] \subseteq blocked
  BY DEF IInv, OneReasonToSleep
<1>4. {pid} \cap live = {pid}
  BY <1>1, RunningFits
<1>5. /\ pid' \in 0 .. NUMPROCS /\ heap' \in SUBSET (Tid \X Nat)
      /\ OnePlace' /\ ParksOnlyWhenAllBlocked'
      /\ Orphans' \subseteq Orphans
  BY <1>1, <1>3, <1>4, RequeueAndWake
<1>6. TypeOK'
  BY <1>1, <1>2, <1>5 DEF IInv, TypeOK, taskVars, ipcVars
<1>7. \A f \in Events : pidLs'[f] = IF f = e THEN {} ELSE pidLs[f]
  BY <1>1, <1>2
<1>8. UNION {pidLs'[f] : f \in Events} = (UNION {pidLs[f] : f \in Events}) \ pidLs[e]
  <2>1. \A f \in Events : f # e => pidLs[f] \cap pidLs[e] = {}
    BY DEF IInv, OneReasonToSleep
  <2>2. \A t : (\E f \in Events : t \in pidLs'[f]) <=>
               (t \notin pidLs[e] /\ \E f \in Events : t \in pidLs[f])
    BY <1>7, <2>1
  <2> QED
    BY <2>2, InUnion
<1>9. OneReasonToSleep'
  BY <1>1, <1>7, <1>8 DEF IInv, OneReasonToSleep, ipcVars
<1>10. NoMissedEvent'
  BY <1>1, <1>2, <1>7 DEF IInv, NoMissedEvent
<1> QED
  BY <1>5, <1>6, <1>9, <1>10 DEF IInv

-----------------------------------------------------------------------------
(* The theorems.                                                           *)

\* kmain's first Schedule() leaves the boot tasks as the invariant wants them.
LEMMA InitHolds == Init => IInv
<1> SUFFICES ASSUME Init PROVE IInv
  OBVIOUS
<1> DEFINE boot == 1 .. Len(BootTasks)
<1>1. /\ boot \subseteq Tid /\ \A t \in boot : BootTasks[t] \in Nat
  BY KernelAssumption DEF KernelAssumption, Tid
<1>2. /\ pid \in boot /\ \A u \in boot : BootTasks[pid] <= BootTasks[u]
      /\ live = boot /\ prio = [t \in Tid |-> IF t \in boot THEN BootTasks[t] ELSE 0]
      /\ heap = {<<t, 0>> : t \in boot \ {pid}}
  BY DEF Init
<1>3. pid \in 0 .. NUMPROCS /\ pid # 0
  BY <1>1, <1>2, KernelAssumption DEF KernelAssumption, Tid
<1> HIDE DEF boot
<1>4. TypeOK
  <2>1. heap \subseteq Tid \X Nat /\ prio \in [Tid -> Nat]
    BY <1>1, <1>2
  <2>2. inbox \in [Tid -> Seq(Tid)]
    <3>1. <<>> \in Seq(Tid)
      OBVIOUS
    <3> QED
      BY <3>1 DEF Init
  <2> QED
    BY <1>1, <1>2, <1>3, <2>1, <2>2 DEF Init, TypeOK
<1>5. Ready(heap) = boot \ {pid}
  <2>1. \A t \in boot \ {pid} : <<t, 0>>[1] = t
    OBVIOUS
  <2> QED
    BY <1>2, <2>1 DEF Ready
<1>6. OnePlace /\ ParksOnlyWhenAllBlocked
  BY <1>1, <1>2, <1>3, <1>5 DEF Init, OnePlace, ParksOnlyWhenAllBlocked
<1>7. OneReasonToSleep /\ NoMissedEvent
  BY InUnion DEF Init, OneReasonToSleep, NoMissedEvent
<1> QED
  BY <1>4, <1>6, <1>7 DEF IInv

\* System calls and device interrupts keep the invariant and make no orphan.
LEMMA HandledHolds ==
  ASSUME IInv, Handled
  PROVE  IInv' /\ Orphans' \subseteq Orphans
<1>1. CASE Yield
  BY <1>1, QuietStep DEF Yield
<1>2. CASE Exit
  BY <1>2, ExitStep
<1>3. CASE CreateFails
  BY <1>3, QuietStep DEF CreateFails
<1>4. CASE Receive
  BY <1>4, ReceiveStep
<1>5. ASSUME NEW p \in Priorities, Create(p)
      PROVE  IInv' /\ Orphans' \subseteq Orphans
  BY <1>5, CreateStep
<1>6. ASSUME NEW t \in Tid, SendFails(t) \/ ReplyFails(t)
      PROVE  IInv' /\ Orphans' \subseteq Orphans
  BY <1>6, QuietStep DEF SendFails, ReplyFails
<1>7. ASSUME NEW t \in Tid, Send(t) \/ Reply(t)
      PROVE  IInv' /\ Orphans' \subseteq Orphans
  BY <1>7, SendStep, ReplyStep
<1>8. ASSUME NEW e \in Events, AwaitDisabled(e)
       PROVE  IInv' /\ Orphans' \subseteq Orphans
  BY <1>8, QuietStep DEF AwaitDisabled
<1>9. ASSUME NEW e \in Events, AwaitRecorded(e) \/ AwaitBlocks(e)
       PROVE  IInv' /\ Orphans' \subseteq Orphans
  BY <1>9, AwaitRecordedStep, AwaitBlocksStep
<1>10. ASSUME NEW e \in Events, NEW extra \in 0 .. MaxExtra, Interrupt(e, extra)
       PROVE  IInv' /\ Orphans' \subseteq Orphans
  BY <1>10, InterruptStep
<1> QED
  BY <1>1, <1>2, <1>3, <1>4, <1>5, <1>6, <1>7, <1>8, <1>9, <1>10
  DEF Handled, Call

\* The invariant survives every kernel entry, also those that drop the task.
LEMMA NextHolds ==
  ASSUME IInv, Next
  PROVE  IInv'
<1>1. CASE Handled
  BY <1>1, HandledHolds
<1>2. CASE SpuriousInterrupt
  BY <1>2, QuietStep DEF SpuriousInterrupt
<1>3. CASE Fault
  BY <1>3, QuietStep DEF Fault
<1> QED
  BY <1>1, <1>2, <1>3 DEF Next, Entry, Handled

\* Nothing moves in a step that leaves the kernel's variables alone.
LEMMA StutterHolds ==
  ASSUME IInv, UNCHANGED vars
  PROVE  IInv' /\ Orphans' \subseteq Orphans
BY DEF vars, taskVars, ipcVars, eventVars, IInv, TypeOK, OnePlace, OneReasonToSleep,
       NoMissedEvent, ParksOnlyWhenAllBlocked, Orphans, Ready

\* Whatever system calls the tasks make and whichever interrupts and faults
\* arrive, with any number of slots, priorities and events: the kernel's
\* tables stay well formed, every task is in one place for one reason, no
\* notifier sleeps next to its event, the best ready task runs, and the core
\* parks only when every task is blocked.
THEOREM Invariance == Spec => []IInv
<1>1. Init => IInv
  BY InitHolds
<1>2. IInv /\ [Next]_vars => IInv'
  BY NextHolds, StutterHolds
<1> QED
  BY <1>1, <1>2, PTL DEF Spec

\* The variables keep their types.
THEOREM Typing == Spec => []TypeOK
<1>1. IInv => TypeOK
  BY DEF IInv
<1> QED
  BY <1>1, Invariance, PTL

\* The running task, the ready heap and the blocked list never share a task,
\* and no entry of them is stale.
THEOREM Places == Spec => []OnePlace
<1>1. IInv => OnePlace
  BY DEF IInv
<1> QED
  BY <1>1, Invariance, PTL

\* A task is blocked exactly when one wait record names it, and only one does.
THEOREM Reasons == Spec => []OneReasonToSleep
<1>1. IInv => OneReasonToSleep
  BY DEF IInv
<1> QED
  BY <1>1, Invariance, PTL

\* No task sleeps on an event that is recorded.
THEOREM EventsSeen == Spec => []NoMissedEvent
<1>1. IInv => NoMissedEvent
  BY DEF IInv
<1> QED
  BY <1>1, Invariance, PTL

\* wfi_unmasked is reached only when every live task is blocked.
THEOREM Parking == Spec => []ParksOnlyWhenAllBlocked
<1>1. IInv => ParksOnlyWhenAllBlocked
  BY DEF IInv
<1> QED
  BY <1>1, Invariance, PTL

\* No system call and no device interrupt loses a task.
THEOREM NoLoss == Spec => NoCallLosesATask
<1>1. IInv /\ [Next]_vars => [Orphans' \subseteq Orphans \/ ~ Handled]_vars
  BY HandledHolds
<1> QED
  BY <1>1, Invariance, PTL DEF Spec, NoCallLosesATask

-----------------------------------------------------------------------------
(* Send / Receive / Reply when tasks reply only to senders they have       *)
(* received from (ServerSpec).  These theorems suppose that a ring has     *)
(* more slots than there are tasks, as in the build (255 > 20): a full     *)
(* ring looks empty to recieve_helper.                                     *)


-----------------------------------------------------------------------------
(* A ring, read as the set of its senders.                                 *)

Senders(q) == {q[i] : i \in 1 .. Len(q)}

\* No sender is in the ring twice.
Once(q) == \A i, j \in 1 .. Len(q) : q[i] = q[j] => i = j

LEMMA EmptyRing == Senders(<<>>) = {} /\ Once(<<>>)
BY DEF Senders, Once

LEMMA AppendRing ==
  ASSUME NEW q \in Seq(Tid), NEW s \in Tid, s \notin Senders(q), Once(q)
  PROVE  Senders(Append(q, s)) = Senders(q) \cup {s} /\ Once(Append(q, s))
<1> DEFINE a == Append(q, s)
<1>1. Len(q) \in Nat /\ Len(a) = Len(q) + 1 /\ a[Len(q) + 1] = s
  OBVIOUS
<1>2. \A i \in 1 .. Len(q) : a[i] = q[i]
  OBVIOUS
<1>3. 1 .. Len(a) = 1 .. Len(q) \cup {Len(q) + 1}
  BY <1>1
<1> HIDE DEF a
<1>4. Senders(a) = Senders(q) \cup {s}
  <2>1. Senders(a) = {a[i] : i \in 1 .. Len(q)} \cup {a[Len(q) + 1]}
    BY <1>3 DEF Senders
  <2>2. {a[i] : i \in 1 .. Len(q)} = Senders(q)
    BY <1>2 DEF Senders
  <2> QED
    BY <1>1, <2>1, <2>2
<1>5. Once(a)
  BY <1>1, <1>2, <1>3 DEF Once, Senders
<1> QED
  BY <1>4, <1>5 DEF a

LEMMA TailRing ==
  ASSUME NEW q \in Seq(Tid), q # <<>>, Once(q)
  PROVE  /\ Head(q) \in Tid /\ Tail(q) \in Seq(Tid)
         /\ Head(q) \in Senders(q) /\ Once(Tail(q))
         /\ Senders(Tail(q)) = Senders(q) \ {Head(q)}
<1> DEFINE r == Tail(q)
<1>1. /\ Len(q) \in Nat \ {0} /\ Head(q) = q[1] /\ Head(q) \in Tid
      /\ r \in Seq(Tid) /\ Len(r) = Len(q) - 1
  OBVIOUS
<1>2. \A i \in 1 .. Len(r) : r[i] = q[i + 1] /\ i + 1 \in 1 .. Len(q) /\ i + 1 # 1
  BY <1>1
<1>3. \A j \in 1 .. Len(q) : j # 1 => j - 1 \in 1 .. Len(r) /\ r[j - 1] = q[j]
  BY <1>1, <1>2
<1>4. 1 \in 1 .. Len(q)
  BY <1>1
<1> HIDE DEF r
<1>5. Once(r)
  <2> SUFFICES ASSUME NEW i \in 1 .. Len(r), NEW j \in 1 .. Len(r), r[i] = r[j]
               PROVE  i = j
    BY DEF Once
  <2>1. q[i + 1] = q[j + 1] /\ i + 1 \in 1 .. Len(q) /\ j + 1 \in 1 .. Len(q)
    BY <1>2
  <2>2. i + 1 = j + 1
    BY <2>1 DEF Once
  <2> QED
    BY <2>2
<1>6. Senders(r) \subseteq Senders(q) \ {Head(q)}
  <2> SUFFICES ASSUME NEW i \in 1 .. Len(r) PROVE r[i] \in Senders(q) \ {q[1]}
    BY <1>1 DEF Senders
  <2>1. i + 1 \in 1 .. Len(q) /\ r[i] = q[i + 1] /\ i + 1 # 1
    BY <1>2
  <2>2. q[i + 1] # q[1]
    BY <1>4, <2>1 DEF Once
  <2> QED
    BY <2>1, <2>2 DEF Senders
<1>7. Senders(q) \ {Head(q)} \subseteq Senders(r)
  <2> SUFFICES ASSUME NEW j \in 1 .. Len(q), q[j] # q[1] PROVE q[j] \in Senders(r)
    BY <1>1 DEF Senders
  <2>1. j - 1 \in 1 .. Len(r) /\ r[j - 1] = q[j]
    BY <1>3
  <2> QED
    BY <2>1 DEF Senders
<1>8. Head(q) \in Senders(q)
  BY <1>1, <1>4 DEF Senders
<1> QED
  BY <1>1, <1>5, <1>6, <1>7, <1>8 DEF r

\* A ring without repetitions has at most one message of each task, so with
\* more slots than tasks only an empty ring looks empty.
LEMMA RingNeverFull ==
  ASSUME QUEUESIZE > NUMPROCS, NEW q \in Seq(Tid), Once(q)
  PROVE  LooksEmpty(q) <=> q = <<>>
<1>1. Len(q) \in Nat /\ NUMPROCS \in Nat /\ QUEUESIZE \in Nat \ {0}
  BY KernelAssumption DEF KernelAssumption
<1>2. q \in Injection(1 .. Len(q), Tid)
  <2>1. q \in [1 .. Len(q) -> Tid]
    OBVIOUS
  <2> QED
    BY <2>1 DEF Once, Injection, IsInjective
<1>3. /\ IsFiniteSet(Tid) /\ Cardinality(Tid) = NUMPROCS
  <2>1. 1 \in Int /\ NUMPROCS \in Int
    BY <1>1
  <2> QED
    BY <1>1, <2>1, FS_Interval DEF Tid
<1>4. Len(q) <= NUMPROCS
  <2>1. \A n \in Nat : Cardinality(1 .. n) = n
    <3> TAKE n \in Nat
    <3>1. Cardinality(1 .. n) = IF 1 > n THEN 0 ELSE n - 1 + 1
      BY FS_Interval
    <3> QED
      BY <3>1
  <2>2. Cardinality(1 .. Len(q)) = Len(q)
    BY <1>1, <2>1
  <2> QED
    BY <1>2, <1>3, <2>2, FS_Injection
<1>5. Len(q) % QUEUESIZE = Len(q)
  BY <1>1, <1>4
<1>6. Len(q) = 0 <=> q = <<>>
  OBVIOUS
<1> QED
  BY <1>5, <1>6 DEF LooksEmpty

-----------------------------------------------------------------------------
(* The inductive invariant.                                                *)

\* Whoever is queued or held anywhere, in the slot of a dead task too, sleeps
\* in Send, and is in one place: one ring or one task's hands, once.
OneHolder ==
  /\ \A t \in Tid : /\ Senders(inbox[t]) \cup owed[t] \subseteq waitingReply
                    /\ Once(inbox[t])
  /\ \A t, u \in Tid :
       /\ Senders(inbox[t]) \cap owed[u] = {}
       /\ t # u => /\ Senders(inbox[t]) \cap Senders(inbox[u]) = {}
                   /\ owed[t] \cap owed[u] = {}

SInv == IInv /\ OneHolder /\ NoMailWhileAsleep

\* A step that touches no ring and no wait flag.
LEMMA QuietKeeps ==
  ASSUME SInv, UNCHANGED ipcVars
  PROVE  OneHolder' /\ NoMailWhileAsleep'
BY DEF SInv, OneHolder, NoMailWhileAsleep, ipcVars

\* The tasks that run or are dead have no message anywhere.
LEMMA AwakeUnqueued ==
  ASSUME SInv, NEW s \in Tid, s = pid \/ s \notin live
  PROVE  /\ s \notin waitingReply /\ s \notin waitingSend
         /\ \A t \in Tid : s \notin Senders(inbox[t]) /\ s \notin owed[t]
<1>1. s \notin blocked
  <2>1. pid \in Tid => pid # 0
    BY KernelAssumption DEF KernelAssumption, Tid
  <2> QED
    BY <2>1 DEF SInv, IInv, OnePlace
<1>2. s \notin waitingReply /\ s \notin waitingSend
  BY <1>1 DEF SInv, IInv, OneReasonToSleep
<1> QED
  BY <1>2 DEF SInv, OneHolder

\* Create empties a slot whose task was asleep in nothing.
LEMMA CreateKeeps ==
  ASSUME SInv, NEW p \in Priorities, Create(p)
  PROVE  /\ FreeSlot \in Tid \ live
         /\ waitingSend' = waitingSend /\ waitingReply' = waitingReply
         /\ OneHolder' /\ NoMailWhileAsleep'
<1>1. FreeSlot \in Tid \ live
  <2>1. \E t \in Tid \ live : \A u \in Tid \ live : t <= u
    BY FreeSlotExists DEF Create
  <2> QED
    BY <2>1 DEF FreeSlot
<1>2. FreeSlot \notin waitingReply /\ FreeSlot \notin waitingSend
  BY <1>1, AwakeUnqueued
<1>3. /\ waitingSend' = waitingSend /\ waitingReply' = waitingReply
      /\ inbox' = [inbox EXCEPT ![FreeSlot] = <<>>]
      /\ owed' = [owed EXCEPT ![FreeSlot] = {}]
  BY <1>2 DEF Create
<1>4. /\ inbox \in [Tid -> Seq(Tid)] /\ owed \in [Tid -> SUBSET Tid]
  BY DEF SInv, IInv, TypeOK
<1>5. \A t \in Tid : /\ Senders(inbox'[t]) = IF t = FreeSlot THEN {} ELSE Senders(inbox[t])
                     /\ owed'[t] = IF t = FreeSlot THEN {} ELSE owed[t]
                     /\ Once(inbox[t]) => Once(inbox'[t])
  BY <1>1, <1>3, <1>4, EmptyRing
<1>6. OneHolder'
  BY <1>3, <1>5 DEF SInv, OneHolder
<1>7. NoMailWhileAsleep'
  BY <1>1, <1>2, <1>3, <1>4 DEF SInv, NoMailWhileAsleep, IInv, TypeOK
<1> QED
  BY <1>1, <1>3, <1>6, <1>7

\* What a Send does to the rings: the message is queued at a task that is
\* awake, or goes straight into the hands of one asleep in Receive.
LEMMA SendEffect ==
  ASSUME QUEUESIZE > NUMPROCS, SInv, NEW d \in Tid, Send(d)
  PROVE  /\ pid \in Tid /\ d \in live /\ live' = live
         /\ waitingReply' = waitingReply \cup {pid}
         /\ \/ /\ d \notin waitingSend /\ waitingSend' = waitingSend
               /\ inbox' = [inbox EXCEPT ![d] = Append(@, pid)] /\ owed' = owed
            \/ /\ d \in waitingSend /\ waitingSend' = waitingSend \ {d}
               /\ inbox' = inbox /\ owed' = [owed EXCEPT ![d] = @ \cup {pid}]
<1> DEFINE in == [inbox EXCEPT ![d] = Append(@, pid)]
<1>1. /\ pid # 0 /\ d \in live /\ live' = live
      /\ waitingReply' = waitingReply \cup {pid}
  BY DEF Send, taskVars
<1>2. pid \in Tid
  BY <1>1, RunningFits DEF SInv
<1>3. inbox \in [Tid -> Seq(Tid)] /\ inbox[d] \in Seq(Tid)
  BY DEF SInv, IInv, TypeOK
<1>4. CASE d \notin waitingSend
  BY <1>1, <1>2, <1>4 DEF Send
<1>5. CASE d \in waitingSend
  <2>1. inbox[d] = <<>>
    BY <1>5 DEF SInv, NoMailWhileAsleep
  <2>2. in[d] = <<pid>> /\ in \in [Tid -> Seq(Tid)]
    BY <1>2, <1>3, <2>1
  <2>3. ~ LooksEmpty(in[d])
    <3>1. Once(<<pid>>) /\ <<pid>> \in Seq(Tid) /\ <<pid>> # <<>>
      BY <1>2 DEF Once
    <3>2. LooksEmpty(<<pid>>) <=> <<pid>> = <<>>
      BY <3>1, RingNeverFull
    <3> QED
      BY <2>2, <3>1, <3>2
  <2>4. RecieveHelper(d, in, blocked \cup {pid})
    BY <1>5 DEF Send
  <2> HIDE DEF in
  <2>5. /\ inbox' = [in EXCEPT ![d] = Tail(@)] /\ waitingSend' = waitingSend \ {d}
        /\ owed' = [owed EXCEPT ![d] = @ \cup {Head(in[d])}]
    BY <2>3, <2>4 DEF RecieveHelper
  <2>6. Head(<<pid>>) = pid /\ Tail(<<pid>>) = <<>>
    OBVIOUS
  <2>7. inbox' = inbox
    <3>1. inbox' = [in EXCEPT ![d] = <<>>]
      BY <2>2, <2>5, <2>6
    <3> QED
      BY <1>3, <2>1, <2>2, <3>1 DEF in
  <2> QED
    BY <1>1, <1>2, <1>5, <2>2, <2>5, <2>6, <2>7
<1> QED
  BY <1>4, <1>5

LEMMA SendKeeps ==
  ASSUME QUEUESIZE > NUMPROCS, SInv, NEW d \in Tid, Send(d)
  PROVE  OneHolder' /\ NoMailWhileAsleep'
<1>1. /\ pid \in Tid /\ waitingReply' = waitingReply \cup {pid}
      /\ \/ /\ d \notin waitingSend /\ waitingSend' = waitingSend
            /\ inbox' = [inbox EXCEPT ![d] = Append(@, pid)] /\ owed' = owed
         \/ /\ d \in waitingSend /\ waitingSend' = waitingSend \ {d}
            /\ inbox' = inbox /\ owed' = [owed EXCEPT ![d] = @ \cup {pid}]
  BY SendEffect
<1>2. /\ inbox \in [Tid -> Seq(Tid)] /\ owed \in [Tid -> SUBSET Tid]
      /\ waitingSend \subseteq Tid
  BY DEF SInv, IInv, TypeOK
<1>3. \A t \in Tid : pid \notin Senders(inbox[t]) /\ pid \notin owed[t]
  BY <1>1, AwakeUnqueued
<1>4. CASE d \notin waitingSend /\ inbox' = [inbox EXCEPT ![d] = Append(@, pid)]
           /\ waitingSend' = waitingSend /\ owed' = owed
  <2>1. /\ Senders(inbox'[d]) = Senders(inbox[d]) \cup {pid} /\ Once(inbox'[d])
        /\ \A t \in Tid : t # d => inbox'[t] = inbox[t]
    <3>1. inbox[d] \in Seq(Tid) /\ pid \notin Senders(inbox[d]) /\ Once(inbox[d])
      BY <1>2, <1>3 DEF SInv, OneHolder
    <3>2. inbox'[d] = Append(inbox[d], pid)
      BY <1>2, <1>4
    <3> QED
      BY <1>1, <1>2, <1>4, <3>1, <3>2, AppendRing
  <2>2. \A t \in Tid :
          /\ Senders(inbox'[t]) = Senders(inbox[t]) \cup (IF t = d THEN {pid} ELSE {})
          /\ owed'[t] = owed[t] /\ Once(inbox'[t])
    BY <1>4, <2>1 DEF SInv, OneHolder
  <2>4. OneHolder'
    <3>1. \A t \in Tid : /\ Senders(inbox'[t]) \cup owed'[t] \subseteq waitingReply'
                         /\ Once(inbox'[t])
      BY <1>1, <1>3, <2>2 DEF SInv, OneHolder
    <3>2. \A t, u \in Tid : Senders(inbox'[t]) \cap owed'[u] = {}
      BY <1>1, <1>3, <2>2 DEF SInv, OneHolder
    <3>3. \A t, u \in Tid : t # u => Senders(inbox'[t]) \cap Senders(inbox'[u]) = {}
      <4> TAKE t, u \in Tid
      <4> HAVE t # u
      <4>1. Senders(inbox[t]) \cap Senders(inbox[u]) = {}
        BY DEF SInv, OneHolder
      <4>2. /\ Senders(inbox'[t]) = Senders(inbox[t]) \cup (IF t = d THEN {pid} ELSE {})
            /\ Senders(inbox'[u]) = Senders(inbox[u]) \cup (IF u = d THEN {pid} ELSE {})
        BY <2>2
      <4>3. pid \notin Senders(inbox[t]) /\ pid \notin Senders(inbox[u])
        BY <1>3
      <4> QED
        BY <4>1, <4>2, <4>3
    <3>4. \A t, u \in Tid : t # u => owed'[t] \cap owed'[u] = {}
      BY <1>1, <1>3, <2>2 DEF SInv, OneHolder
    <3> QED
      BY <3>1, <3>2, <3>3, <3>4 DEF OneHolder
  <2>3. NoMailWhileAsleep'
    BY <1>2, <1>4, <2>1 DEF SInv, NoMailWhileAsleep
  <2> QED
    BY <2>3, <2>4
<1>5. CASE d \in waitingSend /\ waitingSend' = waitingSend \ {d} /\ inbox' = inbox
           /\ owed' = [owed EXCEPT ![d] = @ \cup {pid}]
  <2>1. \A t \in Tid : /\ owed'[t] = owed[t] \cup (IF t = d THEN {pid} ELSE {})
                       /\ inbox'[t] = inbox[t]
    BY <1>2, <1>5
  <2>2. OneHolder'
    BY <1>1, <1>3, <2>1 DEF SInv, OneHolder
  <2>3. NoMailWhileAsleep'
    BY <1>5 DEF SInv, NoMailWhileAsleep
  <2> QED
    BY <2>2, <2>3
<1> QED
  BY <1>1, <1>4, <1>5

\* What a Receive does: sleep on an empty ring, or take the oldest message.
LEMMA ReceiveEffect ==
  ASSUME QUEUESIZE > NUMPROCS, SInv, Receive
  PROVE  /\ pid \in Tid /\ pid \in live /\ live' = live /\ waitingReply' = waitingReply
         /\ \/ /\ inbox[pid] = <<>> /\ inbox' = inbox /\ owed' = owed
               /\ waitingSend' = waitingSend \cup {pid}
            \/ /\ inbox[pid] # <<>> /\ inbox' = [inbox EXCEPT ![pid] = Tail(@)]
               /\ owed' = [owed EXCEPT ![pid] = @ \cup {Head(inbox[pid])}]
               /\ waitingSend' = waitingSend \ {pid}
<1>1. /\ pid # 0 /\ live' = live /\ waitingReply' = waitingReply
      /\ RecieveHelper(pid, inbox, blocked \cup {pid})
  BY DEF Receive, taskVars
<1>2. pid \in Tid /\ pid \in live
  BY <1>1, RunningFits DEF SInv
<1>3. inbox[pid] \in Seq(Tid) /\ Once(inbox[pid])
  BY <1>2 DEF SInv, IInv, TypeOK, OneHolder
<1>4. LooksEmpty(inbox[pid]) <=> inbox[pid] = <<>>
  BY <1>3, RingNeverFull
<1> QED
  BY <1>1, <1>2, <1>4 DEF RecieveHelper

LEMMA ReceiveKeeps ==
  ASSUME QUEUESIZE > NUMPROCS, SInv, Receive
  PROVE  OneHolder' /\ NoMailWhileAsleep'
<1>1. /\ pid \in Tid /\ waitingReply' = waitingReply
      /\ \/ /\ inbox[pid] = <<>> /\ inbox' = inbox /\ owed' = owed
            /\ waitingSend' = waitingSend \cup {pid}
         \/ /\ inbox[pid] # <<>> /\ inbox' = [inbox EXCEPT ![pid] = Tail(@)]
            /\ owed' = [owed EXCEPT ![pid] = @ \cup {Head(inbox[pid])}]
            /\ waitingSend' = waitingSend \ {pid}
  BY ReceiveEffect
<1>2. /\ inbox \in [Tid -> Seq(Tid)] /\ owed \in [Tid -> SUBSET Tid]
      /\ inbox[pid] \in Seq(Tid) /\ Once(inbox[pid])
  BY <1>1 DEF SInv, IInv, TypeOK, OneHolder
<1>3. CASE inbox[pid] = <<>> /\ inbox' = inbox /\ owed' = owed
           /\ waitingSend' = waitingSend \cup {pid}
  BY <1>1, <1>3 DEF SInv, OneHolder, NoMailWhileAsleep
<1>4. CASE inbox[pid] # <<>> /\ inbox' = [inbox EXCEPT ![pid] = Tail(@)]
           /\ owed' = [owed EXCEPT ![pid] = @ \cup {Head(inbox[pid])}]
           /\ waitingSend' = waitingSend \ {pid}
  <2> DEFINE s == Head(inbox[pid])
  <2>1. /\ s \in Senders(inbox[pid]) /\ Once(Tail(inbox[pid]))
        /\ Senders(Tail(inbox[pid])) = Senders(inbox[pid]) \ {s}
    BY <1>2, <1>4, TailRing
  <2>2. /\ inbox'[pid] = Tail(inbox[pid]) /\ owed'[pid] = owed[pid] \cup {s}
        /\ \A t \in Tid : t # pid => inbox'[t] = inbox[t] /\ owed'[t] = owed[t]
    BY <1>1, <1>2, <1>4
  <2> HIDE DEF s
  <2>3. \A t \in Tid :
          /\ Senders(inbox'[t]) = Senders(inbox[t]) \ (IF t = pid THEN {s} ELSE {})
          /\ owed'[t] = owed[t] \cup (IF t = pid THEN {s} ELSE {}) /\ Once(inbox'[t])
    BY <2>1, <2>2 DEF SInv, OneHolder
  <2>5. \A t \in Tid : t # pid => s \notin Senders(inbox[t])
    BY <1>1, <2>1 DEF SInv, OneHolder
  <2>6. \A t \in Tid : s \notin owed[t]
    BY <1>1, <2>1 DEF SInv, OneHolder
  <2>7. s \in waitingReply
    BY <1>1, <2>1 DEF SInv, OneHolder
  <2>8. OneHolder'
    <3>1. \A t \in Tid : /\ Senders(inbox'[t]) \cup owed'[t] \subseteq waitingReply'
                         /\ Once(inbox'[t])
      BY <1>1, <2>3, <2>5, <2>6, <2>7 DEF SInv, OneHolder
    <3>2. \A t, u \in Tid : Senders(inbox'[t]) \cap owed'[u] = {}
      BY <1>1, <2>3, <2>5, <2>6, <2>7 DEF SInv, OneHolder
    <3>3. \A t, u \in Tid : t # u => Senders(inbox'[t]) \cap Senders(inbox'[u]) = {}
      BY <1>1, <2>3, <2>5, <2>6, <2>7 DEF SInv, OneHolder
    <3>4. \A t, u \in Tid : t # u => owed'[t] \cap owed'[u] = {}
      BY <1>1, <2>3, <2>5, <2>6, <2>7 DEF SInv, OneHolder
    <3> QED
      BY <3>1, <3>2, <3>3, <3>4 DEF OneHolder
  <2>4. NoMailWhileAsleep'
    BY <1>4, <2>2 DEF SInv, NoMailWhileAsleep, IInv, TypeOK
  <2> QED
    BY <2>4, <2>8
<1> QED
  BY <1>1, <1>3, <1>4

\* A Reply to a sender the caller holds: nobody else has it.
LEMMA ReplyKeeps ==
  ASSUME SInv, pid # 0, NEW s \in owed[pid], Reply(s)
  PROVE  OneHolder' /\ NoMailWhileAsleep'
<1>1. /\ waitingReply' = waitingReply \ {s} /\ waitingSend' = waitingSend
      /\ inbox' = inbox /\ owed' = [t \in Tid |-> owed[t] \ {s}]
  BY DEF Reply
<1>2. pid \in Tid
  BY RunningFits DEF SInv
<1>3. \A t \in Tid : s \notin Senders(inbox[t]) /\ owed'[t] = owed[t] \ {s}
  BY <1>1, <1>2 DEF SInv, OneHolder
<1>4. OneHolder'
  BY <1>1, <1>3 DEF SInv, OneHolder
<1> QED
  BY <1>1, <1>4 DEF SInv, NoMailWhileAsleep

-----------------------------------------------------------------------------
(* The invariant of servers.                                               *)

LEMMA ServerInitHolds == Init => SInv
<1> SUFFICES ASSUME Init PROVE SInv
  OBVIOUS
<1>1. IInv
  BY InitHolds
<1>2. /\ \A t \in Tid : inbox[t] = <<>> /\ owed[t] = {}
      /\ waitingSend = {}
  BY DEF Init
<1>3. \A t \in Tid : Senders(inbox[t]) = {} /\ Once(inbox[t])
  BY <1>2, EmptyRing
<1> QED
  BY <1>1, <1>2, <1>3 DEF SInv, OneHolder, NoMailWhileAsleep

\* A server's step is one of the kernel's.
LEMMA ServerStepIsStep == IInv /\ ServerNext => Next
<1>1. IInv => (pid # 0 => owed[pid] \subseteq Tid)
  BY RunningFits DEF IInv, TypeOK
<1> QED
  BY <1>1 DEF ServerNext, Next

\* A kernel entry that is none of these four changes no ring and no task.
LEMMA OtherEntries ==
  ASSUME Entry
  PROVE  \/ Exit \/ Receive
         \/ \E p \in Priorities : Create(p)
         \/ \E d \in Tid : Send(d)
         \/ UNCHANGED <<live, ipcVars>>
BY DEF Entry, Call, Yield, CreateFails, SendFails, ReplyFails, AwaitDisabled,
       AwaitRecorded, AwaitBlocks, Interrupt, SpuriousInterrupt, Fault, taskVars

LEMMA ServerHolds ==
  ASSUME QUEUESIZE > NUMPROCS, SInv, [ServerNext]_vars
  PROVE  SInv'
<1>1. IInv'
  BY ServerStepIsStep, NextHolds, StutterHolds DEF SInv
<1>2. OneHolder' /\ NoMailWhileAsleep'
  <2>1. CASE Exit
    BY <2>1, QuietKeeps DEF Exit
  <2>2. CASE Receive
    BY <2>2, ReceiveKeeps
  <2>3. CASE \E p \in Priorities : Create(p)
    BY <2>3, CreateKeeps
  <2>4. CASE \E d \in Tid : Send(d)
    BY <2>4, SendKeeps
  <2>5. CASE UNCHANGED <<live, ipcVars>>
    BY <2>5, QuietKeeps
  <2>6. CASE pid # 0 /\ \E s \in owed[pid] : Reply(s)
    BY <2>6, ReplyKeeps
  <2>7. CASE UNCHANGED vars
    BY <2>7, QuietKeeps DEF vars
  <2> QED
    BY <2>1, <2>2, <2>3, <2>4, <2>5, <2>6, <2>7, OtherEntries DEF ServerNext
<1> QED
  BY <1>1, <1>2 DEF SInv

\* When tasks reply only to what they received, every request is in one place
\* and its sender asleep in Send, and no task sleeps next to its mail.
THEOREM ServerInvariance ==
  ASSUME QUEUESIZE > NUMPROCS PROVE ServerSpec => []SInv
<1>1. Init => SInv
  BY ServerInitHolds
<1>2. SInv /\ [ServerNext]_vars => SInv'
  BY ServerHolds
<1> QED
  BY <1>1, <1>2, PTL DEF ServerSpec

\* A message waits in a ring only while its sender sleeps in that Send, so the
\* raw pointer recieve_helper copies through stays good, and no sender is
\* queued twice.
THEOREM Buffers ==
  ASSUME QUEUESIZE > NUMPROCS PROVE ServerSpec => []BuffersPinned
<1>1. SInv => BuffersPinned
  <2> SUFFICES ASSUME SInv, NEW t \in live, NEW i \in 1 .. Len(inbox[t])
               PROVE  /\ inbox[t][i] \in waitingReply
                      /\ \A u \in live : \A j \in 1 .. Len(inbox[u]) :
                           inbox[t][i] = inbox[u][j] => t = u /\ i = j
    BY DEF BuffersPinned
  <2>1. live \subseteq Tid
    BY DEF SInv, IInv, TypeOK
  <2>2. inbox[t][i] \in Senders(inbox[t])
    BY DEF Senders
  <2>3. inbox[t][i] \in waitingReply
    BY <2>1, <2>2 DEF SInv, OneHolder
  <2>4. ASSUME NEW u \in live, NEW j \in 1 .. Len(inbox[u]), inbox[t][i] = inbox[u][j]
        PROVE  t = u /\ i = j
    <3>1. inbox[t][i] \in Senders(inbox[u])
      BY <2>4 DEF Senders
    <3>2. t = u
      BY <2>1, <2>2, <3>1 DEF SInv, OneHolder
    <3>3. Once(inbox[t])
      BY <2>1 DEF SInv, OneHolder
    <3> QED
      BY <2>4, <3>2, <3>3 DEF Once
  <2> QED
    BY <2>3, <2>4
<1> QED
  BY <1>1, ServerInvariance, PTL

\* No task sleeps in Receive while its ring holds a message.
THEOREM MailWakes ==
  ASSUME QUEUESIZE > NUMPROCS PROVE ServerSpec => []NoMailWhileAsleep
<1>1. SInv => NoMailWhileAsleep
  BY DEF SInv
<1> QED
  BY <1>1, ServerInvariance, PTL

-----------------------------------------------------------------------------
(* The rings, wait flags and history implement Rendezvous.                 *)

\* Where the invariant leaves no choice, Hands says where a request is.
HandsAgree ==
  \A s \in Tid :
    /\ s \notin waitingReply => Hands[s] = Promise!Free
    /\ s \in waitingReply => \A t \in live :
         /\ s \in Senders(inbox[t]) => Hands[s] = Promise!Queued(t)
         /\ s \in owed[t] => Hands[s] = Promise!Held(t)
    /\ (s \in waitingReply /\ \A t \in live : s \notin Senders(inbox[t]) /\ s \notin owed[t])
         => Hands[s] = Promise!Lost

LEMMA QueuedAtSenders ==
  \A s : QueuedAt(s) = {t \in live : s \in Senders(inbox[t])}
BY DEF QueuedAt, Senders

\* The definition of Hands, one case at a time.
LEMMA HandsCases ==
  ASSUME NEW s \in Tid
  PROVE  /\ s \notin waitingReply => Hands[s] = <<"free">>
         /\ s \in waitingReply /\ QueuedAt(s) # {}
              => Hands[s] = <<"queued", CHOOSE t \in QueuedAt(s) : TRUE>>
         /\ s \in waitingReply /\ QueuedAt(s) = {} /\ HeldBy(s) # {}
              => Hands[s] = <<"held", CHOOSE t \in HeldBy(s) : TRUE>>
         /\ s \in waitingReply /\ QueuedAt(s) = {} /\ HeldBy(s) = {} => Hands[s] = <<"lost">>
BY DEF Hands

LEMMA HandsFollow == SInv => HandsAgree
<1> SUFFICES ASSUME SInv, NEW s \in Tid
             PROVE  /\ s \notin waitingReply => Hands[s] = Promise!Free
                    /\ s \in waitingReply => \A t \in live :
                         /\ s \in Senders(inbox[t]) => Hands[s] = Promise!Queued(t)
                         /\ s \in owed[t] => Hands[s] = Promise!Held(t)
                    /\ (s \in waitingReply /\ \A t \in live : s \notin Senders(inbox[t]) /\ s \notin owed[t])
                         => Hands[s] = Promise!Lost
  BY DEF HandsAgree
<1>1. live \subseteq Tid
  BY DEF SInv, IInv, TypeOK
<1>2. s \notin waitingReply => Hands[s] = Promise!Free
  BY HandsCases DEF Promise!Free
<1>3. ASSUME s \in waitingReply, NEW t \in live, s \in Senders(inbox[t])
      PROVE  Hands[s] = Promise!Queued(t)
  <2>1. QueuedAt(s) = {t}
    BY <1>1, <1>3, QueuedAtSenders DEF SInv, OneHolder
  <2>2. (CHOOSE u \in QueuedAt(s) : TRUE) = t
    BY <2>1
  <2> QED
    BY <1>3, <2>1, <2>2, HandsCases DEF Promise!Queued
<1>4. ASSUME s \in waitingReply, NEW t \in live, s \in owed[t]
      PROVE  Hands[s] = Promise!Held(t)
  <2>1. QueuedAt(s) = {}
    BY <1>1, <1>4, QueuedAtSenders DEF SInv, OneHolder
  <2>2. HeldBy(s) = {t}
    BY <1>1, <1>4 DEF SInv, OneHolder, HeldBy
  <2>3. (CHOOSE u \in HeldBy(s) : TRUE) = t
    BY <2>2
  <2> QED
    BY <1>4, <2>1, <2>2, <2>3, HandsCases DEF Promise!Held
<1>5. ASSUME s \in waitingReply,
             \A t \in live : s \notin Senders(inbox[t]) /\ s \notin owed[t]
      PROVE  Hands[s] = Promise!Lost
  <2>1. QueuedAt(s) = {} /\ HeldBy(s) = {}
    BY <1>5, QueuedAtSenders DEF HeldBy
  <2> QED
    BY <1>5, <2>1, HandsCases DEF Promise!Lost
<1> QED
  BY <1>2, <1>3, <1>4, <1>5

\* The same of the state a step leads to.
LEMMA HandsFollowNext == SInv' => HandsAgree'
BY HandsFollow, PTL

\* A request whose flag, rings and holders stay is where it was.
LEMMA HandsStay ==
  ASSUME SInv, SInv', NEW s \in Tid, s \in waitingReply <=> s \in waitingReply',
         \A t \in Tid : /\ t \in live /\ s \in Senders(inbox[t])
                             <=> t \in live' /\ s \in Senders(inbox'[t])
                        /\ t \in live /\ s \in owed[t] <=> t \in live' /\ s \in owed'[t]
  PROVE  Hands'[s] = Hands[s]
<1>1. HandsAgree /\ HandsAgree'
  BY HandsFollow, HandsFollowNext
<1>2. live \subseteq Tid /\ live' \subseteq Tid
  BY DEF SInv, IInv, TypeOK
<1>3. CASE s \notin waitingReply
  BY <1>1, <1>3 DEF HandsAgree, Promise!Free
<1>4. CASE s \in waitingReply /\ \E t \in live : s \in Senders(inbox[t])
  <2>1. PICK t \in live : s \in Senders(inbox[t])
    BY <1>4
  <2>2. Hands[s] = <<"queued", t>>
    BY <1>1, <1>4, <2>1 DEF HandsAgree, Promise!Queued
  <2>3. t \in live' /\ s \in Senders(inbox'[t])
    BY <1>2, <2>1
  <2>4. Hands'[s] = <<"queued", t>>
    BY <1>1, <1>4, <2>3 DEF HandsAgree, Promise!Queued
  <2> QED
    BY <2>2, <2>4
<1>5. CASE s \in waitingReply /\ \E t \in live : s \in owed[t]
  <2>1. PICK t \in live : s \in owed[t]
    BY <1>5
  <2>2. Hands[s] = <<"held", t>>
    BY <1>1, <1>5, <2>1 DEF HandsAgree, Promise!Held
  <2>3. t \in live' /\ s \in owed'[t]
    BY <1>2, <2>1
  <2>4. Hands'[s] = <<"held", t>>
    BY <1>1, <1>5, <2>3 DEF HandsAgree, Promise!Held
  <2> QED
    BY <2>2, <2>4
<1>6. CASE s \in waitingReply /\ \A t \in live : s \notin Senders(inbox[t]) /\ s \notin owed[t]
  <2>1. Hands[s] = <<"lost">>
    BY <1>1, <1>6 DEF HandsAgree, Promise!Lost
  <2>2. \A t \in live' : s \notin Senders(inbox'[t]) /\ s \notin owed'[t]
    BY <1>2, <1>6
  <2>3. Hands'[s] = <<"lost">>
    BY <1>1, <1>6, <2>2 DEF HandsAgree, Promise!Lost
  <2> QED
    BY <2>1, <2>3
<1> QED
  BY <1>3, <1>4, <1>5, <1>6

LEMMA HandsDomain ==
  /\ DOMAIN Hands = Tid /\ DOMAIN Hands' = Tid
  /\ Hands = [s \in Tid |-> Hands[s]] /\ Hands' = [s \in Tid |-> Hands'[s]]
BY DEF Hands

\* One request moved and the others stayed.
LEMMA HandsMove ==
  ASSUME NEW c \in Tid, NEW v, Hands'[c] = v,
         \A s \in Tid : s # c => Hands'[s] = Hands[s]
  PROVE  Hands' = [Hands EXCEPT ![c] = v]
<1> DEFINE g == [Hands EXCEPT ![c] = v]
<1>1. g = [s \in Tid |-> IF s = c THEN v ELSE Hands[s]]
  BY HandsDomain
<1>2. g = [s \in Tid |-> Hands'[s]]
  BY <1>1
<1> QED
  BY <1>2, HandsDomain

\* Nothing that Hands reads has moved.
LEMMA HandsQuiet ==
  ASSUME UNCHANGED <<live, ipcVars>>
  PROVE  Hands' = Hands
BY DEF ipcVars, Hands, QueuedAt, HeldBy

\* Send: the caller's request goes from free to queued, or held at once.
LEMMA SendImplements ==
  ASSUME QUEUESIZE > NUMPROCS, SInv, SInv', NEW d \in Tid, Send(d)
  PROVE  Promise!Send(pid, d) \/ Promise!SendTaken(pid, d)
<1>1. /\ pid \in Tid /\ d \in live /\ live' = live
      /\ waitingReply' = waitingReply \cup {pid}
      /\ \/ /\ d \notin waitingSend
            /\ inbox' = [inbox EXCEPT ![d] = Append(@, pid)] /\ owed' = owed
         \/ /\ inbox' = inbox /\ owed' = [owed EXCEPT ![d] = @ \cup {pid}]
  BY SendEffect
<1>2. /\ pid \notin waitingReply
      /\ \A t \in Tid : pid \notin Senders(inbox[t]) /\ pid \notin owed[t]
  BY <1>1, AwakeUnqueued
<1>3. HandsAgree /\ HandsAgree'
  BY HandsFollow, HandsFollowNext
<1>4. Hands[pid] = Promise!Free
  BY <1>1, <1>2, <1>3 DEF HandsAgree
<1>5. /\ inbox \in [Tid -> Seq(Tid)] /\ owed \in [Tid -> SUBSET Tid]
  BY DEF SInv, IInv, TypeOK
<1>6. pid \in waitingReply' /\ d \in live'
  BY <1>1
<1>7. CASE inbox' = [inbox EXCEPT ![d] = Append(@, pid)] /\ owed' = owed
  <2>1. Senders(inbox'[d]) = Senders(inbox[d]) \cup {pid}
    <3>1. inbox[d] \in Seq(Tid) /\ pid \notin Senders(inbox[d]) /\ Once(inbox[d])
      BY <1>2, <1>5 DEF SInv, OneHolder
    <3>2. inbox'[d] = Append(inbox[d], pid)
      BY <1>5, <1>7
    <3> QED
      BY <1>1, <3>1, <3>2, AppendRing
  <2>2. \A t \in Tid : t # d => inbox'[t] = inbox[t]
    BY <1>5, <1>7
  <2>3. Hands'[pid] = Promise!Queued(d)
    BY <1>1, <1>3, <1>6, <2>1 DEF HandsAgree
  <2>4. ASSUME NEW s \in Tid, s # pid PROVE Hands'[s] = Hands[s]
    <3>1. \A t \in Tid : s \in Senders(inbox'[t]) <=> s \in Senders(inbox[t])
      BY <2>1, <2>2, <2>4
    <3>2. s \in waitingReply <=> s \in waitingReply'
      BY <1>1, <2>4
    <3> QED
      BY <1>1, <1>7, <3>1, <3>2, HandsStay
  <2>5. Hands' = [Hands EXCEPT ![pid] = Promise!Queued(d)]
    BY <1>1, <2>3, <2>4, HandsMove
  <2> QED
    BY <1>4, <2>5 DEF Promise!Send
<1>8. CASE inbox' = inbox /\ owed' = [owed EXCEPT ![d] = @ \cup {pid}]
  <2>1. \A t \in Tid : owed'[t] = owed[t] \cup (IF t = d THEN {pid} ELSE {})
    BY <1>5, <1>8
  <2>2. pid \in owed'[d]
    BY <2>1
  <2>3. Hands'[pid] = Promise!Held(d)
    BY <1>1, <1>3, <1>6, <2>2 DEF HandsAgree
  <2>4. ASSUME NEW s \in Tid, s # pid PROVE Hands'[s] = Hands[s]
    <3>1. \A t \in Tid : s \in owed'[t] <=> s \in owed[t]
      BY <2>1, <2>4
    <3>2. s \in waitingReply <=> s \in waitingReply'
      BY <1>1, <2>4
    <3> QED
      BY <1>1, <1>8, <3>1, <3>2, HandsStay
  <2>5. Hands' = [Hands EXCEPT ![pid] = Promise!Held(d)]
    BY <1>1, <2>3, <2>4, HandsMove
  <2> QED
    BY <1>4, <2>5 DEF Promise!SendTaken
<1> QED
  BY <1>1, <1>7, <1>8

\* Receive: the request at the head of the caller's ring is taken, or nothing
\* happens to any request.
LEMMA ReceiveImplements ==
  ASSUME QUEUESIZE > NUMPROCS, SInv, SInv', Receive
  PROVE  Hands' = Hands \/ \E c \in Tid : Promise!Take(c, pid)
<1>1. /\ pid \in Tid /\ pid \in live /\ live' = live /\ waitingReply' = waitingReply
      /\ \/ /\ inbox' = inbox /\ owed' = owed
         \/ /\ inbox[pid] # <<>> /\ inbox' = [inbox EXCEPT ![pid] = Tail(@)]
            /\ owed' = [owed EXCEPT ![pid] = @ \cup {Head(inbox[pid])}]
  BY ReceiveEffect
<1>2. CASE inbox' = inbox /\ owed' = owed
  BY <1>1, <1>2 DEF Hands, QueuedAt, HeldBy
<1>3. CASE /\ inbox[pid] # <<>> /\ inbox' = [inbox EXCEPT ![pid] = Tail(@)]
           /\ owed' = [owed EXCEPT ![pid] = @ \cup {Head(inbox[pid])}]
  <2> DEFINE c == Head(inbox[pid])
  <2>1. /\ inbox \in [Tid -> Seq(Tid)] /\ owed \in [Tid -> SUBSET Tid]
        /\ inbox[pid] \in Seq(Tid) /\ Once(inbox[pid])
    BY <1>1 DEF SInv, IInv, TypeOK, OneHolder
  <2>2. /\ c \in Tid /\ c \in Senders(inbox[pid])
        /\ Senders(Tail(inbox[pid])) = Senders(inbox[pid]) \ {c}
    BY <1>3, <2>1, TailRing
  <2>3. /\ inbox'[pid] = Tail(inbox[pid]) /\ owed'[pid] = owed[pid] \cup {c}
        /\ \A t \in Tid : t # pid => inbox'[t] = inbox[t] /\ owed'[t] = owed[t]
    BY <1>1, <1>3, <2>1
  <2> HIDE DEF c
  <2>4. HandsAgree /\ HandsAgree'
    BY HandsFollow, HandsFollowNext
  <2>5. c \in waitingReply /\ c \in waitingReply'
    BY <1>1, <2>2 DEF SInv, OneHolder
  <2>6. Hands[c] = Promise!Queued(pid)
    BY <1>1, <2>2, <2>4, <2>5 DEF HandsAgree
  <2>7. c \in owed'[pid] /\ pid \in live'
    BY <1>1, <2>3
  <2>8. Hands'[c] = Promise!Held(pid)
    BY <2>2, <2>4, <2>5, <2>7 DEF HandsAgree
  <2>9. ASSUME NEW s \in Tid, s # c PROVE Hands'[s] = Hands[s]
    <3>1. \A t \in Tid : /\ s \in Senders(inbox'[t]) <=> s \in Senders(inbox[t])
                         /\ s \in owed'[t] <=> s \in owed[t]
      BY <2>2, <2>3, <2>9
    <3> QED
      BY <1>1, <3>1, HandsStay
  <2>10. Hands' = [Hands EXCEPT ![c] = Promise!Held(pid)]
    BY <2>2, <2>8, <2>9, HandsMove
  <2>11. Promise!Take(c, pid)
    BY <2>6, <2>10 DEF Promise!Take
  <2> QED
    BY <2>2, <2>11
<1> QED
  BY <1>1, <1>2, <1>3

\* Reply: a request leaves the hands of the task that replies.
LEMMA ReplyImplements ==
  ASSUME SInv, SInv', pid # 0, NEW c \in owed[pid], Reply(c)
  PROVE  c \in Tid /\ pid \in Tid /\ Promise!Reply(c, pid)
<1>1. /\ waitingReply' = waitingReply \ {c} /\ inbox' = inbox /\ live' = live
      /\ owed' = [t \in Tid |-> owed[t] \ {c}]
  BY DEF Reply, taskVars
<1>2. pid \in Tid /\ pid \in live /\ c \in Tid
  BY RunningFits DEF SInv, IInv, TypeOK
<1>3. HandsAgree /\ HandsAgree'
  BY HandsFollow, HandsFollowNext
<1>4. c \in waitingReply
  BY <1>2 DEF SInv, OneHolder
<1>5. Hands[c] = Promise!Held(pid)
  BY <1>2, <1>3, <1>4 DEF HandsAgree
<1>6. c \notin waitingReply'
  BY <1>1
<1>7. Hands'[c] = Promise!Free
  BY <1>2, <1>3, <1>6 DEF HandsAgree
<1>8. ASSUME NEW s \in Tid, s # c PROVE Hands'[s] = Hands[s]
  <2>1. s \in waitingReply <=> s \in waitingReply'
    BY <1>1, <1>8
  <2>2. \A t \in Tid : s \in owed'[t] <=> s \in owed[t]
    BY <1>1, <1>8
  <2> QED
    BY <1>1, <2>1, <2>2, HandsStay
<1>9. Hands' = [Hands EXCEPT ![c] = Promise!Free]
  BY <1>2, <1>7, <1>8, HandsMove
<1> QED
  BY <1>2, <1>5, <1>9 DEF Promise!Reply

\* Create: the slot taken over held no request of a live server.
LEMMA CreateImplements ==
  ASSUME SInv, SInv', NEW p \in Priorities, Create(p)
  PROVE  Hands' = Hands
<1>1. /\ FreeSlot \in Tid \ live /\ waitingReply' = waitingReply
  BY CreateKeeps
<1>2. /\ live' = live \cup {FreeSlot}
      /\ inbox' = [inbox EXCEPT ![FreeSlot] = <<>>]
      /\ owed' = [owed EXCEPT ![FreeSlot] = {}]
  BY DEF Create
<1>3. /\ inbox \in [Tid -> Seq(Tid)] /\ owed \in [Tid -> SUBSET Tid]
  BY DEF SInv, IInv, TypeOK
<1>4. /\ Senders(inbox'[FreeSlot]) = {} /\ owed'[FreeSlot] = {}
      /\ \A t \in Tid : t # FreeSlot => inbox'[t] = inbox[t] /\ owed'[t] = owed[t]
  BY <1>1, <1>2, <1>3, EmptyRing
<1>5. \A s \in Tid : Hands'[s] = Hands[s]
  <2> TAKE s \in Tid
  <2>1. \A t \in Tid : /\ t \in live /\ s \in Senders(inbox[t])
                            <=> t \in live' /\ s \in Senders(inbox'[t])
                       /\ t \in live /\ s \in owed[t] <=> t \in live' /\ s \in owed'[t]
    BY <1>1, <1>2, <1>4
  <2> QED
    BY <1>1, <2>1, HandsStay
<1> QED
  BY <1>5, HandsDomain

\* Exit: the requests in the hands of the task that exits are lost.
LEMMA ExitImplements ==
  ASSUME SInv, SInv', Exit
  PROVE  pid \in Tid /\ Promise!Close(pid)
<1>1. /\ pid # 0 /\ live' = live \ {pid} /\ UNCHANGED ipcVars
  BY DEF Exit
<1>2. pid \in Tid /\ pid \in live /\ live \subseteq Tid
  BY <1>1, RunningFits DEF SInv, IInv, TypeOK
<1>3. HandsAgree /\ HandsAgree'
  BY HandsFollow, HandsFollowNext
<1>4. waitingReply' = waitingReply /\ inbox' = inbox /\ owed' = owed
  BY <1>1 DEF ipcVars
<1>5. ASSUME NEW s \in Tid
      PROVE  Hands'[s] = IF Hands[s] \in {Promise!Queued(pid), Promise!Held(pid)}
                         THEN Promise!Lost ELSE Hands[s]
  <2>1. CASE s \in waitingReply /\ (s \in Senders(inbox[pid]) \/ s \in owed[pid])
    <3>1. Hands[s] \in {Promise!Queued(pid), Promise!Held(pid)}
      BY <1>2, <1>3, <2>1 DEF HandsAgree
    <3>2. \A t \in live' : s \notin Senders(inbox'[t]) /\ s \notin owed'[t]
      BY <1>1, <1>2, <1>4, <2>1 DEF SInv, OneHolder
    <3>3. Hands'[s] = Promise!Lost
      BY <1>3, <1>4, <2>1, <3>2 DEF HandsAgree
    <3> QED
      BY <3>1, <3>3
  <2>2. CASE s \notin waitingReply \/ (s \notin Senders(inbox[pid]) /\ s \notin owed[pid])
    <3>1. Hands[s] \notin {Promise!Queued(pid), Promise!Held(pid)}
      <4>1. CASE s \notin waitingReply
        BY <1>3, <4>1 DEF HandsAgree, Promise!Free, Promise!Queued, Promise!Held
      <4>2. CASE /\ s \in waitingReply /\ s \notin Senders(inbox[pid]) /\ s \notin owed[pid]
                 /\ \E t \in live : s \in Senders(inbox[t]) \/ s \in owed[t]
        <5>1. PICK t \in live : s \in Senders(inbox[t]) \/ s \in owed[t]
          BY <4>2
        <5>2. t # pid
          BY <4>2, <5>1
        <5>3. Hands[s] = <<"queued", t>> \/ Hands[s] = <<"held", t>>
          BY <1>3, <4>2, <5>1 DEF HandsAgree, Promise!Queued, Promise!Held
        <5> QED
          BY <5>2, <5>3 DEF Promise!Queued, Promise!Held
      <4>3. CASE /\ s \in waitingReply
                 /\ \A t \in live : s \notin Senders(inbox[t]) /\ s \notin owed[t]
        BY <1>3, <4>3 DEF HandsAgree, Promise!Lost, Promise!Queued, Promise!Held
      <4> QED
        BY <2>2, <4>1, <4>2, <4>3
    <3>2. Hands'[s] = Hands[s]
      <4>1. CASE s \notin waitingReply
        BY <1>3, <1>4, <4>1 DEF HandsAgree
      <4>2. CASE s \notin Senders(inbox[pid]) /\ s \notin owed[pid]
        <5>1. \A t \in Tid : /\ t \in live /\ s \in Senders(inbox[t])
                                  <=> t \in live' /\ s \in Senders(inbox'[t])
                             /\ t \in live /\ s \in owed[t] <=> t \in live' /\ s \in owed'[t]
          BY <1>1, <1>4, <4>2
        <5> QED
          BY <1>4, <5>1, HandsStay
      <4> QED
        BY <2>2, <4>1, <4>2
    <3> QED
      BY <3>1, <3>2
  <2> QED
    BY <2>1, <2>2
<1>6. Hands' = [s \in Tid |-> IF Hands[s] \in {Promise!Queued(pid), Promise!Held(pid)}
                              THEN Promise!Lost ELSE Hands[s]]
  BY <1>5, HandsDomain
<1> QED
  BY <1>2, <1>6 DEF Promise!Close

\* A server's kernel entry is a step of Rendezvous, or leaves every request
\* where it is.
LEMMA StepImplements ==
  ASSUME QUEUESIZE > NUMPROCS, SInv, SInv', [ServerNext]_vars
  PROVE  [Promise!Next]_Hands
<1>1. CASE Exit
  BY <1>1, ExitImplements DEF Promise!Next
<1>2. CASE Receive
  <2>1. pid \in Tid
    BY <1>2, ReceiveEffect
  <2> QED
    BY <1>2, <2>1, ReceiveImplements DEF Promise!Next
<1>3. CASE \E p \in Priorities : Create(p)
  BY <1>3, CreateImplements
<1>4. ASSUME NEW d \in Tid, Send(d) PROVE Promise!Next
  <2>1. pid \in Tid
    BY <1>4, SendEffect
  <2> QED
    BY <1>4, <2>1, SendImplements DEF Promise!Next
<1>5. CASE UNCHANGED <<live, ipcVars>>
  BY <1>5, HandsQuiet
<1>6. ASSUME pid # 0, NEW c \in owed[pid], Reply(c) PROVE Promise!Next
  BY <1>6, ReplyImplements DEF Promise!Next
<1>7. CASE UNCHANGED vars
  BY <1>7, HandsQuiet DEF vars, taskVars
<1> QED
  BY <1>1, <1>2, <1>3, <1>4, <1>5, <1>6, <1>7, OtherEntries DEF ServerNext

\* Send / Receive / Reply implement Rendezvous: a sender is released only by
\* the task that received its message, and loses its server only by that
\* task's Exit.
THEOREM Implementation ==
  ASSUME QUEUESIZE > NUMPROCS PROVE ServerSpec => ImplementsRendezvous
<1>1. Init => Promise!Init
  BY DEF Init, Hands, Promise!Init, Promise!Free
<1>2. SInv /\ SInv' /\ [ServerNext]_vars => [Promise!Next]_Hands
  BY StepImplements
<1> QED
  BY <1>1, <1>2, ServerInvariance, PTL DEF ServerSpec, ImplementsRendezvous, Promise!Spec

=============================================================================
