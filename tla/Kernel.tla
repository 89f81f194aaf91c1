------------------------------- MODULE Kernel -------------------------------
(***************************************************************************)
(* The microkernel of one core: task slots, ready heap, blocked list,      *)
(* Send / Receive / Reply, AwaitEvent and the interrupt path.  Each of the *)
(* four cores runs its own instance on its own banks (kernel_state.c).     *)
(*                                                                         *)
(* A kernel entry runs with interrupts masked and ends in Schedule(), so   *)
(* one action is one entry: the handler followed by the dispatch of the    *)
(* next task.  pid = 0 is the kernel parked in wfi_unmasked().             *)
(*                                                                         *)
(* Abstractions: message bytes, lengths and register values are left out;  *)
(* a message is named by its sender.  The heap is a set here: its array is *)
(* the matter of ReadyHeap.  The order of entries of equal priority is     *)
(* left open: Schedule may pick any entry of highest priority.             *)
(***************************************************************************)
EXTENDS Naturals, Sequences, FiniteSets

CONSTANTS
  NUMPROCS,     \* task slots, and the capacity of the ready heap
  QUEUESIZE,    \* slots of a task's ring of received messages
  BootTasks,    \* priorities of the tasks kmain creates before Schedule()
  Priorities,   \* priorities that tasks ask for at run time (0 is highest)
  Events,       \* interrupt ids a task may wait for
  Enabled,      \* those whose interrupt is enabled in the GIC
  Latched,      \* those recorded in event_q when nobody waits
  Fifo,         \* those that may queue further items of a device fifo
  MaxExtra,     \* bound: further items one interrupt finds in the fifo
  EventBound    \* bound: recorded events at which the devices fall silent

Tid == 1 .. NUMPROCS

ASSUME KernelAssumption ==
  /\ NUMPROCS \in Nat /\ QUEUESIZE \in Nat \ {0}
  /\ BootTasks \in Seq(Nat) /\ Len(BootTasks) \in 1 .. NUMPROCS
  /\ Priorities \subseteq Nat
  /\ Enabled \subseteq Events /\ Latched \subseteq Events /\ Fifo \subseteq Latched
  /\ MaxExtra \in Nat /\ EventBound \in Nat

VARIABLES
  live,          \* slots with pcpointer # NULL
  prio,          \* PROCS[].priority
  pid,           \* PID: the running task, 0 when the core is parked
  heap,          \* entries <<task, copy>> of the ready heap
  blocked,       \* tasks with BLOCKED_LIST[].pid # 0
  waitingSend,   \* tasks asleep in Receive (waiting_send = 1)
  waitingReply,  \* tasks asleep in Send (waiting_reply = 1)
  inbox,         \* message_recieved ring of each task, as its senders in order
  pidLs,         \* pid_ls of each event
  eventqLen,     \* eventq_len of each event
  owed           \* history: senders a task has received from and not replied to

ipcVars   == <<waitingSend, waitingReply, inbox, owed>>
eventVars == <<pidLs, eventqLen>>
taskVars  == <<live, prio>>
vars      == <<live, prio, pid, heap, blocked, ipcVars, eventVars>>

TypeOK ==
  /\ live \subseteq Tid
  /\ prio \in [Tid -> Nat]
  /\ pid \in 0 .. NUMPROCS
  /\ heap \subseteq Tid \X Nat
  /\ blocked \subseteq Tid
  /\ waitingSend \subseteq Tid
  /\ waitingReply \subseteq Tid
  /\ inbox \in [Tid -> Seq(Tid)]
  /\ pidLs \in [Events -> SUBSET Tid]
  /\ eventqLen \in [Events -> Nat]
  /\ owed \in [Tid -> SUBSET Tid]

-----------------------------------------------------------------------------
(* The ready heap.                                                         *)

Ready(h) == {e[1] : e \in h}

Copies(h, t) == {e \in h : e[1] = t}

\* insertKey_state_heap for every task of S: an entry per task, and what does
\* not fit in the array is dropped silently.  The result is the set of heaps
\* this may leave, one per choice of the dropped tasks.
Enqueue(h, S) ==
  LET room == NUMPROCS - Cardinality(h)
  IN {h \cup {<<t, Cardinality(Copies(h, t))>> : t \in D} :
        D \in {E \in SUBSET S : \/ E = S /\ Cardinality(S) <= room
                                \/ Cardinality(E) = room /\ Cardinality(S) > room}}

\* unblock_ind for every task of S, the blocked tasks being b: a task that is
\* not blocked is enqueued too unless its stale BLOCKED_LIST priority equals
\* its own, which is left open.
Unblock(h, b, S) ==
  UNION {Enqueue(h, (S \cap b) \cup stale) : stale \in SUBSET (S \ b)}

\* Mutant of Rescued: Schedule parks without looking for lost tasks.
NoRescue == {}

\* rescue_orphaned_tasks, which Schedule calls on an empty heap.
Rescued == {<<t, 0>> : t \in live' \ blocked'}

\* scrPick: an entry that no other precedes in priority; that the array of the heap
\* yields one is shown of ReadyHeap (HighestIsTaken).
Pick(h) ==
  {e \in h : /\ \A f \in h : prio'[e[1]] <= prio'[f[1]]
             /\ \A f \in Copies(h, e[1]) : f[2] <= e[2]}

\* Schedule on the ready heap h.
Schedule(h) ==
  LET c == IF h = {} THEN Rescued ELSE h
  IN IF c = {} THEN pid' = 0 /\ heap' = {}
     ELSE \E e \in Pick(c) : pid' = e[1] /\ heap' = c \ {e}

\* A call that keeps the caller ready: enqueue it, then Schedule.
Requeue == \E h \in Enqueue(heap, {pid}) : Schedule(h)

-----------------------------------------------------------------------------
Init ==
  LET boot == 1 .. Len(BootTasks)
      first == {t \in boot : \A u \in boot : BootTasks[t] <= BootTasks[u]}
  IN /\ live = boot
     /\ prio = [t \in Tid |-> IF t \in boot THEN BootTasks[t] ELSE 0]
     /\ pid \in first
     /\ heap = {<<t, 0>> : t \in boot \ {pid}}
     /\ blocked = {}
     /\ waitingSend = {}
     /\ waitingReply = {}
     /\ inbox = [t \in Tid |-> <<>>]
     /\ pidLs = [e \in Events |-> {}]
     /\ eventqLen = [e \in Events |-> 0]
     /\ owed = [t \in Tid |-> {}]

-----------------------------------------------------------------------------
(* Task management system calls.                                           *)

\* Yield, and the calls that only read the caller's own descriptor.
Yield ==
  /\ pid # 0
  /\ UNCHANGED <<taskVars, blocked, ipcVars, eventVars>>
  /\ Requeue

\* Exit: Kill clears the slot's pc and stack pointer and nothing else.
Exit ==
  /\ pid # 0
  /\ live' = live \ {pid}
  /\ UNCHANGED <<prio, blocked, ipcVars, eventVars>>
  /\ Schedule(heap)

\* The slot KernelCreate takes: the first free one.
FreeSlot == CHOOSE t \in Tid \ live : \A u \in Tid \ live : t <= u

\* Mutant of Create: the ring of the reused slot is not reset.
CreateKeepsRing(p) ==
  /\ pid # 0
  /\ Tid \ live # {}
  /\ live' = live \cup {FreeSlot}
  /\ prio' = [prio EXCEPT ![FreeSlot] = p]
  /\ UNCHANGED <<blocked, ipcVars, eventVars>>
  /\ \E h \in Enqueue(heap, {pid}) : \E g \in Enqueue(h, {FreeSlot}) : Schedule(g)

\* Create: the parent is enqueued first; the slot's ring and wait flags are
\* reset, its BLOCKED_LIST entry is not.
Create(p) ==
  /\ pid # 0
  /\ Tid \ live # {}
  /\ live' = live \cup {FreeSlot}
  /\ prio' = [prio EXCEPT ![FreeSlot] = p]
  /\ waitingSend' = waitingSend \ {FreeSlot}
  /\ waitingReply' = waitingReply \ {FreeSlot}
  /\ inbox' = [inbox EXCEPT ![FreeSlot] = <<>>]
  /\ owed' = [owed EXCEPT ![FreeSlot] = {}]
  /\ UNCHANGED <<blocked, eventVars>>
  /\ \E h \in Enqueue(heap, {pid}) : \E g \in Enqueue(h, {FreeSlot}) : Schedule(g)

\* Create with every slot taken returns -2.
CreateFails ==
  /\ pid # 0
  /\ Tid \ live = {}
  /\ UNCHANGED <<taskVars, blocked, ipcVars, eventVars>>
  /\ Requeue

-----------------------------------------------------------------------------
(* Send / Receive / Reply.                                                 *)

\* head == tail: the ring looks empty, also when all QUEUESIZE slots are used.
LooksEmpty(ring) == Len(ring) % QUEUESIZE = 0

\* Mutant of RecieveHelper: the head index does not advance.
RecieveHelperKeepsHead(r, in, b) ==
  IF LooksEmpty(in[r])
  THEN /\ inbox' = in /\ blocked' = b /\ owed' = owed
       /\ waitingSend' = waitingSend \cup {r}
       /\ Schedule(heap)
  ELSE /\ inbox' = in /\ blocked' = b \ {r}
       /\ waitingSend' = waitingSend \ {r}
       /\ owed' = [owed EXCEPT ![r] = @ \cup {Head(in[r])}]
       /\ \E h \in Unblock(heap, b, {r}) : Schedule(h)

\* recieve_helper for task r: on rings in and blocked tasks b, sleep or take
\* the oldest message and wake up.
RecieveHelper(r, in, b) ==
  IF LooksEmpty(in[r])
  THEN /\ inbox' = in
       /\ blocked' = b
       /\ waitingSend' = waitingSend \cup {r}
       /\ owed' = owed
       /\ Schedule(heap)
  ELSE /\ inbox' = [in EXCEPT ![r] = Tail(@)]
       /\ blocked' = b \ {r}
       /\ waitingSend' = waitingSend \ {r}
       /\ owed' = [owed EXCEPT ![r] = @ \cup {Head(in[r])}]
       /\ \E h \in Unblock(heap, b, {r}) : Schedule(h)

\* Send to a dead task returns -1, to a task whose ring is full -2.
SendFails(d) ==
  /\ pid # 0
  /\ d \notin live \/ Len(inbox[d]) >= QUEUESIZE
  /\ UNCHANGED <<taskVars, blocked, ipcVars, eventVars>>
  /\ Requeue

\* Mutant of Send: a receiver asleep in Receive is not looked for.
SendWithoutDelivery(d) ==
  /\ pid # 0
  /\ d \in live /\ Len(inbox[d]) < QUEUESIZE
  /\ waitingReply' = waitingReply \cup {pid}
  /\ inbox' = [inbox EXCEPT ![d] = Append(@, pid)]
  /\ blocked' = blocked \cup {pid}
  /\ UNCHANGED <<taskVars, eventVars, waitingSend, owed>>
  /\ Schedule(heap)

\* Send: block the caller, queue its message, and complete the receiver's
\* Receive when it sleeps in one.
Send(d) ==
  LET in == [inbox EXCEPT ![d] = Append(@, pid)]
      b  == blocked \cup {pid}
  IN /\ pid # 0
     /\ d \in live /\ Len(inbox[d]) < QUEUESIZE
     /\ waitingReply' = waitingReply \cup {pid}
     /\ UNCHANGED <<taskVars, eventVars>>
     /\ \/ d \in waitingSend /\ RecieveHelper(d, in, b)
        \/ /\ d \notin waitingSend
           /\ inbox' = in
           /\ blocked' = b
           /\ UNCHANGED <<waitingSend, owed>>
           /\ Schedule(heap)

Receive ==
  /\ pid # 0
  /\ UNCHANGED <<taskVars, waitingReply, eventVars>>
  /\ RecieveHelper(pid, inbox, blocked \cup {pid})

\* Reply to a dead task returns -1, to one that awaits no reply -2.
ReplyFails(s) ==
  /\ pid # 0
  /\ s \notin live \/ s \notin waitingReply
  /\ UNCHANGED <<taskVars, blocked, ipcVars, eventVars>>
  /\ Requeue

\* Mutant of Reply: waiting_reply is not checked.
ReplyUnchecked(s) ==
  /\ pid # 0
  /\ s \in live
  /\ blocked' = blocked \ {s}
  /\ waitingReply' = waitingReply \ {s}
  /\ owed' = [t \in Tid |-> owed[t] \ {s}]
  /\ UNCHANGED <<taskVars, waitingSend, inbox, eventVars>>
  /\ \E h \in Enqueue(heap, {pid}) : \E g \in Unblock(h, blocked, {s}) : Schedule(g)

\* Reply: the caller is enqueued, then the sender.  The kernel does not ask
\* whether the caller is the task the sender sent to.
Reply(s) ==
  /\ pid # 0
  /\ s \in live /\ s \in waitingReply
  /\ blocked' = blocked \ {s}
  /\ waitingReply' = waitingReply \ {s}
  /\ owed' = [t \in Tid |-> owed[t] \ {s}]
  /\ UNCHANGED <<taskVars, waitingSend, inbox, eventVars>>
  /\ \E h \in Enqueue(heap, {pid}) : \E g \in Unblock(h, blocked, {s}) : Schedule(g)

-----------------------------------------------------------------------------
(* Events and interrupts.                                                  *)

\* Mutant of AwaitDisabled: the caller is not put back on the heap.
AwaitDisabledForgets(e) ==
  /\ pid # 0
  /\ e \notin Enabled
  /\ UNCHANGED <<taskVars, blocked, ipcVars, eventVars>>
  /\ Schedule(heap)

\* AwaitEvent on an interrupt that is not enabled returns -1 at once.
AwaitDisabled(e) ==
  /\ pid # 0
  /\ e \notin Enabled
  /\ UNCHANGED <<taskVars, blocked, ipcVars, eventVars>>
  /\ Requeue

\* Mutant of AwaitRecorded: eventq_len is not tested.
AwaitRecordedUntested(e) ==
  /\ pid # 0
  /\ e \in Enabled
  /\ eventqLen' = [eventqLen EXCEPT ![e] = @ - 1]
  /\ UNCHANGED <<taskVars, blocked, ipcVars, pidLs>>
  /\ Requeue

\* AwaitEvent with a recorded event consumes it and stays ready.
AwaitRecorded(e) ==
  /\ pid # 0
  /\ e \in Enabled /\ eventqLen[e] > 0
  /\ eventqLen' = [eventqLen EXCEPT ![e] = @ - 1]
  /\ UNCHANGED <<taskVars, blocked, ipcVars, pidLs>>
  /\ Requeue

\* Mutant of AwaitBlocks: eventq_len is not tested.
AwaitBlocksAlways(e) ==
  /\ pid # 0
  /\ e \in Enabled
  /\ blocked' = blocked \cup {pid}
  /\ pidLs' = [pidLs EXCEPT ![e] = @ \cup {pid}]
  /\ UNCHANGED <<taskVars, ipcVars, eventqLen>>
  /\ Schedule(heap)

\* AwaitEvent with none blocks the caller on the event.
AwaitBlocks(e) ==
  /\ pid # 0
  /\ e \in Enabled /\ eventqLen[e] = 0
  /\ blocked' = blocked \cup {pid}
  /\ pidLs' = [pidLs EXCEPT ![e] = @ \cup {pid}]
  /\ UNCHANGED <<taskVars, ipcVars, eventqLen>>
  /\ Schedule(heap)

\* Mutant of Interrupt: the waiters are woken and stay on the event's list.
InterruptKeepsList(e, extra) ==
  /\ pid # 0
  /\ e \in Enabled /\ eventqLen[e] < EventBound
  /\ extra = 0 \/ e \in Fifo
  /\ blocked' = blocked \ pidLs[e]
  /\ eventqLen' = [eventqLen EXCEPT ![e] =
                     @ + extra + (IF pidLs[e] = {} /\ e \in Latched THEN 1 ELSE 0)]
  /\ UNCHANGED <<taskVars, ipcVars, pidLs>>
  /\ \E h \in Enqueue(heap, {pid} \cap live) :
       \E g \in Unblock(h, blocked, pidLs[e]) : Schedule(g)

\* Interrupt e arrives while a task runs: enqueue the task, queue the further
\* items of the device fifo, wake every waiter, or record the event when there
\* is none and the event is latched.  A parked core takes no interrupt: the
\* instruction before its WFI unmasks SError, not IRQ.
Interrupt(e, extra) ==
  /\ pid # 0
  /\ e \in Enabled /\ eventqLen[e] < EventBound
  /\ extra = 0 \/ e \in Fifo
  /\ blocked' = blocked \ pidLs[e]
  /\ pidLs' = [pidLs EXCEPT ![e] = {}]
  /\ eventqLen' = [eventqLen EXCEPT ![e] =
                     @ + extra + (IF pidLs[e] = {} /\ e \in Latched THEN 1 ELSE 0)]
  /\ UNCHANGED <<taskVars, ipcVars>>
  /\ \E h \in Enqueue(heap, {pid} \cap live) :
       \E g \in Unblock(h, blocked, pidLs[e]) : Schedule(g)

\* A spurious interrupt id (>= 1020) returns before the running task is put
\* back on the heap.
SpuriousInterrupt ==
  /\ pid # 0
  /\ UNCHANGED <<taskVars, blocked, ipcVars, eventVars>>
  /\ Schedule(heap)

\* A synchronous exception other than SVC: the handler does nothing at all.
Fault ==
  /\ pid # 0
  /\ UNCHANGED <<taskVars, blocked, ipcVars, eventVars>>
  /\ Schedule(heap)

-----------------------------------------------------------------------------
\* Every system call but a successful Reply, and every device interrupt.  CoreSend,
\* whose caller stays ready as in Yield, is left to Mailbox.
Call ==
  \/ Yield \/ Exit \/ CreateFails \/ Receive
  \/ \E p \in Priorities : Create(p)
  \/ \E t \in Tid : SendFails(t) \/ Send(t) \/ ReplyFails(t)
  \/ \E e \in Events : \/ AwaitDisabled(e) \/ AwaitRecorded(e) \/ AwaitBlocks(e)
                       \/ \E extra \in 0 .. MaxExtra : Interrupt(e, extra)

Entry == Call \/ SpuriousInterrupt \/ Fault

\* Tasks make any call.
Next == Entry \/ \E s \in Tid : Reply(s)

\* Tasks reply only to senders they have received from, and once.  The servers of
\* the default build do; of those outside it track_server does not (Trains).
ServerNext == Entry \/ (pid # 0 /\ \E s \in owed[pid] : Reply(s))

Spec == Init /\ [][Next]_vars

ServerSpec == Init /\ [][ServerNext]_vars

-----------------------------------------------------------------------------
(* Properties.                                                             *)

\* Live tasks that are neither running, nor ready, nor blocked: nothing will
\* run them again before the heap runs empty.
Orphans == live \ (Ready(heap) \cup blocked \cup {pid})

\* A task is in one place: the running task is live and neither queued nor
\* blocked, a heap entry is a live task that is not blocked, queued once, and
\* a blocked task is live.  (scrSchedule, block and unblock_ind each update
\* one list and trust their caller for the others.)
OnePlace ==
  /\ pid # 0 => pid \in live \ (blocked \cup Ready(heap))
  /\ \A e \in heap : e[2] = 0 /\ e[1] \in live \ blocked
  /\ blocked \subseteq live

\* The blocked tasks are exactly those that one of the three wait records
\* names (asleep in Receive, in Send, or in one event's pid_ls), and no task is
\* in two of them: no wake-up can hit a task that sleeps on something else.
OneReasonToSleep ==
  /\ blocked = waitingSend \cup waitingReply \cup UNION {pidLs[e] : e \in Events}
  /\ waitingSend \cap waitingReply = {}
  /\ \A e \in Events : pidLs[e] \cap (waitingSend \cup waitingReply) = {}
  /\ \A e, f \in Events : e # f => pidLs[e] \cap pidLs[f] = {}

\* No task sleeps on an event while one is recorded: ExceptionASYNC and
\* AwaitEvent between them never leave a notifier asleep next to its event.
NoMissedEvent == \A e \in Events : pidLs[e] # {} => eventqLen[e] = 0

\* The kernel parks only when every live task is blocked: Schedule's rescue
\* finds the tasks that lost their heap entry before it gives up.
ParksOnlyWhenAllBlocked == pid = 0 => live = blocked /\ heap = {}

\* No system call and no device interrupt takes a live task off every list,
\* neither its caller nor one it wakes; what is lost, a spurious interrupt or
\* a fault has lost.
Handled == Call \/ \E s \in Tid : Reply(s)

NoCallLosesATask == [][Orphans' \subseteq Orphans \/ ~ Handled]_vars

\* A message waits in a ring only while its sender is blocked in that Send
\* (recieve_helper copies out of the sender's buffer through a raw pointer),
\* and no sender has two messages queued.
BuffersPinned ==
  \A t \in live : \A i \in 1 .. Len(inbox[t]) :
    /\ inbox[t][i] \in waitingReply
    /\ \A u \in live : \A j \in 1 .. Len(inbox[u]) :
         inbox[t][i] = inbox[u][j] => t = u /\ i = j

\* A task does not sleep in Receive while its ring holds a message.
NoMailWhileAsleep == \A t \in waitingSend : inbox[t] = <<>>

\* The live task whose ring holds s's message, or which has received it and
\* not replied.
QueuedAt(s) == {t \in live : \E i \in 1 .. Len(inbox[t]) : inbox[t][i] = s}
HeldBy(s)   == {t \in live : s \in owed[t]}

\* The rings, wait flags and history, read as the state of Rendezvous.
Hands ==
  [s \in Tid |->
     CASE s \notin waitingReply -> <<"free">>
       [] s \in waitingReply /\ QueuedAt(s) # {} -> <<"queued", CHOOSE t \in QueuedAt(s) : TRUE>>
       [] s \in waitingReply /\ QueuedAt(s) = {} /\ HeldBy(s) # {} ->
            <<"held", CHOOSE t \in HeldBy(s) : TRUE>>
       [] OTHER -> <<"lost">>]

Promise == INSTANCE Rendezvous WITH Tasks <- Tid, hands <- Hands

\* ServerSpec implements Rendezvous: a sender is released only by the task
\* that received its message, and loses its server only by that task's Exit.
ImplementsRendezvous == Promise!Spec

\* Devices keep raising the enabled interrupts, and a core that has something
\* to do does it.
FairSpec == ServerSpec /\ WF_vars(ServerNext) /\ \A e \in Enabled : WF_vars(Interrupt(e, 0))

\* A live task that was lost from the heap gets back on a list.
OrphansAreRescued == \A t \in Tid : t \in Orphans ~> t \notin Orphans

=============================================================================
