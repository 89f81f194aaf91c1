# Verification of MekkanaOS

TLA+ models, TLC runs and TLAPS proofs for the microkernel under `src/` (paths
below are relative to `src/src/`): a message-passing kernel in the style of
CS 452 for a four-core AArch64 board, one identical kernel instance per core,
with spinlock-protected mailboxes between cores.

Nothing here executes the C code. A run or a proof speaks of the module, and
`PROJECT.json` ("map") names, for every definition, the lines it translates.

## Inventory of the system

| Component | State | Operations | Interacts through |
|---|---|---|---|
| Scheduler, task slots (`common/kernel/sched_stubs.c`, `k1/syscall.c`) | `PROCS`, `READY_HEAP`, `BLOCKED_LIST`, `PID`, one bank per core | Create, Exit, Yield, Schedule with its rescue | every kernel entry ends in `Schedule()` |
| Send / Receive / Reply (`common/kernel/ipc_*.c`) | ring `message_recieved`, `waiting_send`, `waiting_reply` | the three calls, with their errors | copies between the buffers of two tasks |
| Interrupts, AwaitEvent (`k1/syscall.c`, `common/gic.c`) | `pid_ls`, `event_q` per interrupt id | `ExceptionASYNC`, `AwaitEvent` | wakes notifier tasks |
| Spinlock (`common/smp/spinlock.c`) | a lock word, the cores' monitors and event registers | lock, unlock | mailboxes |
| Mailboxes, hub, gateways (`common/smp/mailbox*.c`, `k4/servers/interprocess_*`) | one slot per core, EMPTY or READY | CoreSend, forward, try-receive | shared memory, inter-processor interrupts, then a local Send |
| Boot (`common/kmain.c`, `common/smp/smp*.c`, `k0/`) | boot flag, spin table | create the first tasks, release the cores | |
| Name server, clock server and notifier (`k2/servers`, `k3/servers`) | table of names; tick count, `waketicks` | RegisterAs / WhoIs; Time / Delay / DelayUntil | Send / Receive / Reply, clock event |
| Console server, io_notifier (`k4/servers/`) | queues of characters and of readers, observers | getc, peek, putc, observe | UART event, Send |
| Shell and display (`k4/servers/shell`, `display`) | command line; screen and cursor | poll, read, edit; putc, puts | calls to console, display, link |
| LAN link server and hub program (`k4/servers/rotos_link`, `tools/rotos_link_hub.py`) | current client, deadline, line buffer; peers, one thread each | LinkSend, lines from the hub; HELLO, PING, PEERS, MSG, BROADCAST | serial line, TCP |
| Game server (`k2/servers/gameserver`) | games with two seats and two moves | signup, quit, play, shutdown | Send / Receive / Reply |
| Marklin worker, track server, command tasks (`tc1/`, not in the default build) | last reading of the sensors; speeds, switches, who waits for a sensor | set a train or switch, read, await a sensor | Send / Receive / Reply, the track |
| Route search (`tc1/goto.c`, `data/track_data`) | `distance`, `prev`, queue; the two layouts | find a route, set its switches | the worker |
| Allocator (`k1/malloc.c`, no caller), drivers | | | |

What makes the core hard: a kernel entry may come between any two instructions
of a task; the scheduler keeps a task's position in three places (heap, blocked
list, wait records) that only agree if every handler updates all of them; the
cross-core path mixes shared memory, interrupts and local messages, each with
its own error return. Above the kernel every server is sequential, but its
clients sleep in it, and who is replied to when is the server's own book-keeping
(`waketicks`, `client`, `await_list`, the seats of a game): a reply too many, too
few or to the wrong task is not noticed by the kernel. The hub program is the
one place with threads and locks. `PROJECT.json` ("hazards") lists these places
by line. It leaves out two that need hardware to happen and that no model here
reaches: `Begin` uses one kernel stack on all cores (`k0/asm.S:13`), and the
gateway sends a length it has not read (`interprocess_gateway.c:38`).

## Modules

| Module | Contents |
|---|---|
| `Kernel` | one core's kernel: scheduler, Send / Receive / Reply, events, interrupts |
| `Rendezvous` | what Send / Receive / Reply promise, as an abstract specification |
| `KernelProofs` | the kernel's inductive invariant and theorems |
| `MCKernel` | boot states and a view for TLC |
| `ReadyHeap` | the ready heap, exchange by exchange |
| `Spinlock` | the lock, instruction by instruction |
| `MCPrimitives`, `PrimitivesProofs` | lock and heap side by side, for TLC; theorems about both |
| `Mailbox`, `MCMailbox`, `MailboxProofs` | cross-core messages from CoreSend to the delivering Send; theorems |
| `Names`, `Clock` | the name server; the clock server, its notifier and its clients |
| `Console` | a character's way from the UART to the command line and the screen |
| `Link` | the LAN link server, its notifier and its clients |
| `Hub` | the hub program, thread by thread |
| `MCLink` | `Link` and `Hub` joined by the serial line |
| `LanProofs`, `ServicesProofs` | theorems about hub and link server; about clock, console and the four side by side |
| `MCServices` | clock, console, link and hub side by side, for TLC |
| `Track`, `TrackA`, `TrackB` | what a node of the track is; the two layouts, node by node |
| `Routes`, `RoutesProofs` | the route search, the walk back and the switches set for it; their theorems |
| `Trains`, `TrainsProofs` | Marklin worker, track server, reader and the command tasks; theorems |
| `Game` | the game server and its players |
| `MCApplications` | game, trains and routes side by side, for TLC |
| `ApplicationsProofs` | theorems about the game server, and about the three side by side |

### Kernel

A kernel entry runs with interrupts masked and ends in `Schedule()`, so one
action is one entry: the handler of the system call or interrupt, and the
dispatch of the next task. The bank of a core is touched by no other core.

| State | Code |
|---|---|
| `live`, `prio` | `PROCS[].pcpointer`, `.priority` |
| `pid` | `PID`, 0 while parked in `wfi_unmasked()` |
| `heap` | `READY_HEAP`, as entries <<task, copy>>: a task queued twice has copies 0 and 1 |
| `blocked` | `BLOCKED_LIST[].pid # 0` |
| `waitingSend`, `waitingReply`, `inbox` | the flags, and the ring as the sequence of its senders |
| `pidLs`, `eventqLen` | `AWAIT_INTERRUPT[]`, with the values of `event_q` left out |
| `owed` | history: who has received whose message and not replied |

Left open, so that the properties hold for every choice the code may make: the
order of equal priorities (`ReadyHeap` has it), which task is dropped by a full
heap, and what the stale `BLOCKED_LIST` priority of a task that is not blocked
makes `unblock_ind` do. `Pick` takes it from `ReadyHeap` that the heap yields a
task of highest priority, and no property of `Kernel` is about that. `Call` has
the system calls 0 to 12; case 13, CoreSend (`syscall.c:290-299`), is in
`Mailbox`. Three facts of the code shape the model:

- `checkActiveInterrupt` reads the enable register (`gic.c`: `ISACTIVER` is
  defined over `ISENABLER`), hence the constant `Enabled`;
- `wfi_unmasked` clears the SError mask, so a parked core takes no interrupt;
- a spurious interrupt id, and an exception other than SVC, return without
  putting the running task back on the heap.

`Next` lets tasks make any call; `ServerNext` lets them reply only to tasks they
have received from, and once, as the servers of the default build do, and
`ServerSpec` is the specification the refinement is about. The track server of
`tc1/`, outside the default build, does not: it replies twice to one question
(`Trains`). `Hands` maps the rings, flags and
history to `Rendezvous`: a client's request is queued at one server, then held
by it until that server replies, and is lost only by that server's exit.

Interrupt handlers take one item, or a burst (`extra`), from a device fifo.

### ReadyHeap

The array of `sched_stubs.c:23-119`, with one action per exchange: a call of
`_bubbleUp_state_heap` or `bubbleDown_state_heap` is a step, so that the
properties see the array at rest and the invariant of the proof sees it between
two exchanges. `insertKey_state_heap` stamps an entry with the timer's high word
and its low word, in two reads; the kernel runs with interrupts masked, but the
timer runs on, and its low word may wrap in between. `came`, what the timer
showed when the stamp was complete, is history. Left out are `compare_state`'s
tests for the stamp `(uint64_t)-1`, which `sched_init` gives to unused cells and no
entry of the heap has.

`RightOneIsTaken` says that the root is of the highest priority, and that among
equals the one that came first is there, unless the root's stamp is one wrap too
old: a stamp torn by a wrap sends its entry ahead of all others of its priority,
once, which is what the code does.

### Spinlock

One action per instruction. The exclusive monitors are cleared by another
core's store and by an exception return, and a cleared monitor sets the event
register for `WFE`, as the architecture defines; those parts are external to the
source. The C code's `cbnz` after a failed `stxr` repeats the `stxr`, and so
does `Stxr`.

### Mailbox

Per core one task that calls `CoreSend` and the server that empties the core's
mailbox. They run with interrupts unmasked, so their steps interleave, also
inside a critical section; `LowApps` are the cores whose sender has a lower
priority than the server and runs only while the server sleeps. The lock is
atomic here; `Spinlock` is why mutual exclusion may be assumed. Kernel entries
(AwaitEvent, Send, the interrupt) are single steps, as in `Kernel`.

The module takes the C code at its word that a task can read its core id.
`smp_get_core_id` reads an EL1 register, and tasks run at EL0 (`pstate = 0`): on
the hardware that instruction is undefined there, and what follows is `Kernel`'s
`Fault`. No test of the repository sends a message between cores.

### Clock and Names

A request to the name server is one step of its caller, who sleeps meanwhile.
The clock server's step is one message: wake who is due, then a tick or a
command. `inbox` is the ring of its task. Three facts of the code shape it: every
message counts a tick, not only the notifier's; the server asks for its notifier
once, and if that had not registered yet (both have priority 0, and an interrupt
may preempt either) its empty messages are taken for the command that still lies
in the buffer; and `atoi_64` drops a minus sign. `asked` and `woke` are history.

### Console

`event_q` and `console_interrupt_list` are rings with the code's arithmetic, so
a ring that is overrun repeats and loses what the code repeats and loses;
`overrun` remembers that it happened. `burst` remembers which interrupt took a
character. A character is its position in `text`, and `text` says what kind it
is: a letter, a line end, a backspace, a NUL, or a byte above 127, which the
shell's `ConsolePoll(...) < 0` takes for "nothing there". The shell runs only
while server and notifier are blocked (`ShellRuns`): they have priority 0. A call
to the display is part of the shell's step, as it is its only client.

Both tasks register at boot, in any order. io_notifier drops what it gets before
it finds a console server (`missed`). The server looks io_notifier up before each
Receive and replies to it only if that look-up found it (`sees`): where io_notifier
registered after the look-up, its first message is served and not replied to, and
it sleeps for ever.

The screen is `display_buffer`, where `server_puts` gives every byte but line end,
carriage return and backspace a cell. An escape byte is one such cell; what the
terminal makes of the sequence it starts is not modelled. A NUL has no cell, as
`DisplayPuts` prints an empty string, yet the shell keeps it in the command:
`silent` remembers it until the next prompt.

### Link and Hub

A line from the hub comes in two pieces, so that requests and timeouts can fall
into the middle of it. The second piece may be the newline alone (`bare`), when
the notifier's read stopped just before it. `TimePasses` lets the deadlines that
are set expire, at any time. `Ended` is the newline: the line goes to the waiting
client, whatever it says, or to the screen. `deliver_inbound_line` prints no empty
line: where a request or a timeout emptied the buffer (`cut`) and only the newline
is left, the line is neither replied nor printed (`vanished`). The hub has one thread per connection; a step is one use of the table
of names or one write. A write to a connection that its thread has closed
raises, and the exception leads through `finally`. Two endpoints share a name,
as a system that was restarted does. `MCLink` ties `outgoing` to what the hub's
thread reads and `down` to what comes in.

### Routes

`distance` and `prev` are arrays of 6 rows of 144, and the code indexes them with
numbers up to 156: `Cell` is the flat address, so two nodes share a cell exactly
where they do in the program: all ENTER and EXIT nodes have number 0 and share a
cell per type, and the branches 153 to 156 share those of the merges 9 to 12. The
layouts are the assignments of `track_data.c`. The properties of passing runs are
about the layouts as they are numbered: `ShortestOverOwnCells` and
`SwitchesLieForRoute` say what is true wherever the nodes concerned share their
cell with nobody (`Own`), which is all but those, and `NoNodeTwice` needs no such
condition. `path_switch` sets switches and turns no train round; the sensors at
which a train would have to be turned (`goto.c:226`, under `if (0)`) are left out.

### Trains

A task is the calls it has yet to make; a reply wakes it out of the call it is
in, whoever sends it (`Answered`), as `reply_helper` does. Worker and track server
take a message each, the worker sleeping while it tells the track server, and
while the Marklin console server has not answered its Putc or Getc (`putc`,
`sent`, `getc`). That answer may never come: the server gives it after events of
the Marklin UART (`UART2_MARKLIN_server.c:61-76,131-162`), and `io_notifier.c:24`
forwards those of the console only. So `Trains` assumes no fairness and claims
nothing about commands coming back; its properties are of whatever happens if the
answers do come. The reader reads for ever. The tasks that `tc1/train_control.c` and `goto.c` create
per command run in a slot that is used again.

### Game

One step per request; a player sleeps in `play` until there is a verdict. A word
that is no move falls through all branches of the server and is never answered:
its sender sleeps (`unheard`) until a shutdown.

## Runs

| Run | Bounds | Shows |
|---|---|---|
| `kernel_any` | 3 slots, ring of 2, one recorded and one disabled event, one extra item | types; `OnePlace`, `OneReasonToSleep`, `NoMissedEvent`, `ParksOnlyWhenAllBlocked`, `NoCallLosesATask`, for tasks that make any call |
| `kernel_server` | 4 slots, ring of 5, a clock | `BuffersPinned`, `NoMailWhileAsleep`, refinement of `Rendezvous` |
| `kernel_orphan` | 3 slots, no Create | violation of `OrphansAreRescued` |
| `primitives` | 4 cores, as built; a heap of 5 entries of 2 priorities, a low word of 3 and a timer that stops at 4 | types, `MutualExclusion`, `NoSleeperForgotten` (lock); `RightOneIsTaken`, `EntriesKept` (heap) |
| `spinlock_stuck` | 2 cores | violation of `FreeLockIsTaken` |
| `mailbox` | hub and 2 spokes, 2 messages from one, 1 from each other | types, `OneTokenPerMessage`, `DeliveredInOrder`, `HeldInside` |
| `mailbox_drop` | the same | violation of `NothingDropped` |
| `mailbox_stuck` | one message each | violation of `HubGetsLock` |
| `services` | the four services, below | types; `OnceAskedOnceWaiting`, `NoDelayEndsEarly`, `CallsComeBack` (clock); `NothingLostOrRepeated`, `BurstsInOrder`, `ScreenShowsCommand`, `CharactersArrive` (console); `OneAnswerPerCall`, `EveryLineHandedOn`, `LinkCallsReturn` (link); `TableIsTrue`, `LinesAnsweredInOrder` (hub) |
| `link_answer` | one client, one call, two connections | violation of `PingGetsPong` |
| `applications` | the three programs, below | types; `StoredMovesAreSleepers`, `VerdictsAgree` (game); `SpeedsAgree`, `ReportsComplete`, `AnsweredByCallee` (trains); `NoNodeTwice`, `ShortestOverOwnCells`, `SwitchesLieForRoute` (routes) |
| `routes_aliased` | layout a, from A1 to D1 | violation of `PathfindIsShortest` |

`primitives`, `services` and `applications` put several parts into one run. The parts share no
state: `part`, chosen in the first state, says which one runs, the others keep
theirs, and each part's fairness is its own. A property of a part is true of the
others, which stand still.

Why the bounds are enough to be interesting:

- three slots hold a client, a server and a third party (a second client, or an
  idle task, or a child that reuses a slot); a ring of two is filled by two
  senders, so in `kernel_any` a full ring, which `LooksEmpty` takes for an empty
  one, does occur. It is one reason why the properties about messages belong to
  `kernel_server`, whose ring is larger than the number of tasks, as in the
  build (255 and 20);
- four slots in `kernel_server` allow two servers, a client and a new task;
- `EventBound` stops the devices once that many events are recorded, which is
  the only unbounded counter of `Kernel`; `MaxExtra` bounds a burst;
- two messages from a spoke, one from each other core, fill a mailbox while
  another message is in the hub's hands, and two routes lead to each spoke.
  `MaxPosts` bounds the numbers of messages.
- heap: five entries fill three rows of the tree, so that an entry sinks two
  rows and has one or two children; as in the
  build, the heap has a cell for every task. The timer wraps once, which
  tears the stamps of those inserted then;
- clock: two clients besides the notifier, so one can be asleep while the other
  asks; delays of 2 and -2, an absolute tick that may have passed, boot in any
  order. No call after tick 1, no interrupt after tick 8: all calls can end;
- console: `event_q` of 3 and list of 2, so both can be overrun by three
  characters and an interrupt of the other UART, and a command line of 2 that
  fills; four texts, with a line end last and in the middle, with a backspace and a
  byte above 127, and with a NUL that is erased; io_notifier and console server
  boot in any order;
- link: two callers, two calls, two lines in four pieces, up to three in one
  message: a message can end two lines, and a line can lie in two messages;
- hub: three connections, the first and third of one name, two lines besides the
  HELLOs, one connection lost: a connection can have two lines in flight, and two
  can write to each other; rejoin before and after the old connection ends, a
  write to a closed socket out of a loop and out of a `finally` clause;
- game: one game, three players, so that a seat is contested and taken over;
- trains: two command tasks, one train, one switch, two sensors, the last of a
  module's first byte and the first of its second, six
  commands that between them make every call. `Command` stops once the switch
  states were asked for, as each such question leaves a message behind for ever;
- routes: both layouts as they are numbered, and a track of two nodes; twelve
  starts and twelve ends, of each type of node, and among them switches that share
  cells. The layouts are not bounded.

`CHECK_DEADLOCK FALSE`: in `Kernel` a core whose tasks are all blocked parks for
ever; in `Mailbox` the senders stop at their bound. The run `primitives` checks
deadlock. `Observed` in the MC modules is a VIEW without variables that are dead
until they are written again.

### Fairness

Of the kernel's modules only the violations use it, and each run's
counterexample is a behaviour that satisfies it. `Kernel!FairSpec`: a core that can make a kernel entry makes one,
and enabled devices keep interrupting. `Spinlock!FairSpec`: a core executes its
instructions, and need not ask for the lock. `Mailbox!FairSpec`: scheduled tasks
run, interrupts are taken and receivers reply. The kernel promises a task no
more than that: priorities are strict, so none of these runs assumes that a
ready task of low priority gets the processor.

Above the kernel: notifiers and servers have priority 0 and are taken to run when
they can (`ClockFairness`, `ConsoleFairness`, `LinkFairness`), the timer keeps
ticking, a raised interrupt is taken, and a deadline that is set passes. The
shell runs while those are blocked; only the idle task is below it. Nothing is
asked of the keyboard, of the hub, or of the clients, which may stop calling.
The hub, the game, train control and the routes have no fairness: their properties
are of safety.

### What the violations say of the code

1. `rescue_orphaned_tasks` is reached only when the heap is empty, which the
   idle task prevents; a task dropped on a spurious interrupt or a fault is lost
   (`sched_stubs.c:243`, `syscall.c:81`, `syscall.c:194`).
2. The retry in `spinlock_lock` skips the load-exclusive (`spinlock.c:26`): two
   cores, each interrupted once between load and store, leave the lock free for
   ever.
3. The hub ignores a full destination (`interprocess_hub.c:55`).
4. The hub can wait for a lock whose holder it preempted (`mailbox.c:40`).
5. Nodes of the track share cells of the search's arrays, so a distance found is
   not always a distance (`goto.c:114`).
6. The hub says the roster twice to a system that joins, and the second one
   answers its first request (`rotos_link_hub.py:151`, `rotos_link.c:176`).

`PROJECT.json` ("findings") quotes the comments and tests these contradict.

Some properties of passing runs say how far a promise goes that the code does not
keep in full.

- `BurstsInOrder`: the first character of a burst may come last.
- `NothingLostOrRepeated`, `BurstsInOrder`: until a ring is overrun, and but for
  what io_notifier dropped before there was a console server.
- `CharactersArrive`: not behind a byte above 127, not after a ring was overrun, and
  not in the orders of boot in which io_notifier drops a character or gets no reply.
- `ScreenShowsCommand`: until a NUL is typed.
- `EveryLineHandedOn`: but for a line that was cut and of which only the newline came
  after the cut.
- `CallsComeBack` (clock): only where the server found its notifier at boot. In the
  other boots the run shows `OnceAskedOnceWaiting` and `NoDelayEndsEarly`.
- `AnsweredByCallee`: until somebody asks for the switch states, whose request has the
  number of another one and is replied to twice.
- `ShortestOverOwnCells`, `SwitchesLieForRoute`: for nodes with cells of their own.
- `EarlierIsTakenFirst`, a part of `RightOneIsTaken`: but for a torn stamp.

## Proofs

`KernelProofs` proves, for every number of slots, ring size, set of priorities
and events that `KernelAssumption` allows, that the five properties `kernel_any`
checks as invariants and its action property hold of `Spec`.

The inductive invariant is their conjunction

    IInv == TypeOK /\ OnePlace /\ OneReasonToSleep
            /\ NoMissedEvent /\ ParksOnlyWhenAllBlocked

and none can be left out easily: that a woken task fits on the heap needs
`OnePlace` (no duplicates, so at most NUMPROCS entries); that waking it cannot
duplicate it needs `OneReasonToSleep` (whoever a record names is blocked); that
in turn needs `OnePlace` to know that the caller was on no list before it went
to sleep. The argument goes

1. heap lemmas: without duplicates an `Enqueue` drops nothing (`EnqueueFits`,
   `UnblockFits`), from `FiniteSetTheorems`;
2. `ScheduleStep`: from such a heap `Schedule` re-establishes the places and the
   parking condition, and orphans nobody;
3. shapes of handlers: the caller stays ready (`RequeueStep`), is dropped
   (`DropStep`), goes to sleep (`SleepStep`), wakes others (`WakeStep`);
4. one lemma per call, `NextHolds`, and the theorems. `NoLoss` uses the orphan
   clause of 2: only the two dropping steps add an orphan.

`PrimitivesProofs` proves `MutualExclusion` and `NoSleeperForgotten` for any finite set of
cores. The invariant adds that a monitor at `stxr` is set only while the lock is
free: it is why repeating the `stxr` without a load is safe, if not live.

It also proves `RightOneIsTaken` and `EntriesKept` of the ready heap, for any capacity,
tasks, priorities and width of the low word, and by `PrimitivesAreParts` of the
specification the run checks. The invariant

    HeapInv == HeapTypeOK /\ Indices /\ Filled /\ Sorted /\ Around
               /\ EntriesKept /\ HandStamped /\ Stamped

says that the array is in order everywhere but at the cell a loop stands at
(`Sorted`), whose children are in order with its parent (`Around`): without the
second, an exchange might put a child above a grandparent it precedes. That the
root comes first is then induction over the cells, as a least cell that precedes the
root (`WellFoundedInduction`). A stamp is the time of coming or at least a wrap older
(`Stamped`), because its high word was read first.

`ServicesProofs` proves `OnceAskedOnceWaiting` and `NoDelayEndsEarly` of `ClockSpec` for
any tasks, clients, delays and bounds, `ClockAssumption` giving the client, notifier
and server different ids. Neither is inductive. The invariant says what a client's
one message in the queue is worth: that the client is in a call, has no wake tick,
and that handling the message later can only ask for a later tick (`WakeTickGrows`);
a wake tick is never before what was asked for. `ServeFacts` turns the cases of a
message into one statement of who is replied to, `TailFacts` is about the rest of the
queue. That no client is ever taken for the notifier needs the table of names in
the invariant.

`LanProofs` proves `TableIsTrue` of `HubSpec`, and of `LanSpec`, the hub joined to the
link server, for any connections and names and without the bounds of the run. The
invariant adds that an endpoint without a thread has no name, that the last to join
under a name has that name, and that a thread which has yet to leave the table has
no write pending: an exception ends a thread only before or after its `finally`
clause has taken it out of the table, never in between (`QuietStep`).

`LinesAnsweredInOrder` is proved from `AnswersInv`: of every connection, what is
written and the answer its thread still owes, if it does (`Owing`), are as many as
the lines taken that ask, and each suits its line (`Fits`). A thread's jobs hold one
answer at most and it is to that thread's own connection, so one job done, or all
dropped by an exception, moves one answer or none. That the roster is a list of jobs
at all needs the table to be finite, which is why the invariant has `IsFiniteSet(Roster)`.

`ApplicationsProofs` proves `StoredMovesAreSleepers` and `VerdictsAgree` of `GameSpec` for any set
of games and players, a player sitting on several seats included. The invariant adds
that a player has at most one stored move: without it a verdict on one seat would
wake a player whose other move is still stored. `FirstIsOne` (the first seat of some
seats is one of them) needs a least game, from `WellFoundedInduction`.

### The kernel's messages

The second half of `KernelProofs` proves, of `ServerSpec` and for any rings with more
slots than there are tasks (the build has 255 and 20), the two properties and the
refinement that `kernel_server` checks. With a smaller ring they are false: a full
ring looks empty, so a message in it wakes nobody, which `kernel_any` does reach.
The invariant is

    SInv == IInv /\ OneHolder /\ NoMailWhileAsleep

where `OneHolder` is about every slot, those of dead tasks too: who is queued or held
anywhere sleeps in Send, and is in one place, once. It gives the ring its bound
(`RingNeverFull`, from `FiniteSetTheorems`), `NoMailWhileAsleep` and `BuffersPinned`.
For the refinement `HandsFollow` reads `Hands` off `SInv`, `OtherEntries` sorts the
kernel entries into those that touch messages and those that do not, and there is
one lemma for each that does: Send queues, Receive holds, Reply frees, Exit loses.

### Mailboxes

`MailboxProofs` proves the types and the three properties of run `mailbox` for any
cores, priorities and numbers of messages. `HeldInside` is inductive given the types.
`OneTokenPerMessage` is an equation between a mailbox and the number of looks at it
that are coming, as signals, events, answers to come or servers about to look; every
step changes at most two of the numbers (`Balance`, `TokensStay`, `TokensMove`). It is
inductive only with what the messages say of themselves,

    MInv == TypeOK /\ AppsSend /\ MailRouted /\ OneTokenPerMessage

as a message for the core it comes from would not be taken. For the order, `At` puts
every message of a pair of cores at one of six places of its way, and `InOrder` says
that what is further was sent earlier. A step moves one message by one place
(`MoveOne`) into one that is empty, or loses it (`NoMove`); the numbering is the same
with the places of the hub left out, so a message for the hub needs no other proof.

### Console

`ServicesProofs` proves the types, `NothingLostOrRepeated`, `BurstsInOrder` and
`ScreenShowsCommand` of `ConsoleSpec` for any texts, rings and command line of any
length, from

    ConsoleInv == ConsoleShapes /\ Rings /\ Handshakes /\ Arranged /\ Screen

`Handshakes` says who waits for whom: a message in the server's queue is that of a
task asleep, the notifier has one at most, a reader that waits is the shell.
`Arranged` is about the way of a character as one sequence (`Way`): what the shell
read, the reply on its way, the server's list, the message, the notifier's hand,
`event_q`. Any two characters on it are in an order that `Ranks` allows, and together
they are those that left the UART. Most steps move one character between two
neighbouring places, and leave the way as it is (`WayMoves`, `WayBlanks`), since a
place that is empty is left out of it. Only the interrupt adds to it (`Enters`): the
FIFO's characters join behind all others, but the first, which `pid_ls` may take
past them, or which is recorded last. All this is said only while no ring was
overrun; then the rings' arithmetic is that of queues.

How much an interrupt records depends on the FIFO, so `PutAll` is written in closed
form and not as one `Put` after the other; that it is the same is an assumption of
`MCServices` that TLC evaluates over small rings (`PutAllPuts`), and no proof uses it.

### Link

`LanProofs` also proves `OneAnswerPerCall` and `EveryLineHandedOn` of the link server,
alone under lines from anywhere (`LinkSpec`) and so, by `LanLink`, joined to the hub:

    LinkInv == LinkShapes /\ CallsQueued /\ PiecesQueued

`CallsQueued` places every call once, `PiecesQueued` says that the pieces in the queue
are the last that were read, and counts the lines before them as handed on or
vanished, the vanished among those that were cut and had a bare newline. What a whole message does is `ScanOf`, a recursive
function over its pieces; `ScanRuns` steps through it by naming the set of states it
goes through, as a function's definition can be used only where its domain is known.

The types of its variables (`LinkTypes`) need one fact more, `LineStarted`: between two
messages the line buffer holds one piece at most, and only behind an odd number of
pieces, so that the next piece ends the line.

### Train control

`TrainsProofs` proves the types, `SpeedsAgree`, `ReportsComplete` and
`AnsweredByCallee` of `TrainsSpec` for any trains, switches, sensors, tasks and
commands, `CommandsAssumption` giving each command as a list of calls of the kinds
`tc1/train_control.c` makes. The invariant

    TrainsInv == /\ TrainsTypeOK /\ WorkerTells /\ SpeedsAgree /\ ReportsOnce
                 /\ ReportsComplete /\ JobInHand /\ CallersBusy /\ SleepersPlaced

has two halves. What the worker has done and not yet told is in one message at a
time (`WorkerTells`, `ReportsOnce`), or still in its hand with the last byte on its
way (`JobInHand`), which makes the agreements inductive. Until the
switch states are asked for, who sleeps in which call is found in the queue, the
hands or the await list of that server and nowhere else (`SleepersPlaced`), from
which `AnsweredByCallee` follows; after that it is not so, and the property ends.
The order in which a reading is reported exists because its changes are finite and
have ranks of their own (`CanBeOrdered`).

### Routes

`RoutesProofs` proves the three properties of `RoutesSpec` for any layouts that
`LayoutsAssumption` allows: nodes with a type, edges that lead to nodes, lengths that
are natural numbers.

    RoutesInv == /\ RoutesTypeOK /\ Stages /\ RouteFalls
                 /\ Searched /\ CommandsOfRoute /\ BranchesCommanded

`NoNodeTwice` needs no hypothesis about cells. Edges may have length 0 and nodes
share cells, so the distance alone does not fall along `prev`; the order of cells by
distance, and among equals by the time they were last reached, does (`Lower`,
`Downward`), and the walk back follows it (`RouteFalls`). `time` is no variable of
the module: the invariant says that one exists.

For `ShortestOverOwnCells` the search keeps two facts of nodes with cells of their
own, whatever the others share: the `prev` of such a node is a node with a way to it,
nearer by that way's length at least (`Stepped`), and such a node, once reached, is
queued or all ways on from it are taken into account (`Open`). With an empty queue
they are the property. Walk and commands keep that every branch passed has a command
to come or lies as the route needs it. That a later command does not undo an earlier
one needs that no two branches of a route have one number: they would share a cell,
and the walk passes no cell twice.

### Side by side

`PrimitivesAreParts`, `ServicesAreParts` and `ApplicationsAreParts` say that a behaviour
of `MCPrimitives`, `MCServices` or `MCApplications` is one of each of its parts, whose theorems therefore hold of the
specifications the runs check; their `TypeOK` is proved from the types of the parts.

### What is only model-checked

- liveness under fairness (`CharactersArrive`, `LinkCallsReturn`, `CallsComeBack`), out
  of the prover's reach;
- the violations, which are about liveness under fairness or are single
  counterexamples.

## Not modelled

- Message bytes and lengths, arguments out of range, the context switch,
  register-level behaviour of the devices, such as `clear_GICC_EOIR` ending an
  inter-processor interrupt without its source core; `mymalloc`, which nothing
  calls.
- Without a caller in the build: `spinlock_trylock`, Deregister, PUTC, the
  console's observers.
- Layout: escape sequences, scrolling, the formatting of numbers. That `str[5]` of
  Delay is too short for ticks past 9999 is a hazard no model of values shows.
- Of `tc1/`, which the Makefile does not build: INIT_TRACK (the layouts are
  constants of a run instead), speed measuring, `read_one_s88`, the lists of
  sensors and reversals that `parse_path` fills for no reader, and the Marklin
  console server, of which `Trains` has only that it answers some time or never. The
  queue of
  the search written past its 144 entries is an end of its own (`overrun`).
- The kernel demonstrations of `k1/` to `k4/` and the test programs, which are
  clients of what is modelled, and the host tools besides the hub.

## Plan

Done: all parts named above with their runs, and the proofs of every safety property
and action property that a passing run checks. Left: nothing that this prover reaches
among those; liveness stays with TLC. The parts under "Not modelled" would come next,
first the Marklin console server, under `Trains`.
