------------------------------- MODULE Clock -------------------------------
(***************************************************************************)
(* The clock: a timer interrupt every 10 ms, a notifier task that awaits   *)
(* it and sends an empty message for each, and a server that counts        *)
(* messages in ticks and replies to a delayed client once its wake tick    *)
(* has come.  Notifier and server find each other through the name server; *)
(* both start at the same priority and an interrupt may preempt either, so *)
(* the order of their first steps is open.                                 *)
(*                                                                         *)
(* The server is one step per message: it handles it without waiting, and  *)
(* what clients and the notifier send meanwhile stays in its queue.  Its   *)
(* command buffer keeps the last client's command when a message is empty. *)
(* (So does num, which is not cleared and points at its words.)            *)
(***************************************************************************)
EXTENDS Names, Sequences, FiniteSets

CONSTANTS
  Notifier, Server,   \* their task ids
  Clients,            \* tasks that call Time, Delay and DelayUntil
  Delays,             \* arguments of Delay
  Untils,             \* arguments of DelayUntil
  LastCall,           \* bound: no client calls after this tick
  LastTick            \* bound: no timer interrupt after this tick

ASSUME ClockAssumption ==
  /\ {Notifier, Server} \cup Clients \subseteq Tasks
  /\ Notifier # Server /\ {Notifier, Server} \cap Clients = {}
  /\ Delays \subseteq Int /\ Untils \subseteq Int
  /\ LastCall \in Nat /\ LastTick \in Nat
  /\ NoName \notin {"clock_notifier", "clock_server"}

VARIABLES
  nAt,       \* where the notifier is
  sAt,       \* where the server is
  not_tid,   \* the server's idea of the notifier's task id
  ticks,     \* its count
  waketicks, \* wake tick of each task, -1 for none
  command,   \* what its buffer holds: the last command, "junk" before the first
  inbox,     \* the messages sent to it, oldest first
  asked,     \* history: the earliest tick each waiting client may come back at
  woke       \* history: the tick each client was last given

clockVars == <<pid_names, nAt, sAt, not_tid, ticks, waketicks, command, inbox, asked, woke>>

Sleepers == Clients \cup {Notifier}

Empty == [op |-> "empty", n |-> 0]
Junk  == [op |-> "junk", n |-> 0]
Requests ==
  [op : {"Time"}, n : {0}] \cup [op : {"Delay"}, n : Delays] \cup [op : {"DelayUntil"}, n : Untils]

Message(t, m) == [from |-> t, msg |-> m]

ClockInit ==
  /\ NamesInit
  /\ nAt = "register" /\ sAt = "register" /\ not_tid = -1
  /\ ticks = 0
  /\ waketicks = [t \in Sleepers |-> -1]
  /\ command = Junk
  /\ inbox = <<>>
  /\ asked = [c \in Clients |-> -1]
  /\ woke = [c \in Clients |-> -1]

-----------------------------------------------------------------------------
(* The notifier.                                                           *)

NotifierRegisters ==
  /\ nAt = "register" /\ nAt' = "find"
  /\ RegisterAs(Notifier, "clock_notifier")
  /\ UNCHANGED <<sAt, not_tid, ticks, waketicks, command, inbox, asked, woke>>

\* It asks for the server until there is one, then awaits the timer.
NotifierFinds ==
  /\ nAt = "find" /\ WhoIs("clock_server") # -1 /\ nAt' = "await"
  /\ UNCHANGED <<pid_names, sAt, not_tid, ticks, waketicks, command, inbox, asked, woke>>

\* The timer interrupt.  Only a waiting notifier sees it: clock events are not
\* queued.
TimerInterrupt ==
  /\ nAt = "await" /\ ticks < LastTick
  /\ nAt' = "send"
  /\ UNCHANGED <<pid_names, sAt, not_tid, ticks, waketicks, command, inbox, asked, woke>>

NotifierSends ==
  /\ nAt = "send" /\ nAt' = "sent"
  /\ inbox' = Append(inbox, Message(Notifier, Empty))
  /\ UNCHANGED <<pid_names, sAt, not_tid, ticks, waketicks, command, asked, woke>>

-----------------------------------------------------------------------------
(* The clients.                                                            *)

\* Mutant of Parsed: the sign is kept.
ParsedSigned(n) == n

\* atoi_64 drops a leading minus sign, so a negative argument counts as positive.
Parsed(n) == IF n < 0 THEN -n ELSE n

\* The tick a request asks for, were it handled at tick now.
WakeTick(m, now) ==
  CASE m.op = "Delay"      -> now + Parsed(m.n)
    [] m.op = "DelayUntil" -> Parsed(m.n)
    [] OTHER               -> now

Call(c, m) ==
  /\ sAt # "register" /\ ticks <= LastCall
  /\ asked[c] = -1
  /\ asked' = [asked EXCEPT ![c] = WakeTick(m, ticks)]
  /\ inbox' = Append(inbox, Message(c, m))
  /\ UNCHANGED <<pid_names, nAt, sAt, not_tid, ticks, waketicks, command, woke>>

-----------------------------------------------------------------------------
(* The server.                                                             *)

ServerRegisters ==
  /\ sAt = "register" /\ sAt' = "look"
  /\ RegisterAs(Server, "clock_server")
  /\ UNCHANGED <<nAt, not_tid, ticks, waketicks, command, inbox, asked, woke>>

\* It asks for the notifier once.
ServerLooks ==
  /\ sAt = "look" /\ sAt' = "loop"
  /\ not_tid' = WhoIs("clock_notifier")
  /\ UNCHANGED <<pid_names, nAt, ticks, waketicks, command, inbox, asked, woke>>

\* Mutant of Due: one tick too early.
DueEarly == {t \in Sleepers : waketicks[t] # -1 /\ waketicks[t] <= ticks + 1}

\* Mutant of Due: the task of the highest id is forgotten.
DueButLast ==
  {t \in Sleepers : /\ waketicks[t] # -1 /\ waketicks[t] <= ticks
                    /\ \E u \in Sleepers : u > t}

\* Who is woken before the message is looked at.
Due == {t \in Sleepers : waketicks[t] # -1 /\ waketicks[t] <= ticks}

\* Mutant of Slept: the wake tick of a woken task is not cleared.
SleptKeeps == waketicks

\* The wake ticks of those who sleep on.
Slept == [t \in Sleepers |-> IF t \in Due THEN -1 ELSE waketicks[t]]

\* The command the server acts on: the message, or what the buffer still holds.
Heard(m) == IF m = Empty THEN command ELSE m

\* Replies with the current tick to the tasks of S.  The notifier goes back to
\* AwaitEvent whenever it is replied to.
ReplyTicks(S) ==
  /\ woke'  = [c \in Clients |-> IF c \in S THEN ticks ELSE woke[c]]
  /\ asked' = [c \in Clients |-> IF c \in S THEN -1 ELSE asked[c]]
  /\ nAt'   = IF Notifier \in S THEN "await" ELSE nAt

\* The next message: wake who is due, then a tick of the notifier, or a command.
\* Every message but none counts a tick.
Serve ==
  /\ sAt = "loop" /\ inbox # <<>>
  /\ inbox' = Tail(inbox)
  /\ ticks' = ticks + 1
  /\ LET from  == Head(inbox).from
         heard == Heard(Head(inbox).msg)
     IN \/ /\ from = not_tid
           /\ ReplyTicks(Due \cup {from})
           /\ waketicks' = Slept /\ UNCHANGED command
        \/ /\ from # not_tid /\ command' = heard
           /\ \/ /\ heard.op = "Time"
                 /\ ReplyTicks(Due \cup {from}) /\ waketicks' = Slept
              \/ /\ heard.op \in {"Delay", "DelayUntil"}
                 /\ ReplyTicks(Due)
                 /\ waketicks' = [Slept EXCEPT ![from] = WakeTick(heard, ticks)]
              \/ /\ heard.op = "junk"
                 /\ ReplyTicks(Due) /\ waketicks' = Slept
  /\ UNCHANGED <<pid_names, sAt, not_tid>>

-----------------------------------------------------------------------------
NotifierStep == NotifierRegisters \/ NotifierFinds \/ NotifierSends
ServerStep   == ServerRegisters \/ ServerLooks \/ Serve

ClockNext ==
  \/ NotifierStep \/ TimerInterrupt \/ ServerStep
  \/ \E c \in Clients, m \in Requests : Call(c, m)

ClockSpec == ClockInit /\ [][ClockNext]_clockVars

\* The timer is periodic and the two tasks have the highest priority.
ClockFairness ==
  /\ WF_clockVars(NotifierStep) /\ WF_clockVars(ServerStep)
  /\ WF_clockVars(TimerInterrupt)

-----------------------------------------------------------------------------
(* Properties.                                                             *)

ClockTypeOK ==
  /\ pid_names \in [Tasks -> {NoName, "clock_notifier", "clock_server"}]
  /\ nAt \in {"register", "find", "await", "send", "sent"}
  /\ sAt \in {"register", "look", "loop"}
  /\ not_tid \in {-1, Notifier}
  /\ ticks \in Nat
  /\ waketicks \in [Sleepers -> Nat \cup {-1}]
  /\ command \in Requests \cup {Junk}
  /\ inbox \in Seq([from : Sleepers, msg : Requests \cup {Empty}])
  /\ asked \in [Clients -> Nat \cup {-1}]
  /\ woke \in [Clients -> Nat \cup {-1}]

\* No call comes back before its time: the tick a client is given is no earlier
\* than the one it asked for, counted from its call, however many messages,
\* other sleepers and repeated commands lie between.
NoDelayEndsEarly ==
  [][\A c \in Clients : asked[c] # -1 /\ asked'[c] = -1 => woke'[c] >= asked[c]]_clockVars

\* Each task waits for one thing: its message lies in the queue once, or it has
\* a wake tick, and only while it is inside a call; so no reply reaches a task
\* that did not ask.
Pending(t) == Cardinality({i \in DOMAIN inbox : inbox[i].from = t})

OnceAskedOnceWaiting ==
  \A c \in Clients :
    Pending(c) + (IF waketicks[c] # -1 THEN 1 ELSE 0) = IF asked[c] # -1 THEN 1 ELSE 0

\* Once the server knows the notifier, every call comes back.
CallsComeBack ==
  \A c \in Clients : (asked[c] # -1 /\ not_tid = Notifier) ~> asked[c] = -1

=============================================================================
