------------------------------ MODULE Console ------------------------------
(***************************************************************************)
(* The way of a typed character: the UART's FIFO, the interrupt that       *)
(* drains it and hands the first character to a waiting io_notifier and    *)
(* records the others, the notifier's Send to the console server, the      *)
(* server's list of unread characters, and the shell that polls, reads and *)
(* edits a command line on the screen of the display server.               *)
(*                                                                         *)
(* At boot io_notifier and the console server register, and the server     *)
(* looks the notifier up, before each message: it answers the message of a *)
(* notifier it had found, and no other.  Both start at the same priority   *)
(* and an interrupt may preempt either, so the order of these steps is     *)
(* open.                                                                   *)
(*                                                                         *)
(* A character is its position in text, so it keeps its identity on the   *)
(* way.  The shell is the only reader and the only client of the display   *)
(* in the build; a display call is part of the step that makes it.  The    *)
(* screen is display_buffer, in which every byte printed is a cell: what a *)
(* terminal makes of an escape sequence is left out.                       *)
(***************************************************************************)
EXTENDS Naturals, Sequences, FiniteSets, SequencesExt

CONSTANTS
  Texts,       \* what is typed: sequences of "CR", "BS", "NUL", "high" (a byte above 127), letters
  EventSlots,  \* entries of event_q: NUMPROCS
  ReadSlots,   \* entries of console_interrupt_list: QUEUELENGTH
  CmdMax,      \* CMD_MAX
  PromptLen,   \* cells of the prompt
  MaxOther     \* bound on interrupts of the other UART

ASSUME ConsoleAssumption ==
  /\ EventSlots \in Nat \ {0} /\ ReadSlots \in Nat \ {0} /\ CmdMax \in Nat \ {0}
  /\ PromptLen \in Nat \ {0} /\ MaxOther \in Nat /\ Texts \subseteq Seq(STRING)

VARIABLES
  registered, \* which of the two the name server knows
  uartAt,     \* where the console server is: it registers, looks, serves a message, looks...
  sees,       \* its last look found io_notifier
  missed,     \* history: characters io_notifier dropped, knowing of no console server
  text,       \* the kinds of the characters that are typed
  typed,      \* how many of them were typed so far
  fifo,       \* characters in the UART
  burst,      \* history: the interrupt that drained each character
  others,     \* interrupts of the other UART so far
  event_q,    \* recorded events
  notifier,   \* [at, ev]: where io_notifier is, and the event it holds
  uartInbox,      \* messages sent to the console server
  unread,     \* console_interrupt_list
  reader,     \* the shell's GETC waits in console_call_list
  shell,      \* [at, got]: where the shell is, and what it was given
  taken,      \* history: the characters the shell has read
  overrun,    \* history: a ring took more entries than it has
  typedLine,    \* the command line
  row, cursor, \* the display's row, from the prompt on, and its column
  silent      \* history: a NUL was typed since the prompt

bootVars  == <<registered, uartAt, sees, missed>>
shellVars == <<typedLine, row, cursor, silent>>
consoleVars == <<bootVars, text, typed, fifo, burst, others, event_q, notifier, uartInbox, unread, reader,
                 shell, taken, overrun, shellVars>>

OtherEvent == 0   \* an event of the other UART, which carries no console character

-----------------------------------------------------------------------------
(* The two rings: neither insertion asks whether there is room.            *)

Ring(slots) == [at |-> [i \in 0..slots - 1 |-> OtherEvent], begin |-> 0, size |-> 0]

Slots(r)    == Cardinality(DOMAIN r.at)
Put(r, x)   == [r EXCEPT !.at[(r.begin + r.size) % Slots(r)] = x, !.size = @ + 1]
\* Put, for one entry of s after the other: a slot keeps the last one put there.
PutAll(r, s) ==
  LET PutIn(k) == {i \in DOMAIN s : (r.begin + r.size + i - 1) % Slots(r) = k}
  IN [r EXCEPT !.at = [k \in DOMAIN r.at |-> IF PutIn(k) = {} THEN r.at[k] ELSE s[Max(PutIn(k))]],
               !.size = @ + Len(s)]
Oldest(r)   == r.at[r.begin]
Dropped(r)  == [r EXCEPT !.begin = (@ + 1) % Slots(r), !.size = @ - 1]
Overfull(r) == r.size > Slots(r)
Content(r)  == [i \in 1..r.size |-> r.at[(r.begin + i - 1) % Slots(r)]]

Prompt == [i \in 1..PromptLen |-> "prompt"]

ConsoleInit ==
  /\ registered = {} /\ uartAt = "register" /\ sees = FALSE /\ missed = {}
  /\ text \in Texts /\ typed = 0
  /\ fifo = <<>> /\ burst = [n \in DOMAIN text |-> 0] /\ others = 0
  /\ event_q = Ring(EventSlots)
  /\ notifier = [at |-> "register", ev |-> OtherEvent]
  /\ uartInbox = <<>>
  /\ unread = Ring(ReadSlots)
  /\ reader = FALSE
  /\ shell = [at |-> "poll", got |-> OtherEvent]
  /\ taken = <<>> /\ overrun = FALSE
  /\ typedLine = <<>> /\ row = Prompt /\ cursor = PromptLen /\ silent = FALSE

-----------------------------------------------------------------------------
(* The UART and its interrupt.                                             *)

Type ==
  /\ typed < Len(text) /\ typed' = typed + 1
  /\ fifo' = Append(fifo, typed')
  /\ UNCHANGED <<text, burst, others, event_q, notifier, uartInbox, unread, reader, shell, taken,
                 overrun, shellVars, bootVars>>

\* unblock_return, or else the event is recorded behind what is recorded already.
Hand(ev, recorded) ==
  /\ IF notifier.at = "waiting"
       THEN notifier' = [at |-> "woken", ev |-> ev] /\ event_q' = recorded
       ELSE UNCHANGED notifier /\ event_q' = Put(recorded, ev)
  /\ overrun' = (overrun \/ Overfull(event_q'))

\* Mutant of Drained: with a full FIFO the last character is left out.
DrainedShort == IF Len(fifo) > 2 THEN Front(Tail(fifo)) ELSE Tail(fifo)

\* Mutant of Drained: recorded newest first.
DrainedBackwards == Reverse(Tail(fifo))

\* What the interrupt reads behind the first character.
Drained == Tail(fifo)

\* The console branch: one character in return_val, the rest into event_q first.
UartInterrupt ==
  /\ fifo # <<>> /\ fifo' = <<>>
  /\ Hand(Head(fifo), PutAll(event_q, Drained))
  /\ LET this == 1 + Max(ToSet(burst))
     IN burst' = [n \in DOMAIN burst |-> IF n \in ToSet(fifo) THEN this ELSE burst[n]]
  /\ UNCHANGED <<text, typed, others, uartInbox, unread, reader, shell, taken, shellVars, bootVars>>

\* The Marklin and CTS branches, as far as the console is concerned.
OtherInterrupt ==
  /\ others < MaxOther /\ others' = others + 1
  /\ Hand(OtherEvent, event_q)
  /\ UNCHANGED <<text, typed, fifo, burst, uartInbox, unread, reader, shell, taken, shellVars, bootVars>>

-----------------------------------------------------------------------------
(* io_notifier.                                                            *)

IoNotifierRegisters ==
  /\ notifier.at = "register" /\ notifier' = [notifier EXCEPT !.at = "await"]
  /\ registered' = registered \cup {"io_notifier"}
  /\ UNCHANGED <<text, typed, fifo, burst, others, event_q, uartInbox, unread, reader, shell, taken,
                 overrun, shellVars, uartAt, sees, missed>>

\* AwaitEvent: a recorded event, or sleep.
IoNotifierAwaits ==
  /\ notifier.at = "await"
  /\ IF event_q.size > 0
       THEN /\ notifier' = [at |-> "woken", ev |-> Oldest(event_q)]
            /\ event_q' = Dropped(event_q)
       ELSE notifier' = [notifier EXCEPT !.at = "waiting"] /\ UNCHANGED event_q
  /\ UNCHANGED <<text, typed, fifo, burst, others, uartInbox, unread, reader, shell, taken, overrun, shellVars, bootVars>>

\* It sends console events, once it finds a console server; the others it drops.
IoNotifierSends ==
  /\ notifier.at = "woken"
  /\ IF notifier.ev # OtherEvent /\ "UART1_CONSOLE" \in registered
       THEN /\ notifier' = [at |-> "sent", ev |-> OtherEvent]
            /\ uartInbox' = Append(uartInbox, [type |-> "RX", ch |-> notifier.ev])
            /\ UNCHANGED missed
       ELSE /\ notifier' = [at |-> "await", ev |-> OtherEvent]
            /\ missed' = missed \cup ({notifier.ev} \ {OtherEvent})
            /\ UNCHANGED uartInbox
  /\ UNCHANGED <<text, typed, fifo, burst, others, event_q, unread, reader, shell, taken, overrun,
                 shellVars, registered, uartAt, sees>>

-----------------------------------------------------------------------------
(* The console server: it looks io_notifier up, then handles one message   *)
(* without waiting.                                                        *)

ConsoleRegisters ==
  /\ uartAt = "register" /\ uartAt' = "look"
  /\ registered' = registered \cup {"UART1_CONSOLE"}
  /\ UNCHANGED <<text, typed, fifo, burst, others, event_q, notifier, uartInbox, unread, reader,
                 shell, taken, overrun, shellVars, sees, missed>>

ConsoleLooks ==
  /\ uartAt = "look" /\ uartAt' = "serve"
  /\ sees' = ("io_notifier" \in registered)
  /\ UNCHANGED <<text, typed, fifo, burst, others, event_q, notifier, uartInbox, unread, reader,
                 shell, taken, overrun, shellVars, registered, missed>>

\* match_getc, on the list of characters and the waiting call.
Matched(chars, waits) ==
  IF waits /\ chars.size > 0
    THEN /\ unread' = Dropped(chars) /\ reader' = FALSE
         /\ shell' = [at |-> "got", got |-> Oldest(chars)]
    ELSE unread' = chars /\ reader' = waits /\ UNCHANGED shell

\* An io_notifier that had not registered at the last look is not replied to.
ServeRx ==
  /\ Head(uartInbox).type = "RX"
  /\ notifier' = IF sees THEN [notifier EXCEPT !.at = "await"] ELSE notifier
  /\ Matched(Put(unread, Head(uartInbox).ch), reader)
  /\ overrun' = (overrun \/ Overfull(Put(unread, Head(uartInbox).ch)))

ServeGetc ==
  /\ Head(uartInbox).type = "GETC"
  /\ Matched(unread, TRUE)
  /\ UNCHANGED <<notifier, overrun>>

\* Mutant of Peeked: off by one.
PeekedLate == unread.size > 1

\* The oldest unread character, or -1; a byte above 127 is a negative answer too.
Peeked == unread.size > 0 /\ text[Oldest(unread)] # "high"

ServePeek ==
  /\ Head(uartInbox).type = "PEEK"
  /\ shell' = [shell EXCEPT !.at = IF Peeked THEN "get" ELSE "poll"]
  /\ UNCHANGED <<notifier, unread, reader, overrun>>

ConsoleServes ==
  /\ uartAt = "serve" /\ uartAt' = "look"
  /\ uartInbox # <<>> /\ uartInbox' = Tail(uartInbox)
  /\ ServeRx \/ ServeGetc \/ ServePeek
  /\ UNCHANGED <<text, typed, fifo, burst, others, event_q, taken, shellVars, registered, sees, missed>>

-----------------------------------------------------------------------------
(* The shell.                                                              *)

\* The shell has a lower priority than io_notifier and the console server: it
\* runs while both are blocked.
ShellRuns == uartAt = "serve" /\ uartInbox = <<>> /\ notifier.at \in {"waiting", "sent"}

ShellPolls ==
  /\ ShellRuns /\ shell.at = "poll" /\ shell' = [shell EXCEPT !.at = "polled"]
  /\ uartInbox' = Append(uartInbox, [type |-> "PEEK", ch |-> OtherEvent])
  /\ UNCHANGED <<text, typed, fifo, burst, others, event_q, notifier, unread, reader, taken, overrun, shellVars, bootVars>>

ShellGets ==
  /\ ShellRuns /\ shell.at = "get" /\ shell' = [shell EXCEPT !.at = "reading"]
  /\ uartInbox' = Append(uartInbox, [type |-> "GETC", ch |-> OtherEvent])
  /\ UNCHANGED <<text, typed, fifo, burst, others, event_q, notifier, unread, reader, taken, overrun, shellVars, bootVars>>

\* server_puts of one printing character: it overwrites the cell at the cursor.
Printed(k) ==
  /\ row' = IF cursor < Len(row) THEN [row EXCEPT ![cursor + 1] = k] ELSE Append(row, k)
  /\ cursor' = cursor + 1

\* '\b', ' ', '\b': the cell before the cursor is blanked, in the first column
\* the one under it.
Erased ==
  /\ cursor' = IF cursor > 0 THEN cursor - 1 ELSE 0
  /\ row' = [row EXCEPT ![cursor' + 1] = " "]

\* The prompt printed on a row, new or with older text.
Prompted(old) == Prompt \o SubSeq(old, PromptLen + 1, Len(old))

\* A line end: the command is run, what it prints ends its line, and the prompt
\* is printed on a new row, or on the last one.
Enter ==
  /\ typedLine' = <<>> /\ silent' = FALSE
  /\ cursor' = PromptLen /\ \E old \in {<<>>, row} : row' = Prompted(old)

Backspace ==
  IF typedLine # <<>>
    THEN typedLine' = Front(typedLine) /\ Erased /\ UNCHANGED silent
    ELSE UNCHANGED shellVars

\* Of a NUL, DisplayPuts prints nothing.
Echoed(k) ==
  /\ silent' = (silent \/ k = "NUL")
  /\ IF k = "NUL" THEN UNCHANGED <<row, cursor>> ELSE Printed(k)

\* Mutant of Insert: a character beyond the end of the command is still echoed.
InsertEchoes(k) ==
  /\ typedLine' = IF Len(typedLine) < CmdMax - 1 THEN Append(typedLine, k) ELSE typedLine
  /\ Echoed(k)

Insert(k) ==
  IF Len(typedLine) < CmdMax - 1
    THEN typedLine' = Append(typedLine, k) /\ Echoed(k)
    ELSE UNCHANGED shellVars

ShellHandles ==
  /\ ShellRuns /\ shell.at = "got" /\ shell' = [at |-> "poll", got |-> OtherEvent]
  /\ taken' = Append(taken, shell.got)
  /\ LET k == text[shell.got]
     IN \/ k = "CR" /\ Enter
        \/ k = "BS" /\ Backspace
        \/ k \notin {"CR", "BS"} /\ Insert(k)
  /\ UNCHANGED <<text, typed, fifo, burst, others, event_q, notifier, uartInbox, unread, reader, overrun, bootVars>>

-----------------------------------------------------------------------------
IoNotifierMoves == IoNotifierRegisters \/ IoNotifierAwaits \/ IoNotifierSends
ConsoleMoves  == ConsoleRegisters \/ ConsoleLooks \/ ConsoleServes
ShellMoves    == ShellPolls \/ ShellGets \/ ShellHandles

ConsoleNext ==
  \/ Type \/ UartInterrupt \/ OtherInterrupt
  \/ IoNotifierMoves \/ ConsoleMoves \/ ShellMoves

ConsoleSpec == ConsoleInit /\ [][ConsoleNext]_consoleVars

\* The interrupt stays raised until it is taken; notifier and server have the
\* highest priority, and nothing below the shell but the idle task runs for ever.
ConsoleFairness ==
  /\ WF_consoleVars(UartInterrupt) /\ WF_consoleVars(IoNotifierMoves)
  /\ WF_consoleVars(ConsoleMoves) /\ WF_consoleVars(ShellMoves)

-----------------------------------------------------------------------------
(* Properties.                                                             *)

\* Shape of the state; a ring never counts below zero.
ConsoleTypeOK ==
  /\ typed \in 0..Len(text) /\ ToSet(burst) \subseteq 0..typed
  /\ event_q.size \in Nat /\ unread.size \in Nat
  /\ uartAt \in {"register", "look", "serve"} /\ sees \in BOOLEAN /\ silent \in BOOLEAN
  /\ notifier.at \in {"register", "await", "waiting", "woken", "sent"}
  /\ shell.at \in {"poll", "polled", "get", "reading", "got"}
  /\ reader \in BOOLEAN /\ overrun \in BOOLEAN
  /\ \A i \in DOMAIN uartInbox : uartInbox[i].type \in {"RX", "GETC", "PEEK"}
  /\ Len(typedLine) < CmdMax /\ cursor <= Len(row)

\* What left the UART, from the one the shell read first to the one recorded last,
\* with OtherEvent where there is no character.
Pipeline ==
  taken \o <<shell.got>> \o Content(unread) \o [i \in DOMAIN uartInbox |-> uartInbox[i].ch]
    \o <<notifier.ev>> \o Content(event_q)

\* Where the characters are in it.
Characters(p) == {i \in DOMAIN p : p[i] # OtherEvent}

\* Every character that left the UART is somewhere on its way once, whatever the
\* order of interrupts, AwaitEvent and Receive, unless a ring was overrun, but for
\* those io_notifier dropped before the console server had registered.
NothingLostOrRepeated ==
  ~overrun =>
    LET p == Pipeline
    IN /\ \A i, j \in Characters(p) : p[i] = p[j] => i = j
       /\ {p[i] : i \in Characters(p)} = (1..typed) \ (ToSet(fifo) \cup missed)

\* Character n is the first of its burst.
First(n) == \A m \in 1..typed : burst[m] = burst[n] => n <= m

\* The shell reads the bursts in order, and a burst in order but for its first
\* character, which comes last when io_notifier was not waiting for it.
BurstsInOrder ==
  ~overrun =>
    LET p == Pipeline
    IN \A i, j \in Characters(p) : i < j =>
         \/ burst[p[i]] < burst[p[j]]
         \/ burst[p[i]] = burst[p[j]] /\ (p[i] < p[j] \/ First(p[j]))

\* Until a NUL is typed, what stands on the screen between an intact prompt and
\* the cursor is the command.  A NUL is part of the command and has no cell, so
\* that erasing it takes another cell, one of the prompt in the end.
ScreenShowsCommand ==
  ~silent => /\ SubSeq(row, 1, PromptLen) = Prompt
             /\ SubSeq(row, PromptLen + 1, cursor) = typedLine

\* A byte above 127 at the head of the list stops the shell for good.
Stuck == unread.size > 0 /\ text[Oldest(unread)] = "high"

\* An io_notifier whose message was served and not replied to sleeps for good.
Unanswered == notifier.at = "sent" /\ uartInbox = <<>>

\* Where the boot order let neither happen to a character, that io_notifier knew
\* no console server or was itself unknown to it, the characters that are typed
\* all reach the shell, unless a ring was overrun or the shell is stuck.
CharactersArrive ==
  Len(taken) < typed ~>
    (Len(taken) = typed \/ overrun \/ Stuck \/ Unanswered \/ missed # {})

=============================================================================
