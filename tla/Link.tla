-------------------------------- MODULE Link --------------------------------
(***************************************************************************)
(* The LAN link of one operating system: a notifier task polls the mini    *)
(* UART and sends the server what it read, or an empty message every tick; *)
(* the server cuts the bytes into lines.  A client's LinkSend writes one   *)
(* line to the hub and is replied to with the next line that comes in,     *)
(* whatever it says; other lines are printed.  After a second the client   *)
(* is told that the hub timed out.                                         *)
(*                                                                         *)
(* A line arrives in two pieces, its start and its end with the newline.   *)
(* Where the notifier's read stops between them, the end may be no more    *)
(* than the newline.                                                       *)
(* The serial line has no limit and loses nothing; HELLO is written before *)
(* the first state.                                                        *)
(***************************************************************************)
EXTENDS Naturals, Sequences, FiniteSets, SequencesExt

CONSTANTS
  Callers,   \* tasks that call LinkSend: the shell and the test task
  NoCaller,  \* client = -1
  Commands,  \* the lines they send
  NoCall,    \* not a command
  MaxCalls,  \* bound on the calls
  MaxPieces  \* bound on the pieces of one RX message: LINK_BUF bytes

ASSUME LinkAssumption ==
  /\ NoCaller \notin Callers /\ NoCall \notin Commands
  /\ MaxCalls \in Nat /\ MaxPieces \in Nat \ {0}

VARIABLES
  incoming,   \* the lines the hub has written so far: [kind, about]
  outgoing,   \* the commands the server has written so far
  got,        \* pieces of the incoming lines the notifier has read
  rxNotifier, \* where the notifier is
  linkInbox,  \* the messages sent to the server
  client,     \* who waits for a line
  late,       \* the client's deadline has passed
  bootLate,   \* boot_deadline has passed
  line,       \* the pieces in the line buffer
  hub_up, boot_wait, peer_roster,
  call,       \* what each task's call in progress sent
  calls,      \* calls so far
  handed,     \* lines replied or printed so far
  bare,       \* the lines of whose end a read left only the newline
  cut,        \* history: the lines whose start was taken out of the buffer
  vanished    \* history: the lines neither replied nor printed

lineFates  == <<handed, bare, cut, vanished>>
linkTimers == <<late, bootLate>>
hubView    == <<hub_up, boot_wait, peer_roster>>
linkVars   == <<incoming, outgoing, got, rxNotifier, linkInbox, client, line, linkTimers, hubView,
                call, calls, lineFates>>

LinkInit ==
  /\ incoming = <<>> /\ outgoing = <<>>
  /\ got = 0 /\ rxNotifier = "read" /\ linkInbox = <<>>
  /\ client = NoCaller /\ late = FALSE /\ bootLate = FALSE /\ line = <<>>
  /\ hub_up = FALSE /\ boot_wait = TRUE /\ peer_roster = {}
  /\ call = [c \in Callers |-> NoCall]
  /\ calls = 0 /\ handed = 0 /\ bare = {} /\ cut = {} /\ vanished = {}

HubWrites(text) ==
  /\ incoming' = Append(incoming, text)
  /\ UNCHANGED <<outgoing, got, rxNotifier, linkInbox, client, line, linkTimers, hubView,
                 call, calls, lineFates>>

-----------------------------------------------------------------------------
(* The notifier.  Piece 2n-1 is the start of the n-th line from the hub,   *)
(* piece 2n its end.                                                       *)

IsEnd(p)  == p % 2 = 0
LineOf(p) == (p + 1) \div 2

Rx(pieces)    == [type |-> "RX", pieces |-> pieces]
Request(c, m) == [type |-> "SEND", from |-> c, cmd |-> m]

\* What has arrived, as far as it fits.  Then the notifier sleeps in its Send.
\* Its last read may have stopped just before a newline.
LinkNotifierReads ==
  /\ rxNotifier = "read"
  /\ \E n \in 0..MaxPieces :
       /\ got + n <= 2 * Len(incoming) /\ got' = got + n
       /\ linkInbox' = Append(linkInbox, Rx([i \in 1..n |-> got + i]))
       /\ rxNotifier' = IF n = 0 THEN "sentNothing" ELSE "sent"
       /\ \/ UNCHANGED bare
          \/ n > 0 /\ IsEnd(got + 1) /\ bare' = bare \cup {LineOf(got + 1)}
  /\ UNCHANGED <<incoming, outgoing, client, line, linkTimers, hubView, call, calls, handed, cut,
                 vanished>>

\* The Delay of one tick after an empty message.
LinkNotifierWakes ==
  /\ rxNotifier = "delay" /\ rxNotifier' = "read"
  /\ UNCHANGED <<incoming, outgoing, got, linkInbox, client, line, linkTimers, hubView,
                 call, calls, lineFates>>

-----------------------------------------------------------------------------
(* The callers and the clock.                                              *)

LinkSend(c, m) ==
  /\ call[c] = NoCall /\ calls < MaxCalls /\ calls' = calls + 1
  /\ call' = [call EXCEPT ![c] = m]
  /\ linkInbox' = Append(linkInbox, Request(c, m))
  /\ UNCHANGED <<incoming, outgoing, got, rxNotifier, client, line, linkTimers, hubView,
                 lineFates>>

\* The deadlines that are set pass.
TimePasses ==
  /\ late' = (client # NoCaller) /\ bootLate' = TRUE
  /\ UNCHANGED <<incoming, outgoing, got, rxNotifier, linkInbox, client, line, hubView,
                 call, calls, lineFates>>

-----------------------------------------------------------------------------
(* The server: one message.                                                *)

\* What the scan of an RX message changes: [line, client, up, wait, roster, out,
\* gone], out being the texts of the lines it handed on, gone those it did not.
\* check_boot_timeout comes first.
Booted ==
  LET over == boot_wait /\ bootLate
  IN [line |-> line, client |-> client, up |-> hub_up /\ ~over, wait |-> boot_wait /\ ~over,
      roster |-> peer_roster, out |-> <<>>, gone |-> vanished]

Torn == [kind |-> "torn", about |-> {}]

\* Mutant of Ended: the client stays after its line.
EndedKeeps(st, n) ==
  [st EXCEPT !.line = <<>>, !.out = Append(@, IF st.line # <<>> THEN incoming[n] ELSE Torn)]

\* A newline: the line goes to the client, or else to the screen, but for an
\* empty one, which is not printed.  A line without its start says nothing that
\* anybody knows.
Ended(st, n) ==
  LET text  == IF st.line # <<>> THEN incoming[n] ELSE Torn
      names == text.kind = "PEERS"
  IN IF st.client = NoCaller /\ st.line = <<>> /\ n \in bare
       THEN [st EXCEPT !.gone = @ \cup {n}]
       ELSE [st EXCEPT
               !.line = <<>>, !.client = NoCaller,
               !.up = @ \/ names, !.wait = @ /\ ~names,
               !.roster = IF names THEN text.about ELSE @,
               !.out = Append(@, text)]

\* Mutant of Scanned: the first line of a message is enough.
ScannedOne(st, p) ==
  IF IsEnd(p)
    THEN IF st.out = <<>> THEN Ended(st, LineOf(p)) ELSE st
    ELSE [st EXCEPT !.line = Append(@, p)]

Scanned(st, p) ==
  IF IsEnd(p) THEN Ended(st, LineOf(p)) ELSE [st EXCEPT !.line = Append(@, p)]

\* Mutant of TimedOut: only a system that has seen the hub times out.
TimedOutUp(st) == st.client # NoCaller /\ late /\ st.up

TimedOut(st) == st.client # NoCaller /\ late

\* With what is in a line buffer taken out of it.
Cut(buffer) == cut \cup {LineOf(p) : p \in ToSet(buffer)}

\* The pieces are scanned one by one.
ScanOf(m) ==
  LET scan[i \in 0..Len(m.pieces)] == IF i = 0 THEN Booted ELSE Scanned(scan[i - 1], m.pieces[i])
  IN scan[Len(m.pieces)]

ServeLinkRx ==
  /\ Head(linkInbox).type = "RX"
  /\ LET st == ScanOf(Head(linkInbox))
     IN /\ hub_up' = (st.up /\ ~TimedOut(st))
        /\ boot_wait' = st.wait /\ peer_roster' = st.roster
        /\ client' = IF TimedOut(st) THEN NoCaller ELSE st.client
        /\ line' = IF TimedOut(st) THEN <<>> ELSE st.line
        /\ cut' = IF TimedOut(st) THEN Cut(st.line) ELSE cut
        /\ late' = (late /\ client' # NoCaller)
        /\ handed' = handed + Len(st.out) /\ vanished' = st.gone
        /\ call' = [c \in Callers |-> IF c = client /\ (st.out # <<>> \/ TimedOut(st)) THEN NoCall ELSE call[c]]
  /\ rxNotifier' = IF rxNotifier = "sent" THEN "read" ELSE "delay"
  /\ UNCHANGED outgoing

\* A reply without a line from the hub: "(busy)" or "(hub offline)".
Refused(c) == client # NoCaller \/ (~hub_up /\ ~boot_wait)

ServeLinkSend ==
  /\ Head(linkInbox).type = "SEND"
  /\ LET c == Head(linkInbox).from
     IN \/ /\ Refused(c)
           /\ call' = [call EXCEPT ![c] = NoCall]
           /\ UNCHANGED <<outgoing, client, late, line, cut>>
        \/ /\ ~Refused(c)
           /\ client' = c /\ line' = <<>> /\ cut' = Cut(line) /\ late' = FALSE
           /\ outgoing' = Append(outgoing, Head(linkInbox).cmd)
           /\ UNCHANGED call
  /\ UNCHANGED <<rxNotifier, hubView, handed, vanished>>

LinkServes ==
  /\ linkInbox # <<>> /\ linkInbox' = Tail(linkInbox)
  /\ ServeLinkRx \/ ServeLinkSend
  /\ UNCHANGED <<incoming, got, bootLate, calls, bare>>

-----------------------------------------------------------------------------
LinkNotifierMoves == LinkNotifierReads \/ LinkNotifierWakes

LinkStep ==
  \/ LinkNotifierMoves \/ LinkServes \/ TimePasses
  \/ \E c \in Callers, m \in Commands : LinkSend(c, m)

\* The two tasks are scheduled and time passes; nothing is asked of the hub.
LinkFairness ==
  /\ WF_linkVars(LinkNotifierMoves) /\ WF_linkVars(LinkServes) /\ WF_linkVars(TimePasses)

-----------------------------------------------------------------------------
(* Properties.                                                             *)

LinkTypeOK ==
  /\ got \in 0..2 * Len(incoming)
  /\ client \in Callers \cup {NoCaller}
  /\ rxNotifier \in {"read", "sent", "sentNothing", "delay"}
  /\ hub_up => ~boot_wait
  /\ Len(line) <= 1
  /\ late => client # NoCaller

\* A task inside LinkSend is the server's client or its request is in the queue,
\* once; a task outside is neither: every call is answered at most once, and no
\* reply goes to a task that did not call.
Queued(c) == Cardinality({i \in DOMAIN linkInbox : linkInbox[i].type = "SEND" /\ linkInbox[i].from = c})

OneAnswerPerCall ==
  \A c \in Callers :
    Queued(c) + (IF client = c THEN 1 ELSE 0) = IF call[c] # NoCall THEN 1 ELSE 0

\* Every line whose end was read is replied, printed, or in a message to the
\* server, although requests and timeouts empty the line buffer: a line they cut
\* disappears only where all but its newline was in the buffer.
EveryLineHandedOn ==
  LET Underway(p) == \E i \in DOMAIN linkInbox :
                       linkInbox[i].type = "RX" /\ p \in ToSet(linkInbox[i].pieces)
  IN /\ handed + Cardinality(vanished) + Cardinality({p \in 1..got : IsEnd(p) /\ Underway(p)})
           = got \div 2
     /\ vanished \subseteq bare \cap cut

\* Every LinkSend returns, whatever the hub does.
LinkCallsReturn == \A c \in Callers : call[c] # NoCall ~> call[c] = NoCall

=============================================================================
