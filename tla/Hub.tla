-------------------------------- MODULE Hub --------------------------------
(***************************************************************************)
(* The LAN hub (tools/rotos_link_hub.py): one thread per connection reads  *)
(* lines, keeps the table of names under a lock, and writes to any         *)
(* connection's socket without one.  Between two uses of the table (but    *)
(* for the two of broadcast_roster, one step here), and between two        *)
(* writes, the other threads run.  A write to a socket that its own thread *)
(* has closed raises an exception, which ends the thread that writes.      *)
(***************************************************************************)
EXTENDS Naturals, Sequences, FiniteSets, SequencesExt

CONSTANTS
  Conns,       \* connections, numbered in the order in which they are made
  OSName,      \* the name each says in its HELLO
  NoConn,      \* no entry in the table
  Talks,       \* the lines each endpoint may say after its HELLO
  Listening,   \* the connections whose incoming lines are kept, in down
  MaxTalk,     \* bound on the lines all endpoints say after their HELLO
  MaxGone      \* bound on the endpoints that hang up

OSNames == {OSName[c] : c \in Conns}

ASSUME HubAssumption ==
  /\ Conns \subseteq Nat /\ NoConn \notin Conns
  /\ "" \notin OSNames   \* a HELLO without a name is refused
  /\ MaxTalk \in Nat /\ MaxGone \in Nat

VARIABLES
  peer,      \* the endpoint: "off", "on", "gone"
  said,      \* the lines it has written, oldest first
  handled,   \* how many of them its thread has handled
  down,      \* lines written to it and not yet read, oldest first
  answers,   \* history: the kinds of the answers among the lines written to it
  thread,    \* its thread: "none", "run", "leave", "tell", "done"
  name,      \* the thread's name variable, "" before HELLO
  todo,      \* what the thread does before it reads on
  peers,     \* the table: the connection of each name
  joined     \* history: the connection that last joined under each name

hubVars == <<peer, said, handled, down, answers, thread, name, todo, peers, joined>>

Line(cmd, to)       == [cmd |-> cmd, to |-> to]
Text(kind, about)   == [kind |-> kind, about |-> about]
Job(do, to, text)   == [do |-> do, to |-> to, text |-> text]
AnswerKinds         == {"PONG", "OK", "ERR"}
NoText              == Text("", {})
SendTo(c, text)     == Job("send", c, text)

HubInit ==
  /\ peer = [c \in Conns |-> "off"]
  /\ said = [c \in Conns |-> <<>>]
  /\ handled = [c \in Conns |-> 0]
  /\ down = [c \in Conns |-> <<>>]
  /\ answers = [c \in Conns |-> <<>>]
  /\ thread = [c \in Conns |-> "none"]
  /\ name = [c \in Conns |-> ""]
  /\ todo = [c \in Conns |-> <<>>]
  /\ peers = [n \in OSNames |-> NoConn]
  /\ joined = [n \in OSNames |-> NoConn]

Roster        == {n \in OSNames : peers[n] # NoConn}
AllTokens     == {peers[n] : n \in Roster}
OtherTokens(n) == {peers[m] : m \in Roster \ {n}}

-----------------------------------------------------------------------------
(* The endpoints: an operating system boots, says HELLO, and talks.        *)

Connect(c) ==
  /\ peer[c] = "off" /\ \A d \in Conns : d < c => peer[d] # "off"
  /\ peer' = [peer EXCEPT ![c] = "on"]
  /\ said' = [said EXCEPT ![c] = <<Line("HELLO", "")>>]
  /\ thread' = [thread EXCEPT ![c] = "run"]
  /\ UNCHANGED <<handled, down, answers, name, todo, peers, joined>>

\* Lines said after HELLO, by all.
Talk == SumFunction([c \in Conns |-> IF peer[c] = "off" THEN 0 ELSE Len(said[c]) - 1])

Say(c, line) ==
  /\ peer[c] = "on" /\ Talk < MaxTalk
  /\ said' = [said EXCEPT ![c] = Append(@, line)]
  /\ UNCHANGED <<peer, handled, down, answers, thread, name, todo, peers, joined>>

HangUp(c) ==
  /\ peer[c] = "on" /\ Cardinality({d \in Conns : peer[d] = "gone"}) < MaxGone
  /\ peer' = [peer EXCEPT ![c] = "gone"]
  /\ UNCHANGED <<said, handled, down, answers, thread, name, todo, peers, joined>>

-----------------------------------------------------------------------------
(* A thread: handle_client.                                                *)

\* Mutant of Replies: a message to an unknown name is dropped without a word.
RepliesDropped(c, line) ==
  CASE line.cmd = "PING" -> <<SendTo(c, Text("PONG", {}))>>
    [] line.cmd = "PEERS" -> <<SendTo(c, Text("PEERS", Roster))>>
    [] line.cmd = "MSG" /\ peers[line.to] = NoConn -> <<>>
    [] line.cmd = "MSG" /\ peers[line.to] # NoConn ->
         <<Job("one", NoConn, Text("FOR", {line.to})), SendTo(c, Text("OK", {}))>>
    [] line.cmd = "BROADCAST" ->
         [i \in 1..Cardinality(OtherTokens(name[c])) |-> Job("others", NoConn, NoText)]
           \o <<SendTo(c, Text("OK", {}))>>
    [] OTHER -> [i \in 1..Cardinality(OtherTokens(name[c])) |-> Job("others", NoConn, NoText)]

\* handle_line for a connection with a name: markers for the other peers, one
\* per peer when the line goes to all of them, then the reply to the sender.
Replies(c, line) ==
  LET toAll == [i \in 1..Cardinality(OtherTokens(name[c])) |-> Job("others", NoConn, NoText)]
  IN CASE line.cmd = "PING" -> <<SendTo(c, Text("PONG", {}))>>
       [] line.cmd = "PEERS" -> <<SendTo(c, Text("PEERS", Roster))>>
       [] line.cmd = "MSG" /\ peers[line.to] = NoConn -> <<SendTo(c, Text("ERR", {line.to}))>>
       [] line.cmd = "MSG" /\ peers[line.to] # NoConn ->
            <<Job("one", NoConn, Text("FOR", {line.to})), SendTo(c, Text("OK", {}))>>
       [] line.cmd = "BROADCAST" -> toAll \o <<SendTo(c, Text("OK", {}))>>
       [] OTHER -> toAll

NextLine(c) == said[c][handled[c] + 1]

Reads(c) ==
  /\ thread[c] = "run" /\ todo[c] = <<>> /\ handled[c] < Len(said[c])
  /\ handled' = [handled EXCEPT ![c] = @ + 1]

\* RotosHub.join: whoever had the name before.
Joined(c) == [peers EXCEPT ![OSName[c]] = c]

\* The first line: HELLO enters the name, and the roster goes out twice.
Joins(c) ==
  /\ Reads(c) /\ name[c] = "" /\ NextLine(c).cmd = "HELLO"
  /\ name' = [name EXCEPT ![c] = OSName[c]]
  /\ peers' = Joined(c)
  /\ joined' = [joined EXCEPT ![OSName[c]] = c]
  /\ todo' = [todo EXCEPT ![c] = <<Job("own", c, NoText), Job("roster", NoConn, NoText)>>]
  /\ UNCHANGED <<peer, said, down, answers, thread>>

Handles(c) ==
  /\ Reads(c) /\ name[c] # ""
  /\ todo' = [todo EXCEPT ![c] = Replies(c, NextLine(c))]
  /\ UNCHANGED <<peer, said, down, answers, thread, name, peers, joined>>

\* The socket says end of file.
Ends(c) ==
  /\ thread[c] = "run" /\ todo[c] = <<>> /\ handled[c] = Len(said[c]) /\ peer[c] = "gone"
  /\ thread' = [thread EXCEPT ![c] = "leave"]
  /\ UNCHANGED <<peer, said, handled, down, answers, name, todo, peers, joined>>

\* An exception ends the loop, or, out of the finally clause, the thread.
Raises(c) ==
  /\ thread' = [thread EXCEPT ![c] = IF @ = "run" THEN "leave" ELSE "done"]
  /\ todo' = [todo EXCEPT ![c] = <<>>]
  /\ UNCHANGED <<down, answers>>

Working(c, do) == todo[c] # <<>> /\ Head(todo[c]).do = do

\* A write by thread c; one to an endpoint that has hung up may still succeed.
Writes(c, to, text) ==
  \/ /\ thread[to] # "done"
     /\ down' = IF to \in Listening THEN [down EXCEPT ![to] = Append(@, text)] ELSE down
     /\ answers' = IF text.kind \in AnswerKinds
                     THEN [answers EXCEPT ![to] = Append(@, text.kind)] ELSE answers
     /\ todo' = [todo EXCEPT ![c] = Tail(@)]
     /\ UNCHANGED thread
  \/ /\ thread[to] = "done" \/ peer[to] = "gone"
     /\ Raises(c)

Becomes(c, jobs) ==
  /\ todo' = [todo EXCEPT ![c] = jobs \o Tail(@)]
  /\ UNCHANGED <<down, answers, thread>>

SendsAll(tokens, text) == SetToSeq({SendTo(t, text) : t \in tokens})

Works(c) ==
  /\ \/ Working(c, "send") /\ Writes(c, Head(todo[c]).to, Head(todo[c]).text)
     \/ Working(c, "own") /\ Writes(c, c, Text("PEERS", Roster))
     \/ Working(c, "roster") /\ Becomes(c, SendsAll(AllTokens, Text("PEERS", Roster)))
     \/ Working(c, "others") /\ Becomes(c, SendsAll(OtherTokens(name[c]), Text("FROM", {name[c]})))
     \/ /\ Working(c, "one")
        /\ LET to == peers[CHOOSE n \in Head(todo[c]).text.about : TRUE]
           IN Becomes(c, IF to = NoConn THEN <<>> ELSE <<SendTo(to, Text("FROM", {name[c]}))>>)
  /\ UNCHANGED <<peer, said, handled, name, peers, joined>>

\* Mutant of Left: whoever has the name is removed.
LeftByName(c) == [peers EXCEPT ![name[c]] = NoConn]

\* RotosHub.leave: only the entry that still is this connection.
Left(c) == IF peers[name[c]] = c THEN [peers EXCEPT ![name[c]] = NoConn] ELSE peers

Leaves(c) ==
  /\ thread[c] = "leave"
  /\ \/ /\ name[c] # "" /\ peers' = Left(c) /\ peers' # peers
        /\ thread' = [thread EXCEPT ![c] = "tell"]
        /\ todo' = [todo EXCEPT ![c] = <<Job("roster", NoConn, NoText)>>]
     \/ /\ name[c] = "" \/ Left(c) = peers
        /\ thread' = [thread EXCEPT ![c] = "done"]
        /\ UNCHANGED <<peers, todo>>
  /\ UNCHANGED <<peer, said, handled, down, answers, name, joined>>

Closes(c) ==
  /\ thread[c] = "tell" /\ todo[c] = <<>>
  /\ thread' = [thread EXCEPT ![c] = "done"]
  /\ UNCHANGED <<peer, said, handled, down, answers, name, todo, peers, joined>>

ThreadStep(c) == Joins(c) \/ Handles(c) \/ Ends(c) \/ Works(c) \/ Leaves(c) \/ Closes(c)

HubNext ==
  \E c \in Conns :
    Connect(c) \/ (\E l \in Talks[c] : Say(c, l)) \/ HangUp(c) \/ ThreadStep(c)

HubSpec == HubInit /\ [][HubNext]_hubVars

-----------------------------------------------------------------------------
(* Properties.                                                             *)

HubTypeOK ==
  /\ peers \in [OSNames -> Conns \cup {NoConn}]
  /\ thread \in [Conns -> {"none", "run", "leave", "tell", "done"}]
  /\ \A c \in Conns :
       /\ handled[c] \in 0..Len(said[c])
       /\ name[c] \in {"", OSName[c]}
       /\ thread[c] \in {"none", "leave", "done"} => todo[c] = <<>>

\* The table names, for every name, the connection that joined last under it,
\* from its HELLO until its thread has left, whatever rejoins, departures and
\* exceptions of other threads fall between.
TableIsTrue ==
  \A n \in OSNames :
    peers[n] = IF joined[n] # NoConn /\ thread[joined[n]] \in {"run", "leave"}
                 THEN joined[n] ELSE NoConn

\* The lines of c that its thread has handled and that ask for an answer, and the
\* answers among what it has yet to write.
Asked(c) == {i \in 1..handled[c] : said[c][i].cmd \in {"PING", "MSG", "BROADCAST"}}

IsAnswer(job) == job.do = "send" /\ job.text.kind \in AnswerKinds
Owed(c)       == {i \in DOMAIN todo[c] : IsAnswer(todo[c][i]) /\ todo[c][i].to = c}

Suits(kind, line) == kind \in IF line.cmd = "PING" THEN {"PONG"} ELSE {"OK", "ERR"}

\* The lines of a connection are answered one by one and in order, unless its
\* thread was ended: the n-th that asks has the n-th answer that was written, or
\* the one still owed.
LinesAnsweredInOrder ==
  \A c \in Conns : thread[c] = "run" =>
    /\ Cardinality(Asked(c)) = Len(answers[c]) + Cardinality(Owed(c))
    /\ \A i \in Asked(c) :
         LET n == Cardinality({j \in Asked(c) : j <= i})
         IN IF n <= Len(answers[c])
              THEN Suits(answers[c][n], said[c][i])
              ELSE \A j \in Owed(c) : Suits(todo[c][j].text.kind, said[c][i])

=============================================================================
