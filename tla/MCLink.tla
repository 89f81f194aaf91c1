------------------------------- MODULE MCLink -------------------------------
(***************************************************************************)
(* The link server of one system and the hub, joined by the serial line:   *)
(* what the hub writes to connection Us is what comes in, and what the     *)
(* server writes is what the hub's thread for Us reads.                    *)
(***************************************************************************)
EXTENDS Link, Hub

CONSTANT Us   \* this system's connection, one of Listening

LanOSName == [c \in Conns |-> IF c = Us THEN "MekkanaOS" ELSE "IrisOS"]
LanTalks  == [c \in Conns |-> {Line("MSG", "MekkanaOS")}]
LanCommands == {Line("PING", "")}
LanNoCall == Line("", "")

lanVars == <<linkVars, hubVars>>

\* HELLO is written during boot.
LanInit ==
  /\ LinkInit
  /\ peer = [c \in Conns |-> IF c = Us THEN "on" ELSE "off"]
  /\ said = [c \in Conns |-> IF c = Us THEN <<Line("HELLO", "")>> ELSE <<>>]
  /\ handled = [c \in Conns |-> 0]
  /\ down = [c \in Conns |-> <<>>] /\ answers = [c \in Conns |-> <<>>]
  /\ thread = [c \in Conns |-> IF c = Us THEN "run" ELSE "none"]
  /\ name = [c \in Conns |-> ""] /\ todo = [c \in Conns |-> <<>>]
  /\ peers = [n \in OSNames |-> NoConn] /\ joined = [n \in OSNames |-> NoConn]

HubStep ==
  /\ \/ ThreadStep(Us)
     \/ \E c \in Conns \ {Us} :
          Connect(c) \/ (\E l \in Talks[c] : Say(c, l)) \/ HangUp(c) \/ ThreadStep(c)
  /\ IF down'[Us] = down[Us]
       THEN UNCHANGED linkVars
       ELSE HubWrites(Last(down'[Us]))

SystemStep ==
  /\ LinkStep
  /\ said' = [said EXCEPT ![Us] = <<Line("HELLO", "")>> \o outgoing']
  /\ UNCHANGED <<peer, handled, down, answers, thread, name, todo, peers, joined>>

LanSpec == LanInit /\ [][HubStep \/ SystemStep]_lanVars

\* What the hub's test expects of a system that has joined: the line a PING is
\* answered with is PONG.
PingGetsPong ==
  [][\A c \in Callers :
       /\ hub_up /\ client = c /\ call[c].cmd = "PING" /\ client' = NoCaller
       /\ ScanOf(Head(linkInbox)).out # <<>>
       => ScanOf(Head(linkInbox)).out[1].kind = "PONG"]_lanVars

=============================================================================
