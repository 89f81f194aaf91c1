----------------------------- MODULE MCServices -----------------------------
(***************************************************************************)
(* The services of the network kernel side by side: clock, console with    *)
(* the shell, LAN link, hub.  They share no state, so a behaviour runs one *)
(* part, chosen at the start, and leaves the others as they are.           *)
(***************************************************************************)
EXTENDS Clock, Console, Link, Hub

CONSTANTS Incoming,    \* lines that may come in over the link, whatever was sent
          MaxIncoming  \* bound on them

VARIABLE part

MCTexts    == {<<"a", "b", "CR">>, <<"a", "CR", "b">>, <<"a", "BS", "high">>, <<"NUL", "BS", "a">>}
MCIncoming == {[kind |-> "PONG", about |-> {}], [kind |-> "PEERS", about |-> {"IrisOS"}]}
MCOSName   == <<"MekkanaOS", "IrisOS", "MekkanaOS">>
MCTalks    == <<{Line("PING", ""), Line("MSG", "MekkanaOS")}, {}, {Line("BROADCAST", "")}>>
MCDelays   == {2, -2}
MCNoCall   == Line("", "")
MCCommands == {Line("PING", "")}

\* PutAll is Put for one entry after the other, also round the ring and over it.
ASSUME PutAllPuts ==
  \A b \in 0..2, m \in 0..4, n \in 0..7 :
    LET r == [at |-> [i \in 0..2 |-> OtherEvent], begin |-> b, size |-> m]
        s == [i \in 1..n |-> i]
    IN PutAll(r, s) = FoldLeft(Put, r, s)

Parts == {"clock", "console", "link", "hub"}

Init ==
  /\ part \in Parts
  /\ ClockInit /\ ConsoleInit /\ LinkInit /\ HubInit
  /\ part # "console" => text = CHOOSE t \in Texts : TRUE

ClockPart   == part = "clock" /\ ClockNext /\ UNCHANGED <<part, consoleVars, linkVars, hubVars>>
ConsolePart == part = "console" /\ ConsoleNext /\ UNCHANGED <<part, clockVars, linkVars, hubVars>>
HubPart     == part = "hub" /\ HubNext /\ UNCHANGED <<part, clockVars, consoleVars, linkVars>>
LinkPart ==
  /\ part = "link"
  /\ LinkStep \/ (Len(incoming) < MaxIncoming /\ \E l \in Incoming : HubWrites(l))
  /\ UNCHANGED <<part, clockVars, consoleVars, hubVars>>

Next == ClockPart \/ ConsolePart \/ LinkPart \/ HubPart

vars == <<part, clockVars, consoleVars, linkVars, hubVars>>

\* Each part under its own fairness.
Fairness ==
  /\ WF_clockVars(part = "clock" /\ NotifierStep) /\ WF_clockVars(part = "clock" /\ ServerStep)
  /\ WF_clockVars(part = "clock" /\ TimerInterrupt)
  /\ WF_consoleVars(part = "console" /\ UartInterrupt)
  /\ WF_consoleVars(part = "console" /\ IoNotifierMoves)
  /\ WF_consoleVars(part = "console" /\ ConsoleMoves)
  /\ WF_consoleVars(part = "console" /\ ShellMoves)
  /\ WF_linkVars(part = "link" /\ LinkNotifierMoves)
  /\ WF_linkVars(part = "link" /\ LinkServes) /\ WF_linkVars(part = "link" /\ TimePasses)

Spec == Init /\ [][Next]_vars /\ Fairness

\* The types of the part that runs: those of the others never change.
TypeOK ==
  CASE part = "clock" -> ClockTypeOK [] part = "console" -> ConsoleTypeOK
    [] part = "link" -> LinkTypeOK   [] part = "hub" -> HubTypeOK

=============================================================================
