----------------------------- MODULE Rendezvous -----------------------------
(***************************************************************************)
(* What Send / Receive / Reply promise to the tasks of a core, with the    *)
(* scheduler, the rings and the wait flags left out.  A client that sends  *)
(* is in the hands of one server until that server replies: its message is *)
(* first queued at the server, then held by it.  A server that exits       *)
(* abandons its clients.                                                   *)
(***************************************************************************)
CONSTANT Tasks

VARIABLE hands   \* where each task's request is

Free      == <<"free">>
Lost      == <<"lost">>
Queued(d) == <<"queued", d>>
Held(d)   == <<"held", d>>

TypeOK ==
  hands \in [Tasks -> {Free, Lost} \cup {Queued(d) : d \in Tasks}
                                   \cup {Held(d) : d \in Tasks}]

Init == hands = [c \in Tasks |-> Free]

\* Client c sends to d.
Send(c, d) ==
  /\ hands[c] = Free
  /\ hands' = [hands EXCEPT ![c] = Queued(d)]

\* Client c sends to d, which was waiting and takes the message at once.
SendTaken(c, d) ==
  /\ hands[c] = Free
  /\ hands' = [hands EXCEPT ![c] = Held(d)]

\* Server d receives c's message.
Take(c, d) ==
  /\ hands[c] = Queued(d)
  /\ hands' = [hands EXCEPT ![c] = Held(d)]

\* Server d replies to c, whose message it holds.
Reply(c, d) ==
  /\ hands[c] = Held(d)
  /\ hands' = [hands EXCEPT ![c] = Free]

\* Server d exits: whoever depends on it waits for ever.
Close(d) ==
  hands' = [c \in Tasks |-> IF hands[c] \in {Queued(d), Held(d)} THEN Lost
                                                                 ELSE hands[c]]

Next ==
  \E d \in Tasks : Close(d) \/ \E c \in Tasks : \/ Send(c, d) \/ SendTaken(c, d)
                                                \/ Take(c, d) \/ Reply(c, d)

Spec == Init /\ [][Next]_hands

=============================================================================
