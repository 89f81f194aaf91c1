----------------------------- MODULE MCMailbox -----------------------------
(* Values for the constants of Mailbox that a .cfg cannot write, and a view. *)
EXTENDS Mailbox

\* Two messages from spoke 1, one from each of the other cores.
Posts == [c \in Cores |-> IF c = 1 THEN 2 ELSE 1]

\* One message from each core.
PostOnce == [c \in Cores |-> 1]

\* The state without the message variables of calls that are over: each is
\* written again before anything reads it.
Observed ==
  <<mb, holder, sgi, eventq, posted, handed,
    [c \in Cores |-> IF appAt[c] = "idle" THEN <<"idle">> ELSE <<appAt[c], appMsg[c]>>],
    [c \in Cores |-> IF srvAt[c] \in {"route", "lock", "post", "signal"}
                       THEN <<srvAt[c], srvMsg[c]>> ELSE <<srvAt[c]>>]>>

=============================================================================
