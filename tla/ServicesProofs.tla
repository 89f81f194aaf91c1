--------------------------- MODULE ServicesProofs ---------------------------
(***************************************************************************)
(* What the clock server and the console promise, and the services side by *)
(* side.  The clock: for any tasks, any delays and any number of ticks.    *)
(* The console: for any texts, and rings and a command line of any length. *)
(***************************************************************************)
EXTENDS MCServices, LanProofs, FiniteSetTheorems, WellFoundedInduction, TLAPS

-----------------------------------------------------------------------------
(* The clock server.                                                       *)

Letters == [from : Sleepers, msg : Requests \cup {Empty}]

ClockShapes ==
  /\ ticks \in Nat
  /\ waketicks \in [Sleepers -> Nat \cup {-1}]
  /\ command \in Requests \cup {Junk}
  /\ inbox \in Seq(Letters)
  /\ asked \in [Clients -> Nat \cup {-1}]
  /\ woke \in [Clients -> Nat \cup {-1}]

\* No client is taken for the notifier.
NotifierKnown ==
  /\ \A t \in Tasks : pid_names[t] = "clock_notifier" => t = Notifier
  /\ not_tid \in {-1, Notifier}

\* A client's message in the queue is a request of the call it is in, for a tick
\* that handling it later can only put off; the client has no wake tick.
QueuedIsAsking ==
  \A i \in DOMAIN inbox : LET c == inbox[i].from IN
    c \in Clients => /\ asked[c] # -1 /\ waketicks[c] = -1
                     /\ inbox[i].msg \in Requests
                     /\ WakeTick(inbox[i].msg, ticks) >= asked[c]

\* Of each client at most one message is in the queue.
QueuedOnce ==
  \A i, j \in DOMAIN inbox :
    inbox[i].from = inbox[j].from /\ inbox[i].from \in Clients => i = j

\* A client with a wake tick is in a call, and will not come back before its time.
AsleepIsAsking ==
  \A c \in Clients : waketicks[c] # -1 => asked[c] # -1 /\ waketicks[c] >= asked[c]

\* A client in a call has a wake tick or a message in the queue.
AskingWaits ==
  \A c \in Clients :
    asked[c] # -1 => waketicks[c] # -1 \/ \E i \in DOMAIN inbox : inbox[i].from = c

ClockInv ==
  /\ ClockShapes /\ NotifierKnown /\ QueuedIsAsking /\ QueuedOnce
  /\ AsleepIsAsking /\ AskingWaits

\* Everything the clients' waiting is stated of.
waitVars == <<ticks, waketicks, command, inbox, asked, woke>>

-----------------------------------------------------------------------------
\* Task ids, and the requests, as numbers.
LEMMA Ids ==
  /\ Clients \subseteq Tasks /\ Clients \subseteq Nat /\ -1 \notin Clients
  /\ Notifier \in Tasks /\ Notifier \notin Clients /\ Server # Notifier
  /\ Clients \subseteq Sleepers /\ Notifier \in Sleepers
  /\ NoName # "clock_notifier"
<1>1. Clients \subseteq Tasks /\ Notifier \in Tasks /\ Notifier \notin Clients
  BY ClockAssumption DEF ClockAssumption
<1>2. \A t \in Tasks : t \in Nat
  BY NamesAssumption DEF NamesAssumption
<1>3. -1 \notin Clients
  BY <1>1, <1>2
<1>4. Server # Notifier /\ NoName # "clock_notifier"
  BY ClockAssumption DEF ClockAssumption
<1> QED
  BY <1>1, <1>2, <1>3, <1>4 DEF Sleepers

LEMMA RequestKinds ==
  ASSUME NEW m \in Requests
  PROVE  /\ m # Empty /\ m # Junk
         /\ \/ m.op = "Time" \/ m.op = "Delay" \/ m.op = "DelayUntil"
         /\ m.n \in Int
<1>1. \A n \in {0} \cup Delays \cup Untils : n \in Int
  BY ClockAssumption DEF ClockAssumption
<1>2. m.op \in {"Time", "Delay", "DelayUntil"} /\ m.n \in {0} \cup Delays \cup Untils
  BY DEF Requests
<1>3. m # Empty /\ m # Junk
  <2>1. ASSUME m = Empty PROVE FALSE
    BY <1>2, <2>1 DEF Empty
  <2>2. ASSUME m = Junk PROVE FALSE
    BY <1>2, <2>2 DEF Junk
  <2> QED
    BY <2>1, <2>2
<1> QED
  BY <1>1, <1>2, <1>3

\* The tick a request asks for is a number, and never falls as time goes on.
LEMMA WakeTickGrows ==
  ASSUME NEW m \in Requests, NEW now \in Nat
  PROVE  /\ WakeTick(m, now) \in Nat
         /\ WakeTick(m, now + 1) >= WakeTick(m, now)
<1>1. m.op \in {"Time", "Delay", "DelayUntil"} /\ m.n \in Int
  BY RequestKinds
<1>2. Parsed(m.n) \in Nat
  BY <1>1 DEF Parsed
<1>3. CASE m.op = "Time"
  BY <1>3 DEF WakeTick
<1>4. CASE m.op = "Delay"
  BY <1>2, <1>4 DEF WakeTick
<1>5. CASE m.op = "DelayUntil"
  BY <1>2, <1>5 DEF WakeTick
<1> QED
  BY <1>1, <1>3, <1>4, <1>5

LEMMA ClockInitHolds == ClockInit => ClockInv
<1> SUFFICES ASSUME ClockInit PROVE ClockInv
  OBVIOUS
<1>1. ClockShapes
  BY DEF ClockInit, ClockShapes
<1>2. NotifierKnown
  BY Ids DEF ClockInit, NamesInit, NotifierKnown
<1>3. QueuedIsAsking /\ QueuedOnce /\ AsleepIsAsking /\ AskingWaits
  BY Ids DEF ClockInit, QueuedIsAsking, QueuedOnce, AsleepIsAsking, AskingWaits
<1> QED
  BY <1>1, <1>2, <1>3 DEF ClockInv

\* A step that neither registers, nor looks, nor touches what the clients wait for.
LEMMA ClockQuiet ==
  ASSUME ClockInv, UNCHANGED <<pid_names, not_tid, waitVars>> PROVE ClockInv'
BY DEF ClockInv, waitVars, ClockShapes, NotifierKnown, QueuedIsAsking, QueuedOnce,
       AsleepIsAsking, AskingWaits

\* Names are entered and looked up; nobody's waiting changes.
LEMMA NamesStep ==
  ASSUME ClockInv, NotifierRegisters \/ ServerRegisters \/ ServerLooks PROVE ClockInv'
<1>1. UNCHANGED waitVars
  BY DEF NotifierRegisters, ServerRegisters, ServerLooks, waitVars
<1>2. NotifierKnown'
  <2>1. CASE NotifierRegisters
    BY <2>1, Ids DEF NotifierRegisters, RegisterAs, ClockInv, NotifierKnown
  <2>2. CASE ServerRegisters
    BY <2>2, Ids DEF ServerRegisters, RegisterAs, ClockInv, NotifierKnown
  <2>3. CASE ServerLooks
    <3>1. WhoIs("clock_notifier") \in {-1, Notifier}
      <4> DEFINE named == {t \in Tasks : pid_names[t] = "clock_notifier"}
      <4>1. named = {} \/ named = {Notifier}
        BY DEF ClockInv, NotifierKnown
      <4>2. Notifier <= Notifier
        BY Ids, NamesAssumption DEF NamesAssumption
      <4>3. named = {Notifier} =>
              (CHOOSE t \in named : \A u \in named : t <= u) = Notifier
        BY <4>2
      <4> QED
        BY <4>1, <4>3 DEF WhoIs
    <3> QED
      BY <2>3, <3>1 DEF ServerLooks, ClockInv, NotifierKnown
  <2> QED
    BY <2>1, <2>2, <2>3
<1> QED
  BY <1>1, <1>2 DEF ClockInv, waitVars, ClockShapes, QueuedIsAsking, QueuedOnce,
                    AsleepIsAsking, AskingWaits

LEMMA NotifierSendsStep == ASSUME ClockInv, NotifierSends PROVE ClockInv'
<1>1. /\ inbox' = Append(inbox, Message(Notifier, Empty))
      /\ UNCHANGED <<pid_names, not_tid, ticks, waketicks, command, asked, woke>>
  BY DEF NotifierSends
<1>2. Message(Notifier, Empty) \in Letters /\ Message(Notifier, Empty).from = Notifier
  BY Ids DEF Message, Letters
<1>3. inbox \in Seq(Letters)
  BY DEF ClockInv, ClockShapes
<1>4. /\ inbox' \in Seq(Letters) /\ DOMAIN inbox' = 1..(Len(inbox) + 1)
      /\ DOMAIN inbox = 1..Len(inbox) /\ Len(inbox) \in Nat
      /\ \A i \in DOMAIN inbox : inbox'[i] = inbox[i]
      /\ inbox'[Len(inbox) + 1].from = Notifier
  BY <1>1, <1>2, <1>3
<1>5. ClockShapes' /\ NotifierKnown'
  BY <1>1, <1>4 DEF ClockInv, ClockShapes, NotifierKnown
<1>6. \A i \in DOMAIN inbox' : inbox'[i].from \in Clients => i \in DOMAIN inbox
  BY <1>4, Ids
<1>7. QueuedIsAsking' /\ QueuedOnce'
  BY <1>1, <1>4, <1>6 DEF ClockInv, QueuedIsAsking, QueuedOnce
<1>8. AsleepIsAsking' /\ AskingWaits'
  BY <1>1, <1>4 DEF ClockInv, AsleepIsAsking, AskingWaits
<1> QED
  BY <1>5, <1>7, <1>8 DEF ClockInv

LEMMA CallStep == ASSUME ClockInv, NEW c \in Clients, NEW m \in Requests, Call(c, m) PROVE ClockInv'
<1>1. /\ asked[c] = -1 /\ asked' = [asked EXCEPT ![c] = WakeTick(m, ticks)]
      /\ inbox' = Append(inbox, Message(c, m))
      /\ UNCHANGED <<pid_names, not_tid, ticks, waketicks, command, woke>>
  BY DEF Call
<1>2. Message(c, m) \in Letters /\ Message(c, m).from = c /\ Message(c, m).msg = m
  BY Ids DEF Message, Letters
<1>3. inbox \in Seq(Letters) /\ ticks \in Nat
  BY DEF ClockInv, ClockShapes
<1>4. /\ inbox' \in Seq(Letters) /\ DOMAIN inbox' = 1..(Len(inbox) + 1)
      /\ DOMAIN inbox = 1..Len(inbox) /\ Len(inbox) \in Nat
      /\ \A i \in DOMAIN inbox : inbox'[i] = inbox[i]
      /\ inbox'[Len(inbox) + 1] = Message(c, m)
  BY <1>1, <1>2, <1>3
<1>5. WakeTick(m, ticks) \in Nat
  BY <1>3, WakeTickGrows
<1>6. ClockShapes' /\ NotifierKnown'
  BY <1>1, <1>4, <1>5 DEF ClockInv, ClockShapes, NotifierKnown
<1>7. \A i \in DOMAIN inbox : inbox[i].from # c
  BY <1>1 DEF ClockInv, QueuedIsAsking
<1>8. waketicks[c] = -1
  BY <1>1 DEF ClockInv, AsleepIsAsking
<1>9. asked'[c] = WakeTick(m, ticks) /\ \A d \in Clients \ {c} : asked'[d] = asked[d]
  BY <1>1 DEF ClockInv, ClockShapes
<1>10. QueuedIsAsking'
  <2> SUFFICES ASSUME NEW i \in DOMAIN inbox', inbox'[i].from \in Clients
               PROVE  LET d == inbox'[i].from IN
                      /\ asked'[d] # -1 /\ waketicks[d] = -1 /\ inbox'[i].msg \in Requests
                      /\ WakeTick(inbox'[i].msg, ticks) >= asked'[d]
    BY <1>1 DEF QueuedIsAsking
  <2>1. CASE i \in DOMAIN inbox
    BY <2>1, <1>4, <1>7, <1>9 DEF ClockInv, QueuedIsAsking
  <2>2. CASE i = Len(inbox) + 1
    BY <2>2, <1>2, <1>4, <1>5, <1>8, <1>9
  <2> QED
    BY <2>1, <2>2, <1>4
<1>11. QueuedOnce'
  BY <1>2, <1>4, <1>7 DEF ClockInv, QueuedOnce
<1>12. AsleepIsAsking' /\ AskingWaits'
  BY <1>1, <1>2, <1>4, <1>8, <1>9 DEF ClockInv, AsleepIsAsking, AskingWaits
<1> QED
  BY <1>6, <1>10, <1>11, <1>12 DEF ClockInv

-----------------------------------------------------------------------------
\* Serving the oldest message.  A is who is replied to, W the wake ticks after it:
\* the clients of A were in a call that is over in time, the others are as before,
\* but for the sender, whose message becomes a wake tick unless it is replied to.
LEMMA ServeFacts ==
  ASSUME ClockInv, Serve
  PROVE  LET from == Head(inbox).from
             msg  == Head(inbox).msg
         IN \E A \in SUBSET Sleepers :
              /\ ReplyTicks(A) /\ Due \subseteq A /\ A \subseteq Due \cup {from}
              /\ waketicks' \in [Sleepers -> Nat \cup {-1}]
              /\ \A c \in Clients \ {from} :
                   waketicks'[c] = IF c \in Due THEN -1 ELSE waketicks[c]
              /\ from \in Clients =>
                   \/ from \in A /\ ticks >= asked[from] /\ waketicks'[from] = -1
                   \/ from \notin A /\ waketicks'[from] = WakeTick(msg, ticks)
<1> DEFINE from == Head(inbox).from
           msg  == Head(inbox).msg
           heard == Heard(msg)
<1>1. /\ inbox \in Seq(Letters) /\ inbox # <<>> /\ ticks \in Nat
      /\ command \in Requests \cup {Junk}
      /\ waketicks \in [Sleepers -> Nat \cup {-1}]
  BY DEF ClockInv, ClockShapes, Serve
<1>2. 1 \in DOMAIN inbox /\ Head(inbox) = inbox[1] /\ Head(inbox) \in Letters
  BY <1>1
<1>3. from \in Sleepers /\ msg \in Requests \cup {Empty}
  BY <1>2 DEF Letters
<1>4. heard \in Requests \cup {Junk}
  BY <1>1, <1>3 DEF Heard
<1>5. from \in Clients => /\ asked[from] # -1 /\ waketicks[from] = -1 /\ from \notin Due
                          /\ msg \in Requests /\ heard = msg /\ from # not_tid
                          /\ WakeTick(msg, ticks) >= asked[from]
  <2> SUFFICES ASSUME from \in Clients
               PROVE  /\ asked[from] # -1 /\ waketicks[from] = -1 /\ from \notin Due
                      /\ msg \in Requests /\ heard = msg /\ from # not_tid
                      /\ WakeTick(msg, ticks) >= asked[from]
    OBVIOUS
  <2>1. /\ asked[from] # -1 /\ waketicks[from] = -1
        /\ msg \in Requests /\ WakeTick(msg, ticks) >= asked[from]
    BY <1>2 DEF ClockInv, QueuedIsAsking
  <2>2. heard = msg
    BY <2>1, RequestKinds DEF Heard
  <2>3. from # not_tid
    BY Ids DEF ClockInv, NotifierKnown
  <2> QED
    BY <2>1, <2>2, <2>3 DEF Due
<1>6. Due \subseteq Sleepers
  BY DEF Due
<1>7. /\ Slept \in [Sleepers -> Nat \cup {-1}]
      /\ \A c \in Clients : Slept[c] = IF c \in Due THEN -1 ELSE waketicks[c]
  BY <1>1, Ids DEF Slept
<1>8. CASE from = not_tid /\ ReplyTicks(Due \cup {from}) /\ waketicks' = Slept
  BY <1>3, <1>5, <1>6, <1>7, <1>8
<1>9. CASE from # not_tid /\ heard.op = "Time"
           /\ ReplyTicks(Due \cup {from}) /\ waketicks' = Slept
  <2>1. from \in Clients => ticks >= asked[from] /\ waketicks'[from] = -1
    BY <1>5, <1>7, <1>9 DEF WakeTick
  <2> QED
    BY <1>3, <1>6, <1>7, <1>9, <2>1
<1>10. CASE from # not_tid /\ heard.op \in {"Delay", "DelayUntil"} /\ ReplyTicks(Due)
            /\ waketicks' = [Slept EXCEPT ![from] = WakeTick(heard, ticks)]
  <2>1. heard \in Requests
    BY <1>4, <1>10 DEF Junk
  <2>2. WakeTick(heard, ticks) \in Nat
    BY <1>1, <2>1, WakeTickGrows
  <2>3. /\ waketicks' \in [Sleepers -> Nat \cup {-1}]
        /\ waketicks'[from] = WakeTick(heard, ticks)
        /\ \A c \in Clients \ {from} : waketicks'[c] = Slept[c]
    BY <1>3, <1>7, <1>10, <2>2, Ids
  <2> QED
    BY <1>5, <1>6, <1>7, <1>10, <2>3
<1>11. CASE from # not_tid /\ heard.op = "junk" /\ ReplyTicks(Due) /\ waketicks' = Slept
  <2>1. from \notin Clients
    BY <1>5, <1>11, RequestKinds
  <2> QED
    BY <1>6, <1>7, <1>11, <2>1
<1> QED
  BY <1>8, <1>9, <1>10, <1>11 DEF Serve

\* The messages behind the one served.
LEMMA TailFacts ==
  ASSUME ClockInv, Serve
  PROVE  /\ inbox' \in Seq(Letters)
         /\ 1 \in DOMAIN inbox /\ Head(inbox) = inbox[1]
         /\ \A i \in DOMAIN inbox' :
              i \in Nat \ {0} /\ i + 1 \in DOMAIN inbox /\ inbox'[i] = inbox[i + 1]
         /\ \A i \in DOMAIN inbox : i = 1 \/ (i - 1 \in DOMAIN inbox' /\ inbox'[i - 1] = inbox[i])
BY DEF ClockInv, ClockShapes, Serve

LEMMA ClockServeStep == ASSUME ClockInv, Serve PROVE ClockInv'
<1> DEFINE from == Head(inbox).from
           msg  == Head(inbox).msg
<1>1. PICK A \in SUBSET Sleepers :
        /\ ReplyTicks(A) /\ Due \subseteq A /\ A \subseteq Due \cup {from}
        /\ waketicks' \in [Sleepers -> Nat \cup {-1}]
        /\ \A c \in Clients \ {from} :
             waketicks'[c] = IF c \in Due THEN -1 ELSE waketicks[c]
        /\ from \in Clients =>
             \/ from \in A /\ ticks >= asked[from] /\ waketicks'[from] = -1
             \/ from \notin A /\ waketicks'[from] = WakeTick(msg, ticks)
  BY ServeFacts
<1>2. /\ ticks' = ticks + 1 /\ ticks \in Nat /\ UNCHANGED <<pid_names, not_tid>>
      /\ waketicks \in [Sleepers -> Nat \cup {-1}]
      /\ asked \in [Clients -> Nat \cup {-1}] /\ woke \in [Clients -> Nat \cup {-1}]
  BY DEF Serve, ClockInv, ClockShapes
<1>3. /\ inbox' \in Seq(Letters)
      /\ 1 \in DOMAIN inbox /\ Head(inbox) = inbox[1]
      /\ \A i \in DOMAIN inbox' :
           i \in Nat \ {0} /\ i + 1 \in DOMAIN inbox /\ inbox'[i] = inbox[i + 1]
      /\ \A i \in DOMAIN inbox : i = 1 \/ (i - 1 \in DOMAIN inbox' /\ inbox'[i - 1] = inbox[i])
  BY TailFacts
<1>4. \A c \in Clients : asked'[c] = IF c \in A THEN -1 ELSE asked[c]
  BY <1>1 DEF ReplyTicks
<1>5. ClockShapes'
  <2>1. command' \in Requests \cup {Junk}
    <3>1. command \in Requests \cup {Junk} /\ Head(inbox) \in Letters
      BY <1>3 DEF ClockInv, ClockShapes
    <3>2. Heard(msg) \in Requests \cup {Junk}
      BY <3>1 DEF Letters, Heard
    <3>3. command' = command \/ command' = Heard(msg)
      BY DEF Serve
    <3> QED
      BY <3>1, <3>2, <3>3
  <2>2. asked' \in [Clients -> Nat \cup {-1}] /\ woke' \in [Clients -> Nat \cup {-1}]
    BY <1>1, <1>2 DEF ReplyTicks
  <2> QED
    BY <1>1, <1>2, <1>3, <2>1, <2>2 DEF ClockShapes
<1>6. NotifierKnown'
  BY <1>2 DEF ClockInv, NotifierKnown
<1>7. \A c \in Clients : c \in Due <=> waketicks[c] # -1 /\ waketicks[c] <= ticks
  BY Ids DEF Due
\* Nobody whose message is still in the queue is replied to or sleeps.
<1>8. \A i \in DOMAIN inbox' : inbox'[i].from \in Clients =>
        inbox'[i].from # from /\ inbox'[i].from \notin A
  <2> SUFFICES ASSUME NEW i \in DOMAIN inbox', inbox'[i].from \in Clients
               PROVE  inbox'[i].from # from /\ inbox'[i].from \notin A
    OBVIOUS
  <2>1. inbox'[i].from # from
    BY <1>3 DEF ClockInv, QueuedOnce
  <2>2. inbox'[i].from \notin Due
    BY <1>3, <1>7 DEF ClockInv, QueuedIsAsking
  <2> QED
    BY <1>1, <2>1, <2>2
<1>9. QueuedIsAsking'
  <2> SUFFICES ASSUME NEW i \in DOMAIN inbox', inbox'[i].from \in Clients
               PROVE  LET c == inbox'[i].from IN
                      /\ asked'[c] # -1 /\ waketicks'[c] = -1 /\ inbox'[i].msg \in Requests
                      /\ WakeTick(inbox'[i].msg, ticks + 1) >= asked'[c]
    BY <1>2 DEF QueuedIsAsking
  <2> DEFINE c == inbox'[i].from
             m == inbox'[i].msg
  <2>1. /\ asked[c] # -1 /\ waketicks[c] = -1 /\ m \in Requests
        /\ WakeTick(m, ticks) >= asked[c]
    BY <1>3 DEF ClockInv, QueuedIsAsking
  <2>2. asked'[c] = asked[c] /\ waketicks'[c] = -1
    BY <1>1, <1>4, <1>7, <1>8, <2>1
  <2>3. /\ WakeTick(m, ticks) \in Nat /\ WakeTick(m, ticks + 1) \in Nat
        /\ WakeTick(m, ticks + 1) >= WakeTick(m, ticks) /\ asked[c] \in Nat
    BY <1>2, <2>1, WakeTickGrows
  <2>4. WakeTick(m, ticks + 1) >= asked[c]
    <3> HIDE DEF c, m
    <3> QED BY <2>1, <2>3
  <2> QED
    BY <2>1, <2>2, <2>4
<1>10. QueuedOnce'
  BY <1>3 DEF ClockInv, QueuedOnce
<1>11. ASSUME from \in Clients
       PROVE  /\ asked[from] # -1 /\ msg \in Requests
              /\ WakeTick(msg, ticks) \in Nat /\ WakeTick(msg, ticks) >= asked[from]
  BY <1>2, <1>3, <1>11, WakeTickGrows DEF ClockInv, QueuedIsAsking
<1>12. AsleepIsAsking'
  <2> SUFFICES ASSUME NEW c \in Clients, waketicks'[c] # -1
               PROVE  asked'[c] # -1 /\ waketicks'[c] >= asked'[c]
    BY DEF AsleepIsAsking
  <2>1. CASE c = from
    BY <1>1, <1>4, <1>11, <2>1
  <2>2. CASE c # from
    BY <1>1, <1>4, <2>2 DEF ClockInv, AsleepIsAsking
  <2> QED
    BY <2>1, <2>2
<1>13. AskingWaits'
  <2> SUFFICES ASSUME NEW c \in Clients, asked'[c] # -1
               PROVE  waketicks'[c] # -1 \/ \E i \in DOMAIN inbox' : inbox'[i].from = c
    BY DEF AskingWaits
  <2>1. c \notin A /\ asked[c] # -1
    BY <1>4
  <2>2. CASE c = from
    BY <1>1, <1>11, <2>1, <2>2
  <2>3. CASE c # from
    BY <1>1, <1>3, <2>1, <2>3 DEF ClockInv, AskingWaits
  <2> QED
    BY <2>2, <2>3
<1> QED
  BY <1>5, <1>6, <1>9, <1>10, <1>12, <1>13 DEF ClockInv

LEMMA ClockNextHolds == ClockInv /\ [ClockNext]_clockVars => ClockInv'
<1> SUFFICES ASSUME ClockInv, [ClockNext]_clockVars PROVE ClockInv'
  OBVIOUS
<1>1. CASE NotifierFinds \/ TimerInterrupt
  BY <1>1, ClockQuiet DEF NotifierFinds, TimerInterrupt, waitVars
<1>2. CASE UNCHANGED clockVars
  BY <1>2, ClockQuiet DEF clockVars, waitVars
<1> QED
  BY <1>1, <1>2, NamesStep, NotifierSendsStep, CallStep, ClockServeStep
     DEF ClockNext, NotifierStep, ServerStep

THEOREM ClockInvariance == ClockSpec => []ClockInv
BY ClockInitHolds, ClockNextHolds, PTL DEF ClockSpec

-----------------------------------------------------------------------------
LEMMA OnceFromInvariant == ClockInv => OnceAskedOnceWaiting
<1> SUFFICES ASSUME ClockInv, NEW c \in Clients
             PROVE  Pending(c) + (IF waketicks[c] # -1 THEN 1 ELSE 0)
                      = IF asked[c] # -1 THEN 1 ELSE 0
  BY DEF OnceAskedOnceWaiting
<1> DEFINE P == {i \in DOMAIN inbox : inbox[i].from = c}
<1>1. Pending(c) = Cardinality(P)
  BY DEF Pending
<1>2. P = {} => Cardinality(P) = 0
  BY FS_EmptySet
<1>3. P # {} => Cardinality(P) = 1
  <2> SUFFICES ASSUME NEW i \in P PROVE Cardinality(P) = 1
    OBVIOUS
  <2>1. P = {i}
    BY DEF ClockInv, QueuedOnce
  <2> QED
    BY <2>1, FS_Singleton
<1>4. P # {} => asked[c] # -1 /\ waketicks[c] = -1
  BY DEF ClockInv, QueuedIsAsking
<1>5. asked[c] # -1 <=> waketicks[c] # -1 \/ P # {}
  BY <1>4 DEF ClockInv, AsleepIsAsking, AskingWaits
<1> HIDE DEF P
<1> QED
  BY <1>1, <1>2, <1>3, <1>4, <1>5

LEMMA ClockTypesStep ==
  ASSUME ClockTypeOK, ClockInv, ClockInv', [ClockNext]_clockVars
  PROVE  ClockTypeOK'
<1>1. ClockShapes' /\ not_tid' \in {-1, Notifier}
  BY DEF ClockInv, NotifierKnown
<1>2. pid_names' \in [Tasks -> {NoName, "clock_notifier", "clock_server"}]
  <2>1. CASE NotifierRegisters \/ ServerRegisters
    BY <2>1 DEF NotifierRegisters, ServerRegisters, RegisterAs, ClockTypeOK
  <2>2. CASE UNCHANGED pid_names
    BY <2>2 DEF ClockTypeOK
  <2> QED
    BY <2>1, <2>2 DEF ClockNext, NotifierStep, NotifierFinds, NotifierSends, TimerInterrupt,
                      ServerStep, ServerLooks, Serve, Call, clockVars
<1>3. nAt' \in {"register", "find", "await", "send", "sent"}
  <2>1. \/ nAt' \in {"find", "await", "send", "sent"} \/ nAt' = nAt
    BY DEF ClockNext, NotifierStep, NotifierRegisters, NotifierFinds, NotifierSends, TimerInterrupt,
           ServerStep, ServerRegisters, ServerLooks, Serve, ReplyTicks, Call, clockVars
  <2> QED
    BY <2>1 DEF ClockTypeOK
<1>4. sAt' \in {"register", "look", "loop"}
  BY DEF ClockTypeOK, ClockNext, NotifierStep, NotifierRegisters, NotifierFinds, NotifierSends,
         TimerInterrupt, ServerStep, ServerRegisters, ServerLooks, Serve, Call, clockVars
<1> QED
  BY <1>1, <1>2, <1>3, <1>4 DEF ClockTypeOK, ClockShapes, Letters

\* The clock's variables keep their types; the server knows no task but the notifier.
THEOREM ClockTypes == ClockSpec => []ClockTypeOK
<1>1. ClockInit => ClockTypeOK
  BY DEF ClockInit, NamesInit, ClockTypeOK
<1>2. ClockTypeOK /\ ClockInv /\ ClockInv' /\ [ClockNext]_clockVars => ClockTypeOK'
  BY ClockTypesStep
<1> QED
  BY <1>1, <1>2, ClockInvariance, PTL DEF ClockSpec

\* Each client waits for one thing, and only inside a call: its message in the queue
\* or its wake tick, whatever order the boot, the ticks and the calls come in.
THEOREM OneWait == ClockSpec => []OnceAskedOnceWaiting
BY ClockInvariance, OnceFromInvariant, PTL

\* No call comes back before its time, whatever the delays, and however many
\* messages count as ticks meanwhile.
THEOREM NotEarly == ClockSpec => NoDelayEndsEarly
<1> DEFINE Timely == \A c \in Clients :
                       asked[c] # -1 /\ asked'[c] = -1 => woke'[c] >= asked[c]
<1>1. ClockInv /\ [ClockNext]_clockVars => [Timely]_clockVars
  <2> SUFFICES ASSUME ClockInv, ClockNext, NEW c \in Clients, asked[c] # -1, asked'[c] = -1
               PROVE  woke'[c] >= asked[c]
    OBVIOUS
  <2>1. CASE Serve
    <3>1. PICK A \in SUBSET Sleepers :
            /\ ReplyTicks(A) /\ A \subseteq Due \cup {Head(inbox).from}
            /\ Head(inbox).from \in Clients /\ Head(inbox).from \in A
                 => ticks >= asked[Head(inbox).from]
      BY <2>1, ServeFacts
    <3>2. c \in A /\ woke'[c] = ticks
      BY <3>1 DEF ReplyTicks
    <3>3. CASE c \in Due
      <4>1. waketicks[c] # -1 /\ waketicks[c] <= ticks /\ waketicks[c] >= asked[c]
        BY <3>3 DEF Due, ClockInv, AsleepIsAsking
      <4>2. waketicks[c] \in Nat /\ asked[c] \in Nat /\ ticks \in Nat
        BY <4>1, Ids DEF ClockInv, ClockShapes
      <4> QED
        BY <3>2, <4>1, <4>2
    <3>4. CASE c = Head(inbox).from
      BY <3>1, <3>2, <3>4
    <3> QED
      BY <3>1, <3>2, <3>3, <3>4
  <2>2. CASE \E d \in Clients, m \in Requests : Call(d, m)
    BY <2>2 DEF Call, ClockInv, ClockShapes
  <2>3. CASE asked' = asked
    BY <2>3
  <2> QED
    BY <2>1, <2>2, <2>3
       DEF ClockNext, NotifierStep, ServerStep, NotifierRegisters, NotifierFinds,
           NotifierSends, TimerInterrupt, ServerRegisters, ServerLooks
<1> QED
  BY <1>1, ClockInvariance, PTL DEF ClockSpec, NoDelayEndsEarly

-----------------------------------------------------------------------------
(* Rings.                                                                  *)

\* Positions in a ring of n slots.
LEMMA Wraps ==
  ASSUME NEW n \in Nat \ {0}
  PROVE  /\ \A a \in Nat : a < n => a % n = a
         /\ \A a \in Nat : n <= a /\ a < n + n => a % n = a - n
         /\ \A a \in Nat : a < n + n => a % n \in 0 .. n - 1
<1>1. ASSUME NEW a \in Nat, a < n PROVE a % n = a
  BY <1>1
<1>2. ASSUME NEW a \in Nat, n <= a, a < n + n PROVE a % n = a - n
  BY <1>2
<1>3. ASSUME NEW a \in Nat, a < n + n PROVE a % n \in 0 .. n - 1
  BY <1>1, <1>2, <1>3
<1> QED
  BY <1>1, <1>2, <1>3

\* A ring of n slots.
IsRing(r, n) ==
  /\ r = [at |-> r.at, begin |-> r.begin, size |-> r.size]
  /\ r.at \in [0 .. n - 1 -> Nat] /\ r.begin \in 0 .. n - 1 /\ r.size \in Nat

LEMMA SlotsIs ==
  ASSUME NEW n \in Nat \ {0}, NEW r, IsRing(r, n)
  PROVE  Slots(r) = n
<1>1. DOMAIN r.at = 0 .. n - 1
  BY DEF IsRing
<1>2. Cardinality(0 .. n - 1) = n
  BY FS_Interval
<1> QED
  BY <1>1, <1>2 DEF Slots

\* Where the entries of a ring lie, when they fit: no two in the same slot.
LEMMA Spots ==
  ASSUME NEW n \in Nat \ {0}, NEW b \in 0 .. n - 1, NEW i \in Nat, NEW j \in Nat, i < n, j < n
  PROVE  /\ (b + i) % n \in 0 .. n - 1
         /\ (b + i) % n = (b + j) % n => i = j
<1>1. ASSUME NEW k \in Nat, k < n
      PROVE  /\ b + k < n => (b + k) % n = b + k
             /\ b + k >= n => (b + k) % n = b + k - n
  <2>1. PICK a : a = b + k
    OBVIOUS
  <2>2. a \in Nat /\ a < n + n
    BY <1>1, <2>1
  <2>3. a < n => a % n = a
    BY <2>2, Wraps
  <2>4. n <= a => a % n = a - n
    BY <2>2, Wraps
  <2> QED
    BY <2>1, <2>2, <2>3, <2>4
<1>2. PICK x : x = (b + i) % n
  OBVIOUS
<1>3. PICK y : y = (b + j) % n
  OBVIOUS
<1>4. (b + i < n /\ x = b + i) \/ (b + i >= n /\ x = b + i - n)
  BY <1>1, <1>2
<1>5. (b + j < n /\ y = b + j) \/ (b + j >= n /\ y = b + j - n)
  BY <1>1, <1>3
<1>6. x \in 0 .. n - 1
  BY <1>4
<1>7. x = y => i = j
  BY <1>4, <1>5
<1> QED
  BY <1>2, <1>3, <1>6, <1>7

LEMMA ListIs ==
  ASSUME NEW m \in Nat, NEW c \in [1 .. m -> Nat]
  PROVE  c \in Seq(Nat) /\ Len(c) = m
OBVIOUS

LEMMA ContentIs ==
  ASSUME NEW n \in Nat \ {0}, NEW r, IsRing(r, n), r.size <= n
  PROVE  /\ Content(r) \in Seq(Nat) /\ Len(Content(r)) = r.size
         /\ \A i \in 1 .. r.size : Content(r)[i] = r.at[(r.begin + (i - 1)) % n]
<1>1. PICK c, m, b : c = Content(r) /\ m = r.size /\ b = r.begin
  OBVIOUS
<1>2. Slots(r) = n /\ m \in Nat /\ m <= n /\ b \in 0 .. n - 1 /\ r.at \in [0 .. n - 1 -> Nat]
  BY <1>1, SlotsIs DEF IsRing
<1>3. \A i \in 1 .. m : (b + (i - 1)) % n \in 0 .. n - 1
  <2>1. SUFFICES ASSUME NEW i \in 1 .. m PROVE (b + (i - 1)) % n \in 0 .. n - 1
    OBVIOUS
  <2>2. i - 1 \in Nat /\ i - 1 < n
    BY <1>2
  <2> QED
    BY <1>2, <2>2, Spots
<1>4. \A i \in 1 .. m : b + i - 1 = b + (i - 1)
  BY <1>2
<1>5. c = [i \in 1 .. m |-> r.at[(b + i - 1) % n]]
  BY <1>1, <1>2 DEF Content
<1>6. \A i \in 1 .. m : c[i] = r.at[(b + (i - 1)) % n]
  BY <1>4, <1>5
<1>7. \A i \in 1 .. m : c[i] \in Nat
  BY <1>2, <1>3, <1>6
<1>8. c \in [1 .. m -> Nat]
  BY <1>5, <1>7
<1>9. c \in Seq(Nat) /\ Len(c) = m
  BY <1>2, <1>8, ListIs
<1> QED
  BY <1>1, <1>6, <1>9

-----------------------------------------------------------------------------
(* Sequences.                                                              *)

LEMMA SameSeq ==
  ASSUME NEW S, NEW p \in Seq(S), NEW q \in Seq(S), Len(p) = Len(q),
         \A i \in 1 .. Len(p) : p[i] = q[i]
  PROVE  p = q
OBVIOUS

LEMMA ConcatIs ==
  ASSUME NEW p \in Seq(Nat), NEW q \in Seq(Nat)
  PROVE  /\ p \o q \in Seq(Nat) /\ Len(p \o q) = Len(p) + Len(q)
         /\ \A i \in 1 .. Len(p) : (p \o q)[i] = p[i]
         /\ \A i \in 1 .. Len(q) : (p \o q)[Len(p) + i] = q[i]
OBVIOUS

LEMMA OneIs ==
  ASSUME NEW S, NEW x \in S
  PROVE  <<x>> \in Seq(S) /\ Len(<<x>>) = 1 /\ <<x>>[1] = x
OBVIOUS

\* A finite set of numbers has a greatest one.
LEMMA MaxIs ==
  ASSUME NEW S, S \subseteq Nat, S # {}, NEW m \in Nat, \A x \in S : x <= m
  PROVE  Max(S) \in S /\ \A x \in S : x <= Max(S)
<1> DEFINE Below == {k \in Nat : k <= m /\ m - k \in S}
<1>1. Below \subseteq Nat /\ Below # {}
  <2>1. PICK x \in S : TRUE
    OBVIOUS
  <2>2. x \in Nat /\ x <= m
    BY <2>1
  <2>3. m - x \in Nat /\ m - x <= m /\ m - (m - x) = x
    BY <2>2
  <2>4. m - x \in Below
    BY <2>1, <2>3
  <2> QED
    BY <2>4
<1>2. PICK y \in Below : \A z \in Below : <<z, y>> \notin OpToRel(<, Nat)
  <2> HIDE DEF Below
  <2> QED
    BY <1>1, NatLessThanWellFounded, WFMin
<1>3. \A z \in Below : ~ (z < y)
  BY <1>1, <1>2 DEF OpToRel
<1>4. m - y \in S /\ \A x \in S : x <= m - y
  <2>1. y \in Nat /\ y <= m /\ m - y \in S
    BY <1>2
  <2>2. ASSUME NEW x \in S PROVE x <= m - y
    <3>1. x \in Nat /\ x <= m
      BY <2>2
    <3>2. m - x \in Nat /\ m - x <= m /\ m - (m - x) = x
      BY <3>1
    <3>3. m - x \in Below
      BY <2>2, <3>2
    <3>4. ~ (m - x < y)
      BY <1>3, <3>3
    <3> QED
      BY <2>1, <3>1, <3>4
  <2> QED
    BY <2>1, <2>2
<1> QED
  BY <1>4 DEF Max

LEMMA MaxOne == \A i \in Nat : Max({i}) = i
BY MaxIs

\* What PutAll leaves in the slots.
LEMMA PutAllIs ==
  ASSUME NEW n \in Nat \ {0}, NEW r, IsRing(r, n), NEW s \in Seq(Nat)
  PROVE  /\ IsRing(PutAll(r, s), n) /\ PutAll(r, s).size = r.size + Len(s)
         /\ PutAll(r, s).begin = r.begin
         /\ r.size + Len(s) <= n => \A k \in 0 .. r.size + Len(s) - 1 :
              PutAll(r, s).at[(r.begin + k) % n] =
                IF k < r.size THEN r.at[(r.begin + k) % n] ELSE s[k - r.size + 1]
<1>1. PICK at, b, m : at = r.at /\ b = r.begin /\ m = r.size
  OBVIOUS
<1>2. PICK t : t = PutAll(r, s)
  OBVIOUS
<1> DEFINE PutIn(k) == {i \in DOMAIN s : (b + m + i - 1) % n = k}
<1> DEFINE Now(k) == IF PutIn(k) = {} THEN at[k] ELSE s[Max(PutIn(k))]
<1>3. /\ Slots(r) = n /\ m \in Nat /\ b \in 0 .. n - 1 /\ at \in [0 .. n - 1 -> Nat]
      /\ r = [at |-> at, begin |-> b, size |-> m] /\ Len(s) \in Nat /\ DOMAIN s = 1 .. Len(s)
  BY <1>1, SlotsIs DEF IsRing
<1>4. t = [at |-> [k \in 0 .. n - 1 |-> Now(k)], begin |-> b, size |-> m + Len(s)]
  BY <1>1, <1>2, <1>3 DEF PutAll
<1>5. \A k \in 0 .. n - 1 : Now(k) \in Nat
  <2>1. ASSUME NEW k \in 0 .. n - 1, PutIn(k) # {} PROVE s[Max(PutIn(k))] \in Nat
    <3>1. PutIn(k) \subseteq 1 .. Len(s)
      BY <1>3
    <3>2. PICK P : P = PutIn(k)
      OBVIOUS
    <3>3. P \subseteq Nat /\ P # {} /\ \A x \in P : x <= Len(s)
      BY <1>3, <2>1, <3>1, <3>2
    <3>4. Max(P) \in P
      BY <1>3, <3>3, MaxIs
    <3> QED
      BY <1>3, <3>1, <3>2, <3>4
  <2> QED
    BY <1>3, <2>1
<1>6. IsRing(t, n) /\ t.size = m + Len(s) /\ t.begin = b
  <2> HIDE DEF Now
  <2> QED
    BY <1>3, <1>4, <1>5 DEF IsRing
<1>7. ASSUME m + Len(s) <= n, NEW k \in 0 .. m + Len(s) - 1
      PROVE  t.at[(b + k) % n] = IF k < m THEN at[(b + k) % n] ELSE s[k - m + 1]
  <2>1. k \in Nat /\ k < n
    BY <1>3, <1>7
  <2>2. (b + k) % n \in 0 .. n - 1
    BY <1>3, <2>1, Spots
  <2>3. ASSUME NEW i \in 1 .. Len(s), (b + m + i - 1) % n = (b + k) % n
        PROVE  m + i - 1 = k
    <3>1. PICK j : j = m + i - 1
      OBVIOUS
    <3>2. j \in Nat /\ j < n /\ b + m + i - 1 = b + j
      BY <1>3, <1>7, <3>1
    <3>3. (b + j) % n = (b + k) % n
      BY <2>3, <3>2
    <3>4. j = k
      BY <1>3, <2>1, <3>2, <3>3, Spots
    <3> QED
      BY <3>1, <3>4
  <2>4. t.at[(b + k) % n] = Now((b + k) % n)
    <3> HIDE DEF Now
    <3> QED
      BY <1>4, <2>2
  <2>5. CASE k < m
    <3>1. PutIn((b + k) % n) = {}
      <4>1. ASSUME NEW i \in PutIn((b + k) % n) PROVE FALSE
        <5>1. i \in 1 .. Len(s) /\ (b + m + i - 1) % n = (b + k) % n
          BY <1>3
        <5> QED
          BY <1>3, <2>3, <2>5, <5>1
      <4> QED
        BY <4>1
    <3> QED
      BY <2>4, <2>5, <3>1
  <2>6. CASE k >= m
    <3>1. PICK i : i = k - m + 1
      OBVIOUS
    <3>2. i \in 1 .. Len(s) /\ b + m + i - 1 = b + k
      BY <1>3, <1>7, <2>6, <3>1
    <3>3. i \in PutIn((b + k) % n)
      BY <1>3, <3>2
    <3>4. ASSUME NEW j \in PutIn((b + k) % n) PROVE j = i
      <4>1. j \in 1 .. Len(s) /\ (b + m + j - 1) % n = (b + k) % n
        BY <1>3
      <4>2. m + j - 1 = k /\ m + i - 1 = k
        BY <1>3, <2>3, <3>2, <3>3, <4>1
      <4>3. \A x, y \in Nat : m + x - 1 = k /\ m + y - 1 = k => x = y
        BY <1>3
      <4>4. i \in Nat /\ j \in Nat
        BY <3>2, <4>1
      <4> QED
        BY <4>2, <4>3, <4>4
    <3>5. PICK P : P = PutIn((b + k) % n)
      OBVIOUS
    <3>6. P = {i}
      BY <3>3, <3>4, <3>5
    <3>7. Max(P) = i
      <4>1. i \in Nat
        BY <3>2
      <4> QED
        BY <3>6, <4>1, MaxOne
    <3>8. Now((b + k) % n) = s[i]
      BY <3>5, <3>6, <3>7
    <3>9. ~ (k < m)
      BY <1>3, <2>6
    <3> HIDE DEF PutIn, Now
    <3> QED
      BY <2>4, <3>1, <3>8, <3>9
  <2> QED
    BY <1>3, <2>5, <2>6
<1> QED
  BY <1>1, <1>2, <1>6, <1>7

\* Written behind the entries of a ring, while there is room.
LEMMA PutAllContent ==
  ASSUME NEW n \in Nat \ {0}, NEW r, IsRing(r, n), NEW s \in Seq(Nat), r.size + Len(s) <= n
  PROVE  Content(PutAll(r, s)) = Content(r) \o s
<1>1. PICK t, m, b, l : t = PutAll(r, s) /\ m = r.size /\ b = r.begin /\ l = Len(s)
  OBVIOUS
<1>2. PICK c, d : c = Content(r) /\ d = Content(t)
  OBVIOUS
<1>3. IsRing(t, n) /\ t.size = m + l /\ t.begin = b
  BY <1>1, PutAllIs
<1>4. m \in Nat /\ l \in Nat /\ m + l <= n /\ m <= n /\ m + l \in Nat
  BY <1>1 DEF IsRing
<1>5. \A k \in 0 .. m + l - 1 :
        t.at[(b + k) % n] = IF k < m THEN r.at[(b + k) % n] ELSE s[k - m + 1]
  BY <1>1, <1>4, PutAllIs
<1>6. c \in Seq(Nat) /\ Len(c) = m /\ \A i \in 1 .. m : c[i] = r.at[(b + (i - 1)) % n]
  <2>1. r.size <= n
    BY <1>1, <1>4
  <2>2. /\ Content(r) \in Seq(Nat) /\ Len(Content(r)) = r.size
        /\ \A i \in 1 .. r.size : Content(r)[i] = r.at[(r.begin + (i - 1)) % n]
    BY <2>1, ContentIs
  <2> QED
    BY <1>1, <1>2, <2>2
<1>7. d \in Seq(Nat) /\ Len(d) = m + l /\ \A i \in 1 .. m + l : d[i] = t.at[(b + (i - 1)) % n]
  <2>1. t.size <= n
    BY <1>3, <1>4
  <2>2. /\ Content(t) \in Seq(Nat) /\ Len(Content(t)) = t.size
        /\ \A i \in 1 .. t.size : Content(t)[i] = t.at[(t.begin + (i - 1)) % n]
    BY <1>3, <2>1, ContentIs
  <2> QED
    BY <1>2, <1>3, <2>2
<1>8. PICK e : e = c \o s
  OBVIOUS
<1>9. /\ e \in Seq(Nat) /\ Len(e) = m + l
      /\ \A i \in 1 .. m : e[i] = c[i]
      /\ \A i \in 1 .. l : e[m + i] = s[i]
  <2>1. /\ e \in Seq(Nat) /\ Len(e) = Len(c) + Len(s)
        /\ \A i \in 1 .. Len(c) : e[i] = c[i]
        /\ \A i \in 1 .. Len(s) : e[Len(c) + i] = s[i]
    <3>1. /\ c \o s \in Seq(Nat) /\ Len(c \o s) = Len(c) + Len(s)
          /\ \A i \in 1 .. Len(c) : (c \o s)[i] = c[i]
          /\ \A i \in 1 .. Len(s) : (c \o s)[Len(c) + i] = s[i]
      BY <1>6, ConcatIs
    <3> QED
      BY <1>8, <3>1
  <2> QED
    BY <1>1, <1>6, <2>1
<1>10. \A i \in 1 .. m + l : d[i] = e[i]
  <2>1. SUFFICES ASSUME NEW i \in 1 .. m + l PROVE d[i] = e[i]
    OBVIOUS
  <2>2. PICK k : k = i - 1
    OBVIOUS
  <2>3. k \in 0 .. m + l - 1 /\ k - m + 1 = i - m
    BY <1>4, <2>2
  <2>4. d[i] = IF k < m THEN r.at[(b + k) % n] ELSE s[i - m]
    BY <1>5, <1>7, <2>2, <2>3
  <2>5. CASE i <= m
    <3>1. i \in 1 .. m /\ k < m
      BY <1>4, <2>2, <2>5
    <3> QED
      BY <1>6, <1>9, <2>2, <2>4, <3>1
  <2>6. CASE i > m
    <3>1. i - m \in 1 .. l /\ m + (i - m) = i /\ ~ (k < m)
      BY <1>4, <2>2, <2>6
    <3> QED
      BY <1>9, <2>4, <3>1
  <2> QED
    BY <1>4, <2>5, <2>6
<1>11. d = e
  BY <1>7, <1>9, <1>10, SameSeq
<1> QED
  BY <1>1, <1>2, <1>8, <1>11

\* One entry more, behind the others while there is room.
LEMMA PutRing ==
  ASSUME NEW n \in Nat \ {0}, NEW r, IsRing(r, n), NEW x \in Nat
  PROVE  /\ IsRing(Put(r, x), n) /\ Put(r, x).size = r.size + 1
         /\ r.size < n => Content(Put(r, x)) = Content(r) \o <<x>>
<1>1. PICK t, m, b : t = Put(r, x) /\ m = r.size /\ b = r.begin
  OBVIOUS
<1>2. /\ Slots(r) = n /\ m \in Nat /\ b \in 0 .. n - 1 /\ r.at \in [0 .. n - 1 -> Nat]
      /\ r = [at |-> r.at, begin |-> b, size |-> m]
  BY <1>1, SlotsIs DEF IsRing
<1>3. t = [at |-> [r.at EXCEPT ![(b + m) % n] = x], begin |-> b, size |-> m + 1]
  BY <1>1, <1>2 DEF Put
<1>4. IsRing(t, n) /\ t.size = m + 1 /\ t.begin = b
  BY <1>2, <1>3 DEF IsRing
<1>5. ASSUME m < n PROVE Content(t) = Content(r) \o <<x>>
  <2>1. PICK c, d, e : c = Content(r) /\ d = Content(t) /\ e = c \o <<x>>
    OBVIOUS
  <2>2. /\ c \in Seq(Nat) /\ Len(c) = m
        /\ \A i \in 1 .. m : c[i] = r.at[(b + (i - 1)) % n]
    <3>1. r.size <= n
      BY <1>1, <1>2, <1>5
    <3>2. /\ Content(r) \in Seq(Nat) /\ Len(Content(r)) = r.size
          /\ \A i \in 1 .. r.size : Content(r)[i] = r.at[(r.begin + (i - 1)) % n]
      BY <3>1, ContentIs
    <3> QED
      BY <1>1, <2>1, <3>2
  <2>3. m + 1 \in Nat /\ m + 1 <= n
    BY <1>2, <1>5
  <2>4. /\ d \in Seq(Nat) /\ Len(d) = m + 1
        /\ \A i \in 1 .. m + 1 : d[i] = t.at[(b + (i - 1)) % n]
    <3>1. t.size <= n
      BY <1>4, <2>3
    <3>2. /\ Content(t) \in Seq(Nat) /\ Len(Content(t)) = t.size
          /\ \A i \in 1 .. t.size : Content(t)[i] = t.at[(t.begin + (i - 1)) % n]
      BY <1>4, <3>1, ContentIs
    <3> QED
      BY <1>4, <2>1, <3>2
  <2>5. e \in Seq(Nat) /\ Len(e) = m + 1 /\ (\A i \in 1 .. m : e[i] = c[i]) /\ e[m + 1] = x
    BY <2>1, <2>2, ConcatIs, OneIs
  <2>6. ASSUME NEW i \in 1 .. m PROVE d[i] = c[i]
    <3>1. PICK k : k = i - 1
      OBVIOUS
    <3>2. k \in Nat /\ k < m /\ k < n /\ i \in 1 .. m + 1
      BY <1>2, <1>5, <3>1
    <3>3. (b + k) % n # (b + m) % n /\ (b + k) % n \in 0 .. n - 1
      <4>1. (b + k) % n = (b + m) % n => k = m
        BY <1>2, <1>5, <3>2, Spots
      <4> QED
        BY <1>2, <3>2, <4>1, Spots
    <3>4. t.at[(b + k) % n] = r.at[(b + k) % n]
      BY <1>2, <1>3, <3>3
    <3> QED
      BY <2>2, <2>4, <3>1, <3>2, <3>4
  <2>7. d[m + 1] = x
    <3>1. (b + m) % n \in 0 .. n - 1
      BY <1>2, <1>5, Spots
    <3>2. t.at[(b + m) % n] = x
      BY <1>2, <1>3, <3>1
    <3>3. m + 1 \in 1 .. m + 1 /\ (m + 1) - 1 = m
      BY <1>2
    <3> QED
      BY <2>4, <3>2, <3>3
  <2>8. \A i \in 1 .. m + 1 : d[i] = e[i]
    <3>1. \A i \in 1 .. m + 1 : i \in 1 .. m \/ i = m + 1
      BY <1>2
    <3> QED
      BY <2>5, <2>6, <2>7, <3>1
  <2>9. d = e
    BY <2>4, <2>5, <2>8, SameSeq
  <2> QED
    BY <2>1, <2>9
<1> QED
  BY <1>1, <1>4, <1>5

\* The oldest entry gone.
LEMMA DroppedRing ==
  ASSUME NEW n \in Nat \ {0}, NEW r, IsRing(r, n), r.size > 0
  PROVE  /\ IsRing(Dropped(r), n) /\ Dropped(r).size = r.size - 1 /\ Oldest(r) \in Nat
         /\ r.size <= n => Content(r) = <<Oldest(r)>> \o Content(Dropped(r))
<1>1. PICK t, m, b, o : t = Dropped(r) /\ m = r.size /\ b = r.begin /\ o = Oldest(r)
  OBVIOUS
<1>2. /\ Slots(r) = n /\ m \in Nat \ {0} /\ b \in 0 .. n - 1 /\ r.at \in [0 .. n - 1 -> Nat]
      /\ r = [at |-> r.at, begin |-> b, size |-> m]
  BY <1>1, SlotsIs DEF IsRing
<1>3. PICK f : f = (b + 1) % n
  OBVIOUS
<1>4. t = [at |-> r.at, begin |-> f, size |-> m - 1]
  BY <1>1, <1>2, <1>3 DEF Dropped
<1>5. f = IF b + 1 < n THEN b + 1 ELSE 0
  <2>1. CASE b + 1 < n
    BY <1>2, <1>3, <2>1, Wraps
  <2>2. CASE b + 1 = n
    BY <1>3, <2>2
  <2> QED
    BY <1>2, <2>1, <2>2
<1>6. f \in 0 .. n - 1
  BY <1>2, <1>5
<1>7. IsRing(t, n) /\ t.size = m - 1 /\ t.begin = f /\ t.at = r.at /\ o \in Nat /\ o = r.at[b]
  BY <1>1, <1>2, <1>4, <1>6 DEF IsRing, Oldest
<1>8. ASSUME m <= n PROVE Content(r) = <<o>> \o Content(t)
  <2>1. PICK c, d, e : c = Content(r) /\ d = Content(t) /\ e = <<o>> \o d
    OBVIOUS
  <2>2. c \in Seq(Nat) /\ Len(c) = m /\ \A i \in 1 .. m : c[i] = r.at[(b + (i - 1)) % n]
    <3>1. r.size <= n
      BY <1>1, <1>2, <1>8
    <3>2. /\ Content(r) \in Seq(Nat) /\ Len(Content(r)) = r.size
          /\ \A i \in 1 .. r.size : Content(r)[i] = r.at[(r.begin + (i - 1)) % n]
      BY <3>1, ContentIs
    <3> QED
      BY <1>1, <2>1, <3>2
  <2>3. m - 1 \in Nat /\ m - 1 <= n
    BY <1>2, <1>8
  <2>4. /\ d \in Seq(Nat) /\ Len(d) = m - 1
        /\ \A i \in 1 .. m - 1 : d[i] = t.at[(f + (i - 1)) % n]
    <3>1. t.size <= n
      BY <1>7, <2>3
    <3>2. /\ Content(t) \in Seq(Nat) /\ Len(Content(t)) = t.size
          /\ \A i \in 1 .. t.size : Content(t)[i] = t.at[(t.begin + (i - 1)) % n]
      BY <1>7, <3>1, ContentIs
    <3> QED
      BY <1>7, <2>1, <3>2
  <2>5. ASSUME NEW i \in 1 .. m - 1 PROVE d[i] = c[i + 1]
    <3>1. PICK k : k = i - 1
      OBVIOUS
    <3>2. k \in Nat /\ k + 1 < n /\ k < n /\ i + 1 \in 1 .. m /\ (i + 1) - 1 = k + 1
      BY <1>2, <1>8, <3>1
    <3>3. (f + k) % n = (b + (k + 1)) % n
      <4>1. CASE b + 1 < n
        <5>1. f + k = b + (k + 1)
          BY <1>2, <1>5, <3>2, <4>1
        <5> QED
          BY <5>1
      <4>2. CASE b + 1 >= n
        <5>1. f = 0 /\ b + 1 = n
          BY <1>2, <1>5, <4>2
        <5>2. PICK a : a = b + (k + 1)
          OBVIOUS
        <5>3. f + k = k /\ a \in Nat /\ n <= a /\ a < n + n /\ a - n = k
          <6>1. k \in Nat /\ n \in Nat /\ b \in Nat /\ k < n
            BY <1>2, <3>2
          <6>2. f + k = k
            BY <5>1, <6>1
          <6>3. a = n + k
            BY <5>1, <5>2, <6>1
          <6> QED
            BY <6>1, <6>2, <6>3
        <5>4. k % n = k
          BY <3>2, Wraps
        <5>5. a % n = k
          BY <5>3, Wraps
        <5> QED
          BY <5>2, <5>3, <5>4, <5>5
      <4> QED
        BY <1>2, <4>1, <4>2
    <3>4. d[i] = r.at[(f + k) % n]
      BY <1>7, <2>4, <3>1
    <3>5. c[i + 1] = r.at[(b + (k + 1)) % n]
      BY <2>2, <3>2
    <3> QED
      BY <3>3, <3>4, <3>5
  <2>6. c[1] = o
    <3>1. 1 \in 1 .. m /\ b + (1 - 1) = b /\ b % n = b
      BY <1>2, Wraps
    <3>2. c[1] = r.at[(b + (1 - 1)) % n]
      BY <2>2, <3>1
    <3> QED
      BY <1>7, <3>1, <3>2
  <2>7. /\ e \in Seq(Nat) /\ Len(e) = m /\ e[1] = o
        /\ \A i \in 1 .. m - 1 : e[1 + i] = d[i]
    <3>1. <<o>> \in Seq(Nat) /\ Len(<<o>>) = 1 /\ <<o>>[1] = o
      BY <1>7, OneIs
    <3>2. PICK q : q = <<o>>
      OBVIOUS
    <3>3. q \in Seq(Nat) /\ Len(q) = 1 /\ q[1] = o /\ e = q \o d
      BY <2>1, <3>1, <3>2
    <3>4. /\ e \in Seq(Nat) /\ Len(e) = Len(q) + Len(d)
          /\ \A i \in 1 .. Len(q) : e[i] = q[i]
          /\ \A i \in 1 .. Len(d) : e[Len(q) + i] = d[i]
      <4>1. /\ q \o d \in Seq(Nat) /\ Len(q \o d) = Len(q) + Len(d)
            /\ \A i \in 1 .. Len(q) : (q \o d)[i] = q[i]
            /\ \A i \in 1 .. Len(d) : (q \o d)[Len(q) + i] = d[i]
        BY <2>4, <3>3, ConcatIs
      <4> QED
        BY <3>3, <4>1
    <3> QED
      BY <1>2, <2>4, <3>3, <3>4
  <2>8. \A i \in 1 .. m : c[i] = e[i]
    <3> SUFFICES ASSUME NEW i \in 1 .. m, i # 1 PROVE c[i] = e[i]
      BY <2>6, <2>7
    <3>1. PICK k : k = i - 1 /\ k \in 1 .. m - 1 /\ 1 + k = i /\ k + 1 = i
      BY <1>2
    <3>2. e[1 + k] = d[k] /\ c[k + 1] = d[k]
      BY <2>5, <2>7, <3>1
    <3> QED
      BY <3>1, <3>2
  <2>9. c = e
    BY <2>2, <2>7, <2>8, SameSeq
  <2> QED
    BY <2>1, <2>9
<1> QED
  BY <1>1, <1>7, <1>8

-----------------------------------------------------------------------------
(* What a part of the way holds, and in which order.                       *)

\* The characters of p.
Chars(p) == {p[i] : i \in 1 .. Len(p)} \ {OtherEvent}
\* Somewhere in p is an x before a y.
Follows(p, x, y) == \E i, j \in 1 .. Len(p) : i < j /\ p[i] = x /\ p[j] = y

LEMMA ConcatChars ==
  ASSUME NEW p \in Seq(Nat), NEW q \in Seq(Nat)
  PROVE  Chars(p \o q) = Chars(p) \cup Chars(q)
<1>1. PICK r, l, m : r = p \o q /\ l = Len(p) /\ m = Len(q)
  OBVIOUS
<1>2. /\ r \in Seq(Nat) /\ Len(r) = l + m /\ l \in Nat /\ m \in Nat
      /\ \A i \in 1 .. l : r[i] = p[i]
      /\ \A i \in 1 .. m : r[l + i] = q[i]
  BY <1>1, ConcatIs
<1>3. \A i \in 1 .. l + m : i \in 1 .. l \/ (i - l \in 1 .. m /\ l + (i - l) = i)
  BY <1>2
<1>4. (\A i \in 1 .. l : i \in 1 .. l + m) /\ \A i \in 1 .. m : l + i \in 1 .. l + m
  BY <1>2
<1>5. \A x : (\E i \in 1 .. l + m : r[i] = x) <=> (\E i \in 1 .. l : p[i] = x) \/ \E i \in 1 .. m : q[i] = x
  <2>1. ASSUME NEW x, NEW i \in 1 .. l + m, r[i] = x
        PROVE  (\E j \in 1 .. l : p[j] = x) \/ \E j \in 1 .. m : q[j] = x
    BY <1>2, <1>3, <2>1
  <2>2. ASSUME NEW x, NEW i \in 1 .. l, p[i] = x PROVE \E j \in 1 .. l + m : r[j] = x
    BY <1>2, <1>4, <2>2
  <2>3. ASSUME NEW x, NEW i \in 1 .. m, q[i] = x PROVE \E j \in 1 .. l + m : r[j] = x
    BY <1>2, <1>4, <2>3
  <2> QED
    BY <2>1, <2>2, <2>3
<1>6. \A x : x \in Chars(r) <=> x \in Chars(p) \/ x \in Chars(q)
  <2>1. \A x : x \in Chars(r) <=> x # OtherEvent /\ \E i \in 1 .. l + m : r[i] = x
    BY <1>2 DEF Chars
  <2>2. \A x : x \in Chars(p) <=> x # OtherEvent /\ \E i \in 1 .. l : p[i] = x
    BY <1>1 DEF Chars
  <2>3. \A x : x \in Chars(q) <=> x # OtherEvent /\ \E i \in 1 .. m : q[i] = x
    BY <1>1 DEF Chars
  <2> QED
    BY <1>5, <2>1, <2>2, <2>3
<1> QED
  BY <1>1, <1>6

LEMMA ConcatFollows ==
  ASSUME NEW p \in Seq(Nat), NEW q \in Seq(Nat), NEW x \in Nat \ {OtherEvent}, NEW y \in Nat \ {OtherEvent}
  PROVE  Follows(p \o q, x, y) <=>
           Follows(p, x, y) \/ Follows(q, x, y) \/ (x \in Chars(p) /\ y \in Chars(q))
<1>1. PICK r, l, m : r = p \o q /\ l = Len(p) /\ m = Len(q)
  OBVIOUS
<1>2. /\ r \in Seq(Nat) /\ Len(r) = l + m /\ l \in Nat /\ m \in Nat
      /\ \A i \in 1 .. l : r[i] = p[i]
      /\ \A i \in 1 .. m : r[l + i] = q[i]
  BY <1>1, ConcatIs
<1>3. ASSUME Follows(r, x, y)
      PROVE  Follows(p, x, y) \/ Follows(q, x, y) \/ (x \in Chars(p) /\ y \in Chars(q))
  <2>1. PICK i, j \in 1 .. l + m : i < j /\ r[i] = x /\ r[j] = y
    BY <1>2, <1>3 DEF Follows
  <2>2. CASE j <= l
    <3>1. i \in 1 .. l /\ j \in 1 .. l
      BY <1>2, <2>1, <2>2
    <3> QED
      BY <1>1, <1>2, <2>1, <3>1 DEF Follows
  <2>3. CASE i <= l /\ j > l
    <3>1. PICK k : k = j - l
      OBVIOUS
    <3>2. i \in 1 .. l /\ k \in 1 .. m /\ l + k = j
      BY <1>2, <2>1, <2>3, <3>1
    <3>3. p[i] = x /\ q[k] = y
      BY <1>2, <2>1, <3>2
    <3> QED
      BY <1>1, <3>2, <3>3 DEF Chars
  <2>4. CASE i > l
    <3>1. PICK h, k : h = i - l /\ k = j - l
      OBVIOUS
    <3>2. h \in 1 .. m /\ k \in 1 .. m /\ l + k = j /\ l + h = i /\ h < k
      BY <1>2, <2>1, <2>4, <3>1
    <3>3. q[h] = x /\ q[k] = y
      BY <1>2, <2>1, <3>2
    <3> QED
      BY <1>1, <3>2, <3>3 DEF Follows
  <2> QED
    BY <1>2, <2>1, <2>2, <2>3, <2>4
<1>4. ASSUME Follows(p, x, y) PROVE Follows(r, x, y)
  <2>1. PICK i, j \in 1 .. l : i < j /\ p[i] = x /\ p[j] = y
    BY <1>1, <1>4 DEF Follows
  <2>2. i \in 1 .. l + m /\ j \in 1 .. l + m /\ r[i] = x /\ r[j] = y
    BY <1>2, <2>1
  <2> QED
    BY <1>2, <2>1, <2>2 DEF Follows
<1>5. ASSUME Follows(q, x, y) PROVE Follows(r, x, y)
  <2>1. PICK i, j \in 1 .. m : i < j /\ q[i] = x /\ q[j] = y
    BY <1>1, <1>5 DEF Follows
  <2>2. l + i \in 1 .. l + m /\ l + j \in 1 .. l + m /\ l + i < l + j
    BY <1>2, <2>1
  <2>3. r[l + i] = x /\ r[l + j] = y
    BY <1>2, <2>1
  <2> QED
    BY <1>2, <2>2, <2>3 DEF Follows
<1>6. ASSUME x \in Chars(p), y \in Chars(q) PROVE Follows(r, x, y)
  <2>1. PICK i \in 1 .. l : p[i] = x
    BY <1>1, <1>6 DEF Chars
  <2>2. PICK j \in 1 .. m : q[j] = y
    BY <1>1, <1>6 DEF Chars
  <2>3. /\ i \in 1 .. l + m /\ l + j \in 1 .. l + m /\ r[i] = x /\ r[l + j] = y /\ i < l + j
    BY <1>2, <2>1, <2>2
  <2> QED
    BY <1>2, <2>3 DEF Follows
<1> QED
  BY <1>1, <1>3, <1>4, <1>5, <1>6

LEMMA OneChars ==
  ASSUME NEW x \in Nat
  PROVE  Chars(<<x>>) = {x} \ {OtherEvent} /\ \A y, z : ~ Follows(<<x>>, y, z)
<1>1. PICK p : p = <<x>>
  OBVIOUS
<1>2. Len(p) = 1 /\ p[1] = x
  BY <1>1
<1>3. \A i \in 1 .. 1 : i = 1
  OBVIOUS
<1>4. Chars(p) = {x} \ {OtherEvent}
  BY <1>2, <1>3 DEF Chars
<1>5. ASSUME NEW y, NEW z, Follows(p, y, z) PROVE FALSE
  BY <1>2, <1>5 DEF Follows
<1> QED
  BY <1>1, <1>4, <1>5

LEMMA NoChars ==
  /\ <<>> \in Seq(Nat) /\ Len(<<>>) = 0
  /\ Chars(<<>>) = {} /\ \A x, y : ~ Follows(<<>>, x, y)
BY DEF Chars, Follows

\* Two parts hold the same in the same order.
Same(p, q) ==
  /\ p \in Seq(Nat) /\ q \in Seq(Nat) /\ Chars(p) = Chars(q)
  /\ \A x, y \in Nat \ {OtherEvent} : Follows(p, x, y) <=> Follows(q, x, y)

LEMMA SameTrans ==
  ASSUME NEW p, NEW q, NEW r, Same(p, q), Same(q, r)
  PROVE  Same(p, r)
BY DEF Same

LEMMA SameSym ==
  ASSUME NEW p, NEW q, Same(p, q)
  PROVE  Same(q, p)
BY DEF Same

LEMMA SameRefl == \A p \in Seq(Nat) : Same(p, p)
BY DEF Same

LEMMA SameConcat ==
  ASSUME NEW p, NEW q, NEW r, NEW s, Same(p, q), Same(r, s)
  PROVE  Same(p \o r, q \o s)
<1>1. p \in Seq(Nat) /\ q \in Seq(Nat) /\ r \in Seq(Nat) /\ s \in Seq(Nat)
  BY DEF Same
<1>2. p \o r \in Seq(Nat) /\ q \o s \in Seq(Nat)
  BY <1>1, ConcatIs
<1>3. Chars(p \o r) = Chars(p) \cup Chars(r) /\ Chars(q \o s) = Chars(q) \cup Chars(s)
  BY <1>1, ConcatChars
<1>4. ASSUME NEW x \in Nat \ {OtherEvent}, NEW y \in Nat \ {OtherEvent}
      PROVE  Follows(p \o r, x, y) <=> Follows(q \o s, x, y)
  <2>1. Follows(p \o r, x, y) <=>
           Follows(p, x, y) \/ Follows(r, x, y) \/ (x \in Chars(p) /\ y \in Chars(r))
    BY <1>1, ConcatFollows
  <2>2. Follows(q \o s, x, y) <=>
           Follows(q, x, y) \/ Follows(s, x, y) \/ (x \in Chars(q) /\ y \in Chars(s))
    BY <1>1, ConcatFollows
  <2> QED
    BY <2>1, <2>2 DEF Same
<1> QED
  BY <1>2, <1>3, <1>4 DEF Same

LEMMA ConcatAssoc ==
  ASSUME NEW p \in Seq(Nat), NEW q \in Seq(Nat), NEW r \in Seq(Nat)
  PROVE  Same((p \o q) \o r, p \o (q \o r))
<1>1. PICK a, b : a = p \o q /\ b = q \o r
  OBVIOUS
<1>2. a \in Seq(Nat) /\ b \in Seq(Nat) /\ a \o r \in Seq(Nat) /\ p \o b \in Seq(Nat)
  BY <1>1, ConcatIs
<1>3. Chars(a) = Chars(p) \cup Chars(q) /\ Chars(b) = Chars(q) \cup Chars(r)
  BY <1>1, ConcatChars
<1>4. Chars(a \o r) = Chars(a) \cup Chars(r) /\ Chars(p \o b) = Chars(p) \cup Chars(b)
  BY <1>2, ConcatChars
<1>5. ASSUME NEW x \in Nat \ {OtherEvent}, NEW y \in Nat \ {OtherEvent}
      PROVE  Follows(a \o r, x, y) <=> Follows(p \o b, x, y)
  <2>1. Follows(a, x, y) <=>
           Follows(p, x, y) \/ Follows(q, x, y) \/ (x \in Chars(p) /\ y \in Chars(q))
    BY <1>1, ConcatFollows
  <2>2. Follows(b, x, y) <=>
           Follows(q, x, y) \/ Follows(r, x, y) \/ (x \in Chars(q) /\ y \in Chars(r))
    BY <1>1, ConcatFollows
  <2>3. Follows(a \o r, x, y) <=>
           Follows(a, x, y) \/ Follows(r, x, y) \/ (x \in Chars(a) /\ y \in Chars(r))
    BY <1>2, ConcatFollows
  <2>4. Follows(p \o b, x, y) <=>
           Follows(p, x, y) \/ Follows(b, x, y) \/ (x \in Chars(p) /\ y \in Chars(b))
    BY <1>2, ConcatFollows
  <2> QED
    BY <1>3, <2>1, <2>2, <2>3, <2>4
<1>6. Chars(a \o r) = Chars(p \o b)
  BY <1>3, <1>4
<1> QED
  BY <1>1, <1>2, <1>5, <1>6 DEF Same

\* An entry that is no character may be left out.
LEMMA Blank ==
  ASSUME NEW p \in Seq(Nat)
  PROVE  Same(<<OtherEvent>> \o p, p) /\ Same(p \o <<OtherEvent>>, p)
<1>1. PICK o : o = <<OtherEvent>>
  OBVIOUS
<1>2. o \in Seq(Nat) /\ Chars(o) = {} /\ \A x, y : ~ Follows(o, x, y)
  BY <1>1, OneIs, OneChars DEF OtherEvent
<1>3. o \o p \in Seq(Nat) /\ p \o o \in Seq(Nat)
  BY <1>2, ConcatIs
<1>4. Chars(o \o p) = Chars(p) /\ Chars(p \o o) = Chars(p)
  <2>1. Chars(o \o p) = Chars(o) \cup Chars(p) /\ Chars(p \o o) = Chars(p) \cup Chars(o)
    BY <1>2, ConcatChars
  <2> QED
    BY <1>2, <2>1
<1>5. \A x, y \in Nat \ {OtherEvent} : Follows(o \o p, x, y) <=> Follows(p, x, y)
  BY <1>2, ConcatFollows
<1>6. \A x, y \in Nat \ {OtherEvent} : Follows(p \o o, x, y) <=> Follows(p, x, y)
  BY <1>2, ConcatFollows
<1> QED
  BY <1>1, <1>3, <1>4, <1>5, <1>6 DEF Same

-----------------------------------------------------------------------------
(* The inductive invariant.                                                *)

Messages == [type : {"RX", "GETC", "PEEK"}, ch : Nat]

\* What left the UART are the first so many characters.
Drawn == typed - Len(fifo)

\* What each variable holds; the FIFO has the characters that were typed last, and the
\* interrupts have numbers no larger than the characters they drained.
ConsoleShapes ==
  /\ text \in Seq(STRING) /\ typed \in 0 .. Len(text)
  /\ fifo \in Seq(Nat) /\ Drawn \in Nat /\ \A i \in 1 .. Len(fifo) : fifo[i] = Drawn + i
  /\ burst \in [1 .. Len(text) -> Nat]
  /\ \A n \in 1 .. Len(text) : burst[n] <= Drawn /\ (burst[n] # 0 <=> n <= Drawn)
  /\ uartInbox \in Seq(Messages)
  /\ notifier \in [at : {"register", "await", "waiting", "woken", "sent"}, ev : Nat]
  /\ shell \in [at : {"poll", "polled", "get", "reading", "got"}, got : Nat]
  /\ taken \in Seq(Nat) /\ reader \in BOOLEAN /\ overrun \in BOOLEAN
  /\ uartAt \in {"register", "look", "serve"} /\ sees \in BOOLEAN

\* Until the history says otherwise the rings hold no more than they can.
Rings ==
  \E e, u : /\ e = event_q /\ IsRing(e, EventSlots) /\ (~ overrun => e.size <= EventSlots)
            /\ u = unread /\ IsRing(u, ReadSlots) /\ (~ overrun => u.size <= ReadSlots)

\* Who waits for what: a message is that of a task that sleeps until it is handled.
Handshakes ==
  /\ notifier.at # "woken" => notifier.ev = OtherEvent
  /\ notifier.at = "waiting" => event_q.size = 0
  /\ shell.at # "got" => shell.got = OtherEvent
  /\ reader => shell.at = "reading"
  /\ \A i \in DOMAIN uartInbox :
       /\ uartInbox[i].type = "RX" => notifier.at = "sent"
       /\ uartInbox[i].type # "RX" => uartInbox[i].ch = OtherEvent
       /\ uartInbox[i].type = "GETC" => shell.at = "reading" /\ ~ reader
       /\ uartInbox[i].type = "PEEK" => shell.at = "polled"
  /\ \A i, j \in DOMAIN uartInbox :
       (uartInbox[i].type = "RX" <=> uartInbox[j].type = "RX") => i = j

\* Character x may be before character y on its way to the shell.
Ranks(x, y) ==
  x # y /\ (burst[x] < burst[y] \/ (burst[x] = burst[y] /\ (x < y \/ First(y))))

\* Unless a ring was overrun, the way holds the characters that left the UART but
\* for those that were missed, any two in an order that Ranks allows, hence each once.
Arranged ==
  ~ overrun => /\ missed \subseteq 1 .. Drawn
               /\ \E p : /\ p = Pipeline /\ p \in Seq(Nat) /\ Chars(p) = (1 .. Drawn) \ missed
                         /\ \A x, y \in Nat \ {OtherEvent} : Follows(p, x, y) => Ranks(x, y)

\* What may stand in a cell of the screen.
Cell == {text[n] : n \in Nat} \cup {" ", "prompt"}

\* Until a NUL is typed the row shows the prompt and, up to the cursor, the command.
Screen ==
  /\ typedLine \in Seq(Cell) /\ row \in Seq(Cell) /\ silent \in BOOLEAN
  /\ Len(typedLine) < CmdMax /\ cursor \in Nat /\ cursor <= Len(row) /\ PromptLen <= Len(row)
  /\ ~ silent => /\ cursor = PromptLen + Len(typedLine)
                 /\ \A i \in 1 .. PromptLen : row[i] = "prompt"
                 /\ \A i \in 1 .. Len(typedLine) : row[PromptLen + i] = typedLine[i]

ConsoleInv == ConsoleShapes /\ Rings /\ Handshakes /\ Arranged /\ Screen

\* What the messages carry.
Carried(q) == [i \in DOMAIN q |-> q[i].ch]

LEMMA InboxAppend ==
  ASSUME NEW q \in Seq(Messages), NEW m \in Messages
  PROVE  /\ Append(q, m) \in Seq(Messages)
         /\ Len(Append(q, m)) = Len(q) + 1 /\ DOMAIN Append(q, m) = 1 .. Len(q) + 1
         /\ \A i \in 1 .. Len(q) : Append(q, m)[i] = q[i]
         /\ Append(q, m)[Len(q) + 1] = m
OBVIOUS

LEMMA InboxTail ==
  ASSUME NEW q \in Seq(Messages), q # <<>>
  PROVE  /\ Tail(q) \in Seq(Messages) /\ DOMAIN q = 1 .. Len(q) /\ Len(q) \in Nat \ {0}
         /\ Head(q) = q[1] /\ q[1] \in Messages
         /\ Len(Tail(q)) = Len(q) - 1 /\ DOMAIN Tail(q) = 1 .. Len(q) - 1
         /\ \A i \in 1 .. Len(q) - 1 : Tail(q)[i] = q[i + 1]
OBVIOUS

LEMMA CarriedIs ==
  ASSUME NEW q \in Seq(Messages)
  PROVE  /\ Carried(q) \in Seq(Nat) /\ Len(Carried(q)) = Len(q)
         /\ \A i \in 1 .. Len(q) : Carried(q)[i] = q[i].ch
<1>1. DOMAIN q = 1 .. Len(q) /\ Len(q) \in Nat /\ \A i \in 1 .. Len(q) : q[i].ch \in Nat
  <2>1. \A m \in Messages : m.ch \in Nat
    BY DEF Messages
  <2>2. \A i \in 1 .. Len(q) : q[i] \in Messages
    OBVIOUS
  <2> QED
    BY <2>1, <2>2
<1>2. Carried(q) = [i \in 1 .. Len(q) |-> q[i].ch]
  BY <1>1 DEF Carried
<1>3. Carried(q) \in [1 .. Len(q) -> Nat]
  BY <1>1, <1>2
<1> QED
  BY <1>1, <1>2, <1>3, ListIs

LEMMA CarriedAppend ==
  ASSUME NEW q \in Seq(Messages), NEW m \in Messages
  PROVE  Carried(Append(q, m)) = Carried(q) \o <<m.ch>>
<1>1. PICK r, c, d, e, l : /\ r = Append(q, m) /\ c = Carried(q) /\ d = Carried(r) /\ e = <<m.ch>>
                           /\ l = Len(q)
  OBVIOUS
<1>2. r \in Seq(Messages) /\ Len(r) = l + 1 /\ (\A i \in 1 .. l : r[i] = q[i]) /\ r[l + 1] = m /\ l \in Nat
  BY <1>1, InboxAppend
<1>3. c \in Seq(Nat) /\ Len(c) = l /\ \A i \in 1 .. l : c[i] = q[i].ch
  BY <1>1, CarriedIs
<1>4. d \in Seq(Nat) /\ Len(d) = Len(r) /\ \A i \in 1 .. Len(r) : d[i] = r[i].ch
  BY <1>1, <1>2, CarriedIs
<1>5. m.ch \in Nat
  BY DEF Messages
<1>6. e \in Seq(Nat) /\ Len(e) = 1 /\ e[1] = m.ch
  BY <1>1, <1>5, OneIs
<1>7. /\ c \o e \in Seq(Nat) /\ Len(c \o e) = Len(c) + Len(e)
      /\ \A i \in 1 .. Len(c) : (c \o e)[i] = c[i]
      /\ \A i \in 1 .. Len(e) : (c \o e)[Len(c) + i] = e[i]
  BY <1>3, <1>6, ConcatIs
<1>8. PICK f : f = c \o e
  OBVIOUS
<1>9. f \in Seq(Nat) /\ Len(f) = l + 1 /\ (\A i \in 1 .. l : f[i] = q[i].ch) /\ f[l + 1] = m.ch
  BY <1>2, <1>3, <1>6, <1>7, <1>8
<1>10. \A i \in 1 .. l + 1 : i \in 1 .. l \/ i = l + 1
  BY <1>2
<1>11. \A i \in 1 .. l + 1 : d[i] = f[i]
  BY <1>2, <1>4, <1>9, <1>10
<1>12. d = f
  BY <1>2, <1>4, <1>9, <1>11, SameSeq
<1> QED
  BY <1>1, <1>8, <1>12

LEMMA CarriedTail ==
  ASSUME NEW q \in Seq(Messages), q # <<>>
  PROVE  Carried(q) = <<Head(q).ch>> \o Carried(Tail(q))
<1>1. PICK r, c, d, e, l : /\ r = Tail(q) /\ c = Carried(q) /\ d = Carried(r) /\ e = <<Head(q).ch>>
                           /\ l = Len(q)
  OBVIOUS
<1>2. r \in Seq(Messages) /\ Len(r) = l - 1 /\ (\A i \in 1 .. l - 1 : r[i] = q[i + 1]) /\ l \in Nat \ {0}
  BY <1>1, InboxTail
<1>3. c \in Seq(Nat) /\ Len(c) = l /\ \A i \in 1 .. l : c[i] = q[i].ch
  BY <1>1, CarriedIs
<1>4. d \in Seq(Nat) /\ Len(d) = Len(r) /\ \A i \in 1 .. Len(r) : d[i] = r[i].ch
  BY <1>1, <1>2, CarriedIs
<1>5. Head(q).ch \in Nat /\ Head(q).ch = q[1].ch
  BY InboxTail DEF Messages
<1>6. e \in Seq(Nat) /\ Len(e) = 1 /\ e[1] = q[1].ch
  BY <1>1, <1>5, OneIs
<1>7. /\ e \o d \in Seq(Nat) /\ Len(e \o d) = Len(e) + Len(d)
      /\ \A i \in 1 .. Len(e) : (e \o d)[i] = e[i]
      /\ \A i \in 1 .. Len(d) : (e \o d)[Len(e) + i] = d[i]
  BY <1>4, <1>6, ConcatIs
<1>8. PICK f : f = e \o d
  OBVIOUS
<1>9. f \in Seq(Nat) /\ Len(f) = l /\ f[1] = q[1].ch /\ \A i \in 1 .. l - 1 : f[1 + i] = d[i]
  BY <1>2, <1>4, <1>6, <1>7, <1>8
<1>10. \A i \in 1 .. l : i = 1 \/ (i - 1 \in 1 .. l - 1 /\ 1 + (i - 1) = i /\ (i - 1) + 1 = i)
  BY <1>2
<1>11. \A i \in 1 .. l - 1 : d[i] = q[i + 1].ch
  BY <1>2, <1>4
<1>12. \A i \in 1 .. l : c[i] = f[i]
  <2>1. SUFFICES ASSUME NEW i \in 1 .. l PROVE c[i] = f[i]
    OBVIOUS
  <2>2. CASE i = 1
    BY <1>3, <1>9, <2>2
  <2>3. CASE i # 1
    <3>1. PICK k : k = i - 1
      OBVIOUS
    <3>2. k \in 1 .. l - 1 /\ 1 + k = i /\ k + 1 = i
      BY <1>10, <2>3, <3>1
    <3>3. f[i] = d[k] /\ d[k] = q[i].ch
      BY <1>9, <1>11, <3>2
    <3> QED
      BY <1>3, <3>3
  <2> QED
    BY <2>2, <2>3
<1>13. c = f
  BY <1>3, <1>9, <1>12, SameSeq
<1> QED
  BY <1>1, <1>8, <1>13

-----------------------------------------------------------------------------
(* Shapes, rings and who waits for what.                                   *)

Base == ConsoleShapes /\ Rings /\ Handshakes

LEMMA Slotted == EventSlots \in Nat \ {0} /\ ReadSlots \in Nat \ {0}
BY ConsoleAssumption DEF ConsoleAssumption

LEMMA RingHolds ==
  ASSUME NEW n \in Nat \ {0}
  PROVE  IsRing(Ring(n), n) /\ Ring(n).size = 0
BY DEF Ring, IsRing, OtherEvent

LEMMA BaseInit == ConsoleInit => Base
<1>1. SUFFICES ASSUME ConsoleInit PROVE Base
  OBVIOUS
<1>2. text \in Seq(STRING) /\ Len(text) \in Nat /\ DOMAIN text = 1 .. Len(text)
  BY <1>1, ConsoleAssumption DEF ConsoleAssumption, ConsoleInit
<1>3. Drawn = 0
  <2>1. typed = 0 /\ fifo = <<>>
    BY <1>1 DEF ConsoleInit
  <2>2. Len(fifo) = 0
    BY <2>1
  <2>3. Drawn = typed - Len(fifo)
    BY DEF Drawn
  <2>4. Drawn = 0 - 0
    BY <2>1, <2>2, <2>3, Zenon
  <2> QED
    BY <2>4
<1>4. ConsoleShapes
  <2>1. typed \in 0 .. Len(text) /\ fifo \in Seq(Nat) /\ \A i \in 1 .. Len(fifo) : fifo[i] = Drawn + i
    BY <1>1, <1>2 DEF ConsoleInit
  <2>2. burst \in [1 .. Len(text) -> Nat] /\ \A n \in 1 .. Len(text) : burst[n] = 0 /\ ~ (n <= 0)
    BY <1>1, <1>2 DEF ConsoleInit
  <2>3. uartInbox \in Seq(Messages) /\ taken \in Seq(Nat) /\ reader \in BOOLEAN /\ overrun \in BOOLEAN
    <3>1. uartInbox = <<>> /\ taken = <<>> /\ reader = FALSE /\ overrun = FALSE
      BY <1>1 DEF ConsoleInit
    <3>2. \A S : <<>> \in Seq(S)
      OBVIOUS
    <3> QED
      BY <3>1, <3>2
  <2>4. /\ notifier \in [at : {"register", "await", "waiting", "woken", "sent"}, ev : Nat]
        /\ shell \in [at : {"poll", "polled", "get", "reading", "got"}, got : Nat]
    BY <1>1 DEF ConsoleInit, OtherEvent
  <2>5. uartAt \in {"register", "look", "serve"} /\ sees \in BOOLEAN
    BY <1>1 DEF ConsoleInit
  <2> QED
    BY <1>2, <1>3, <2>1, <2>2, <2>3, <2>4, <2>5 DEF ConsoleShapes
<1>5. Rings
  <2>1. event_q = Ring(EventSlots) /\ unread = Ring(ReadSlots)
    BY <1>1 DEF ConsoleInit
  <2>2. /\ IsRing(event_q, EventSlots) /\ event_q.size = 0
        /\ IsRing(unread, ReadSlots) /\ unread.size = 0
    BY <2>1, Slotted, RingHolds
  <2> QED
    BY <2>2, Slotted DEF Rings
<1>6. Handshakes
  BY <1>1 DEF ConsoleInit, Handshakes
<1> QED
  BY <1>4, <1>5, <1>6 DEF Base

\* The UART's side.
LEMMA TypeBase ==
  ASSUME Base, Type
  PROVE  Base'
<1>1. /\ typed < Len(text) /\ typed' = typed + 1 /\ fifo' = Append(fifo, typed + 1)
      /\ text' = text /\ burst' = burst /\ event_q' = event_q /\ notifier' = notifier
      /\ uartInbox' = uartInbox /\ unread' = unread /\ reader' = reader /\ shell' = shell
      /\ taken' = taken /\ overrun' = overrun /\ uartAt' = uartAt /\ sees' = sees
  BY DEF Type, bootVars
<1>2. PICK t, l, f, g : t = typed /\ l = Len(text) /\ f = fifo /\ g = fifo'
  OBVIOUS
<1>3. /\ l \in Nat /\ t \in 0 .. l /\ t < l /\ f \in Seq(Nat) /\ Drawn = t - Len(f) /\ Drawn \in Nat
      /\ \A i \in 1 .. Len(f) : f[i] = Drawn + i
  BY <1>1, <1>2 DEF Base, ConsoleShapes, Drawn
<1>4. /\ g \in Seq(Nat) /\ Len(g) = Len(f) + 1 /\ Len(f) \in Nat /\ g[Len(f) + 1] = t + 1
      /\ \A i \in 1 .. Len(f) : g[i] = f[i]
  BY <1>1, <1>2, <1>3
<1>5. Drawn' = Drawn /\ typed' \in 0 .. Len(text')
  BY <1>1, <1>2, <1>3, <1>4 DEF Drawn
<1>6. \A i \in 1 .. Len(g) : g[i] = Drawn + i
  <2>1. \A i \in 1 .. Len(g) : i \in 1 .. Len(f) \/ i = Len(f) + 1
    BY <1>4
  <2>2. t + 1 = Drawn + (Len(f) + 1)
    BY <1>3, <1>4
  <2> QED
    BY <1>3, <1>4, <2>1, <2>2
<1>7. ConsoleShapes'
  <2>1. fifo' \in Seq(Nat) /\ \A i \in 1 .. Len(fifo') : fifo'[i] = Drawn' + i
    BY <1>2, <1>4, <1>5, <1>6
  <2> QED
    BY <1>1, <1>5, <2>1 DEF Base, ConsoleShapes
<1>8. Rings' /\ Handshakes'
  BY <1>1 DEF Base, Rings, Handshakes
<1> QED
  BY <1>7, <1>8 DEF Base

\* What the interrupt finds: the FIFO holds the next characters.
LEMMA FifoIs ==
  ASSUME Base, fifo # <<>>
  PROVE  /\ Head(fifo) = Drawn + 1 /\ Head(fifo) \in Nat /\ Drained \in Seq(Nat)
         /\ Len(Drained) = typed - Drawn - 1 /\ typed - Drawn - 1 \in Nat
         /\ \A i \in 1 .. Len(Drained) : Drained[i] = Drawn + 1 + i
<1>1. PICK f, d, g : f = fifo /\ d = Drawn /\ g = Drained
  OBVIOUS
<1>2. /\ f \in Seq(Nat) /\ f # <<>> /\ d \in Nat /\ (\A i \in 1 .. Len(f) : f[i] = d + i)
      /\ d = typed - Len(f) /\ typed \in Nat
  BY <1>1 DEF Base, ConsoleShapes, Drawn
<1>3. g = Tail(f) /\ Len(f) \in Nat \ {0}
  BY <1>1, <1>2 DEF Drained
<1>4. /\ g \in Seq(Nat) /\ Len(g) = Len(f) - 1 /\ Head(f) = f[1]
      /\ \A i \in 1 .. Len(f) - 1 : g[i] = f[i + 1]
  BY <1>2, <1>3
<1>5. f[1] = d + 1
  BY <1>2, <1>3
<1>6. typed - d - 1 = Len(f) - 1
  BY <1>2, <1>3
<1>7. \A i \in 1 .. Len(f) - 1 : g[i] = d + 1 + i
  <2>1. \A i \in 1 .. Len(f) - 1 : i + 1 \in 1 .. Len(f) /\ d + (i + 1) = d + 1 + i
    BY <1>2, <1>3
  <2> QED
    BY <1>2, <1>4, <2>1
<1> QED
  BY <1>1, <1>2, <1>3, <1>4, <1>5, <1>6, <1>7

\* The interrupt has a number of its own.
LEMMA BurstIs ==
  ASSUME Base, UartInterrupt
  PROVE  \E this : /\ this = 1 + Max(ToSet(burst)) /\ this \in Nat \ {0} /\ this <= typed
                   /\ \A n \in 1 .. Len(text) : burst[n] < this
                   /\ \A n \in 1 .. Len(text) : burst'[n] = IF n > Drawn /\ n <= typed THEN this ELSE burst[n]
                   /\ burst' \in [1 .. Len(text) -> Nat]
<1>1. PICK b, l, d, t, f : b = burst /\ l = Len(text) /\ d = Drawn /\ t = typed /\ f = fifo
  OBVIOUS
<1>2. /\ l \in Nat /\ t \in 0 .. l /\ d \in Nat /\ b \in [1 .. l -> Nat]
      /\ (\A n \in 1 .. l : b[n] <= d)
      /\ f \in Seq(Nat) /\ f # <<>> /\ d = t - Len(f) /\ \A i \in 1 .. Len(f) : f[i] = d + i
  BY <1>1 DEF Base, ConsoleShapes, UartInterrupt, Drawn
<1>3. Len(f) \in Nat \ {0} /\ t > d /\ l # 0
  BY <1>2
<1>4. PICK S : S = ToSet(b)
  OBVIOUS
<1>5. S = {b[n] : n \in 1 .. l}
  BY <1>2, <1>4 DEF ToSet
<1>6. S \subseteq Nat /\ S # {} /\ \A x \in S : x <= d
  BY <1>2, <1>3, <1>5
<1>7. Max(S) \in S /\ \A x \in S : x <= Max(S)
  BY <1>2, <1>6, MaxIs
<1>8. PICK this : this = 1 + Max(S)
  OBVIOUS
<1>9. this \in Nat \ {0} /\ this <= d + 1 /\ \A n \in 1 .. l : b[n] < this
  <2>1. Max(S) \in Nat /\ Max(S) <= d
    BY <1>6, <1>7
  <2>2. \A n \in 1 .. l : b[n] \in S /\ b[n] \in Nat
    BY <1>2, <1>5
  <2>3. this \in Nat \ {0} /\ this <= d + 1
    BY <1>2, <1>8, <2>1
  <2>4. \A n \in 1 .. l : b[n] < this
    <3>1. ASSUME NEW n \in 1 .. l PROVE b[n] < this
      <4>1. b[n] <= Max(S) /\ b[n] \in Nat
        BY <1>7, <2>2
      <4> QED
        BY <1>8, <2>1, <4>1
    <3> QED
      BY <3>1
  <2> QED
    BY <2>3, <2>4
<1>10. \A n \in 1 .. l : n \in ToSet(f) <=> n > d /\ n <= t
  <2>1. ToSet(f) = {f[i] : i \in 1 .. Len(f)}
    BY <1>2 DEF ToSet
  <2>2. ASSUME NEW n \in 1 .. l, n \in ToSet(f) PROVE n > d /\ n <= t
    <3>1. PICK i \in 1 .. Len(f) : n = f[i]
      BY <2>1, <2>2
    <3>2. n = d + i
      BY <1>2, <3>1
    <3> QED
      BY <1>2, <1>3, <3>1, <3>2
  <2>3. ASSUME NEW n \in 1 .. l, n > d, n <= t PROVE n \in ToSet(f)
    <3>1. n - d \in 1 .. Len(f) /\ d + (n - d) = n
      BY <1>2, <1>3, <2>3
    <3>2. f[n - d] = n
      BY <1>2, <3>1
    <3> QED
      BY <2>1, <3>1, <3>2
  <2> QED
    BY <2>2, <2>3
<1>11. burst' = [n \in DOMAIN b |-> IF n \in ToSet(f) THEN this ELSE b[n]]
  BY <1>1, <1>4, <1>8 DEF UartInterrupt
<1>12. DOMAIN b = 1 .. l
  BY <1>2
<1>13. \A n \in 1 .. l : burst'[n] = IF n > d /\ n <= t THEN this ELSE b[n]
  BY <1>10, <1>11, <1>12
<1>14. burst' \in [1 .. l -> Nat]
  BY <1>2, <1>9, <1>11, <1>12
<1>15. this <= t
  BY <1>2, <1>3, <1>9
<1> QED
  BY <1>1, <1>4, <1>8, <1>9, <1>13, <1>14, <1>15

\* An event is handed to the notifier or recorded; either way one was taken.
LEMMA HandIs ==
  ASSUME NEW e, IsRing(e, EventSlots), NEW ev \in Nat, Handshakes, ConsoleShapes,
         IF notifier.at = "waiting"
           THEN notifier' = [at |-> "woken", ev |-> ev] /\ event_q' = e
           ELSE notifier' = notifier /\ event_q' = Put(e, ev),
         overrun' = (overrun \/ Overfull(event_q')),
         shell' = shell, reader' = reader, uartInbox' = uartInbox, unread' = unread, Rings
  PROVE  /\ Rings' /\ Handshakes' /\ overrun' \in BOOLEAN
         /\ notifier' \in [at : {"register", "await", "waiting", "woken", "sent"}, ev : Nat]
         /\ notifier'.at \in {"woken", notifier.at} /\ notifier'.at # "waiting"
<1>1. PICK f : f = event_q'
  OBVIOUS
<1>2. IsRing(f, EventSlots)
  BY <1>1, PutRing, Slotted
<1>3. Slots(f) = EventSlots
  BY <1>2, SlotsIs, Slotted
<1>4. ~ overrun' => ~ overrun /\ f.size <= EventSlots
  <2>1. f.size \in Nat /\ EventSlots \in Nat
    BY <1>2, Slotted DEF IsRing
  <2>2. Overfull(f) <=> ~ (f.size <= EventSlots)
    BY <1>3, <2>1 DEF Overfull
  <2>3. overrun' = (overrun \/ Overfull(f))
    BY <1>1
  <2> QED
    BY <2>2, <2>3, Zenon
<1>5. Rings'
  BY <1>1, <1>2, <1>4 DEF Rings
<1>6. /\ notifier \in [at : {"register", "await", "waiting", "woken", "sent"}, ev : Nat]
      /\ overrun \in BOOLEAN
  BY DEF ConsoleShapes
<1>7. /\ notifier' \in [at : {"register", "await", "waiting", "woken", "sent"}, ev : Nat]
      /\ notifier'.at \in {"woken", notifier.at} /\ notifier'.at # "waiting"
      /\ (notifier.at # "waiting" => notifier' = notifier)
      /\ (notifier.at = "waiting" => notifier'.at = "woken")
  BY <1>6
<1>8. overrun' \in BOOLEAN
  BY <1>6 DEF Overfull
<1>9. Handshakes'
  BY <1>7 DEF Handshakes
<1> QED
  BY <1>5, <1>7, <1>8, <1>9

LEMMA UartBase ==
  ASSUME Base, UartInterrupt
  PROVE  Base'
<1>1. /\ fifo # <<>> /\ fifo' = <<>> /\ Hand(Head(fifo), PutAll(event_q, Drained))
      /\ text' = text /\ typed' = typed /\ uartInbox' = uartInbox /\ unread' = unread
      /\ reader' = reader /\ shell' = shell /\ taken' = taken /\ uartAt' = uartAt /\ sees' = sees
  BY DEF UartInterrupt, bootVars
<1>2. PICK h, e : h = Head(fifo) /\ e = PutAll(event_q, Drained)
  OBVIOUS
<1>3. h \in Nat /\ Drained \in Seq(Nat) /\ typed - Drawn - 1 \in Nat
  BY <1>1, <1>2, FifoIs
<1>4. IsRing(e, EventSlots)
  <2>1. IsRing(event_q, EventSlots)
    BY DEF Base, Rings
  <2> QED
    BY <1>2, <1>3, <2>1, Slotted, PutAllIs
<1>5. /\ IF notifier.at = "waiting"
           THEN notifier' = [at |-> "woken", ev |-> h] /\ event_q' = e
           ELSE notifier' = notifier /\ event_q' = Put(e, h)
      /\ overrun' = (overrun \/ Overfull(event_q'))
  BY <1>1, <1>2 DEF Hand
<1>6. /\ Rings' /\ Handshakes' /\ overrun' \in BOOLEAN
      /\ notifier' \in [at : {"register", "await", "waiting", "woken", "sent"}, ev : Nat]
  BY <1>1, <1>3, <1>4, <1>5, HandIs DEF Base
<1>7. typed \in Nat /\ Len(text) \in Nat /\ Drawn \in Nat /\ typed <= Len(text) /\ Drawn < typed
  BY <1>3 DEF Base, ConsoleShapes
<1>8. Drawn' = typed
  BY <1>1, <1>7 DEF Drawn
<1>9. /\ burst' \in [1 .. Len(text) -> Nat]
      /\ \A n \in 1 .. Len(text) : burst'[n] <= typed /\ (burst'[n] # 0 <=> n <= typed)
  <2>1. PICK this : /\ this \in Nat \ {0} /\ this <= typed
                    /\ \A n \in 1 .. Len(text) : burst'[n] = IF n > Drawn /\ n <= typed THEN this ELSE burst[n]
                    /\ burst' \in [1 .. Len(text) -> Nat]
    BY BurstIs
  <2>2. \A n \in 1 .. Len(text) : burst[n] \in Nat /\ burst[n] <= Drawn /\ (burst[n] # 0 <=> n <= Drawn)
    BY DEF Base, ConsoleShapes
  <2>3. ASSUME NEW n \in 1 .. Len(text) PROVE burst'[n] <= typed /\ (burst'[n] # 0 <=> n <= typed)
    <3>1. CASE n > Drawn /\ n <= typed
      BY <2>1, <3>1
    <3>2. CASE ~ (n > Drawn /\ n <= typed)
      <4>1. burst'[n] = burst[n]
        BY <2>1, <3>2
      <4>2. n <= Drawn <=> n <= typed
        BY <1>7, <3>2
      <4> QED
        BY <1>7, <2>2, <4>1, <4>2
    <3> QED
      BY <3>1, <3>2
  <2> QED
    BY <2>1, <2>3
<1>10. ConsoleShapes'
  <2>1. fifo' \in Seq(Nat) /\ Len(fifo') = 0 /\ \A i \in 1 .. Len(fifo') : fifo'[i] = Drawn' + i
    BY <1>1
  <2>2. /\ text' \in Seq(STRING) /\ typed' \in 0 .. Len(text') /\ Drawn' \in Nat
        /\ uartInbox' \in Seq(Messages) /\ taken' \in Seq(Nat) /\ reader' \in BOOLEAN
        /\ shell' \in [at : {"poll", "polled", "get", "reading", "got"}, got : Nat]
        /\ uartAt' \in {"register", "look", "serve"} /\ sees' \in BOOLEAN
    BY <1>1, <1>7, <1>8 DEF Base, ConsoleShapes
  <2> QED
    BY <1>1, <1>6, <1>8, <1>9, <2>1, <2>2 DEF ConsoleShapes
<1> QED
  BY <1>6, <1>10 DEF Base

LEMMA OtherBase ==
  ASSUME Base, OtherInterrupt
  PROVE  Base'
<1>1. /\ Hand(OtherEvent, event_q) /\ fifo' = fifo /\ burst' = burst
      /\ text' = text /\ typed' = typed /\ uartInbox' = uartInbox /\ unread' = unread
      /\ reader' = reader /\ shell' = shell /\ taken' = taken /\ uartAt' = uartAt /\ sees' = sees
  BY DEF OtherInterrupt, bootVars
<1>2. PICK h, e : h = OtherEvent /\ e = event_q
  OBVIOUS
<1>3. h \in Nat /\ IsRing(e, EventSlots)
  BY <1>2 DEF Base, Rings, OtherEvent
<1>4. /\ IF notifier.at = "waiting"
           THEN notifier' = [at |-> "woken", ev |-> h] /\ event_q' = e
           ELSE notifier' = notifier /\ event_q' = Put(e, h)
      /\ overrun' = (overrun \/ Overfull(event_q'))
  BY <1>1, <1>2 DEF Hand
<1>5. /\ Rings' /\ Handshakes' /\ overrun' \in BOOLEAN
      /\ notifier' \in [at : {"register", "await", "waiting", "woken", "sent"}, ev : Nat]
  BY <1>1, <1>3, <1>4, HandIs DEF Base
<1>6. ConsoleShapes'
  BY <1>1, <1>5 DEF Base, ConsoleShapes, Drawn
<1> QED
  BY <1>5, <1>6 DEF Base

\* The notifier's side.
LEMMA AwaitsBase ==
  ASSUME Base, IoNotifierAwaits
  PROVE  Base'
<1>1. /\ notifier.at = "await" /\ text' = text /\ typed' = typed /\ fifo' = fifo /\ burst' = burst
      /\ uartInbox' = uartInbox /\ unread' = unread /\ reader' = reader /\ shell' = shell
      /\ taken' = taken /\ overrun' = overrun /\ uartAt' = uartAt /\ sees' = sees
      /\ IF event_q.size > 0
           THEN notifier' = [at |-> "woken", ev |-> Oldest(event_q)] /\ event_q' = Dropped(event_q)
           ELSE notifier' = [notifier EXCEPT !.at = "waiting"] /\ event_q' = event_q
  BY DEF IoNotifierAwaits, bootVars
<1>2. PICK e, f : e = event_q /\ f = event_q'
  OBVIOUS
<1>3. IsRing(e, EventSlots) /\ (~ overrun => e.size <= EventSlots) /\ e.size \in Nat
  BY <1>2 DEF Base, Rings, IsRing
<1>4. notifier \in [at : {"register", "await", "waiting", "woken", "sent"}, ev : Nat]
  BY DEF Base, ConsoleShapes
<1>5. /\ IsRing(f, EventSlots) /\ f.size <= e.size
      /\ notifier' \in [at : {"register", "await", "waiting", "woken", "sent"}, ev : Nat]
      /\ notifier'.at \in {"woken", "waiting"}
      /\ (notifier'.at = "waiting" => f.size = 0 /\ notifier'.ev = notifier.ev)
  <2>1. CASE e.size > 0
    <3>1. /\ IsRing(Dropped(e), EventSlots) /\ Dropped(e).size = e.size - 1
          /\ Oldest(e) \in Nat
      BY <1>3, <2>1, Slotted, DroppedRing
    <3>2. f = Dropped(e) /\ notifier' = [at |-> "woken", ev |-> Oldest(e)]
      BY <1>1, <1>2, <2>1
    <3>3. f.size <= e.size
      BY <1>3, <3>1, <3>2
    <3> QED
      BY <3>1, <3>2, <3>3
  <2>2. CASE ~ (e.size > 0)
    <3>1. f = e /\ notifier' = [notifier EXCEPT !.at = "waiting"] /\ e.size = 0
      BY <1>1, <1>2, <1>3, <2>2
    <3> QED
      BY <1>3, <1>4, <3>1
  <2> QED
    BY <2>1, <2>2
<1>6. Rings'
  <2>1. f.size \in Nat /\ EventSlots \in Nat
    BY <1>5, Slotted DEF IsRing
  <2>2. ~ overrun' => f.size <= EventSlots
    BY <1>1, <1>3, <1>5, <2>1
  <2>3. PICK u : u = unread /\ IsRing(u, ReadSlots) /\ (~ overrun => u.size <= ReadSlots)
    BY DEF Base, Rings
  <2>4. f = event_q' /\ u = unread' /\ (~ overrun' => u.size <= ReadSlots)
    BY <1>1, <1>2, <2>3
  <2> QED
    BY <1>5, <2>2, <2>3, <2>4 DEF Rings
<1>7. Handshakes'
  BY <1>1, <1>2, <1>5 DEF Base, Handshakes
<1>8. ConsoleShapes'
  BY <1>1, <1>5 DEF Base, ConsoleShapes, Drawn
<1> QED
  BY <1>6, <1>7, <1>8 DEF Base

\* A message is put into the server's queue.
LEMMA SentMessage ==
  ASSUME Base, NEW m \in Messages, uartInbox' = Append(uartInbox, m),
         \A i \in DOMAIN uartInbox : (uartInbox[i].type = "RX" <=> m.type = "RX") => FALSE
  PROVE  /\ uartInbox' \in Seq(Messages)
         /\ \A i \in DOMAIN uartInbox' : uartInbox'[i] = m \/ (i \in DOMAIN uartInbox /\ uartInbox'[i] = uartInbox[i])
         /\ \A i, j \in DOMAIN uartInbox' :
              (uartInbox'[i].type = "RX" <=> uartInbox'[j].type = "RX") => i = j
<1>1. PICK q, r, l : q = uartInbox /\ r = uartInbox' /\ l = Len(q)
  OBVIOUS
<1>2. q \in Seq(Messages) /\ DOMAIN q = 1 .. l /\ l \in Nat
  BY <1>1 DEF Base, ConsoleShapes
<1>3. /\ r \in Seq(Messages) /\ DOMAIN r = 1 .. l + 1
      /\ (\A i \in 1 .. l : r[i] = q[i]) /\ r[l + 1] = m
  BY <1>1, <1>2, InboxAppend
<1>4. \A i \in 1 .. l + 1 : i \in 1 .. l \/ i = l + 1
  BY <1>2
<1>5. \A i, j \in 1 .. l : (q[i].type = "RX" <=> q[j].type = "RX") => i = j
  BY <1>1, <1>2 DEF Base, Handshakes
<1>6. \A i \in 1 .. l : (q[i].type = "RX" <=> m.type = "RX") => FALSE
  BY <1>1, <1>2
<1>7. \A i, j \in 1 .. l + 1 : (r[i].type = "RX" <=> r[j].type = "RX") => i = j
  BY <1>3, <1>4, <1>5, <1>6
<1>8. \A i \in 1 .. l + 1 : r[i] = m \/ (i \in 1 .. l /\ r[i] = q[i])
  BY <1>3, <1>4
<1> QED
  BY <1>1, <1>2, <1>3, <1>7, <1>8

LEMMA SendsBase ==
  ASSUME Base, IoNotifierSends
  PROVE  Base'
<1>1. /\ notifier.at = "woken" /\ text' = text /\ typed' = typed /\ fifo' = fifo /\ burst' = burst
      /\ event_q' = event_q /\ unread' = unread /\ reader' = reader /\ shell' = shell
      /\ taken' = taken /\ overrun' = overrun /\ uartAt' = uartAt /\ sees' = sees
      /\ \/ /\ notifier' = [at |-> "await", ev |-> OtherEvent]
            /\ uartInbox' = uartInbox
         \/ /\ notifier' = [at |-> "sent", ev |-> OtherEvent]
            /\ uartInbox' = Append(uartInbox, [type |-> "RX", ch |-> notifier.ev])
  BY DEF IoNotifierSends
<1>2. /\ notifier \in [at : {"register", "await", "waiting", "woken", "sent"}, ev : Nat]
      /\ OtherEvent \in Nat
  BY DEF Base, ConsoleShapes, OtherEvent
<1>3. Rings'
  BY <1>1 DEF Base, Rings
<1>4. CASE notifier' = [at |-> "await", ev |-> OtherEvent] /\ uartInbox' = uartInbox
  <2>1. /\ notifier' \in [at : {"register", "await", "waiting", "woken", "sent"}, ev : Nat]
        /\ notifier'.at = "await" /\ notifier'.ev = OtherEvent /\ uartInbox' = uartInbox
    BY <1>2, <1>4
  <2>2. Handshakes'
    BY <1>1, <2>1 DEF Base, Handshakes
  <2>3. ConsoleShapes'
    BY <1>1, <2>1 DEF Base, ConsoleShapes, Drawn
  <2> QED
    BY <1>3, <2>2, <2>3 DEF Base
<1>5. CASE /\ notifier' = [at |-> "sent", ev |-> OtherEvent]
           /\ uartInbox' = Append(uartInbox, [type |-> "RX", ch |-> notifier.ev])
  <2>1. PICK m : m = [type |-> "RX", ch |-> notifier.ev]
    OBVIOUS
  <2>2. m \in Messages /\ m.type = "RX" /\ uartInbox' = Append(uartInbox, m)
    BY <1>2, <1>5, <2>1 DEF Messages
  <2>3. \A i \in DOMAIN uartInbox : (uartInbox[i].type = "RX" <=> m.type = "RX") => FALSE
    BY <1>1, <2>2 DEF Base, Handshakes
  <2>4. /\ uartInbox' \in Seq(Messages)
        /\ \A i \in DOMAIN uartInbox' : uartInbox'[i] = m \/ (i \in DOMAIN uartInbox /\ uartInbox'[i] = uartInbox[i])
        /\ \A i, j \in DOMAIN uartInbox' :
             (uartInbox'[i].type = "RX" <=> uartInbox'[j].type = "RX") => i = j
    BY <2>2, <2>3, SentMessage
  <2>5. /\ notifier' \in [at : {"register", "await", "waiting", "woken", "sent"}, ev : Nat]
        /\ notifier'.at = "sent" /\ notifier'.ev = OtherEvent
    BY <1>2, <1>5
  <2>6. Handshakes'
    BY <1>1, <2>2, <2>4, <2>5 DEF Base, Handshakes
  <2>7. ConsoleShapes'
    BY <1>1, <2>4, <2>5 DEF Base, ConsoleShapes, Drawn
  <2> QED
    BY <1>3, <2>6, <2>7 DEF Base
<1> QED
  BY <1>1, <1>4, <1>5

\* The first steps of the two: each registers, and the server looks the other up.
LEMMA BootBase ==
  ASSUME Base, IoNotifierRegisters \/ ConsoleRegisters \/ ConsoleLooks
  PROVE  Base'
<1>1. /\ text' = text /\ typed' = typed /\ fifo' = fifo /\ burst' = burst
      /\ event_q' = event_q /\ unread' = unread /\ reader' = reader /\ shell' = shell
      /\ taken' = taken /\ overrun' = overrun /\ uartInbox' = uartInbox
  BY DEF IoNotifierRegisters, ConsoleRegisters, ConsoleLooks
<1>2. notifier \in [at : {"register", "await", "waiting", "woken", "sent"}, ev : Nat]
  BY DEF Base, ConsoleShapes
<1>3. /\ notifier' \in [at : {"register", "await", "waiting", "woken", "sent"}, ev : Nat]
      /\ notifier' = notifier \/ (notifier.at = "register" /\ notifier'.at = "await" /\ notifier'.ev = notifier.ev)
  BY <1>2 DEF IoNotifierRegisters, ConsoleRegisters, ConsoleLooks
<1>4. uartAt' \in {"register", "look", "serve"} /\ sees' \in BOOLEAN
  <2>1. uartAt \in {"register", "look", "serve"} /\ sees \in BOOLEAN
    BY DEF Base, ConsoleShapes
  <2>2. uartAt' = uartAt \/ uartAt' \in {"look", "serve"}
    BY DEF IoNotifierRegisters, ConsoleRegisters, ConsoleLooks
  <2>3. sees' = sees \/ sees' = ("io_notifier" \in registered)
    BY DEF IoNotifierRegisters, ConsoleRegisters, ConsoleLooks
  <2>4. sees' \in BOOLEAN
    <3>1. PICK found : found = ("io_notifier" \in registered)
      OBVIOUS
    <3>2. found \in BOOLEAN
      BY <3>1
    <3> QED
      BY <2>1, <2>3, <3>1, <3>2
  <2> QED
    BY <2>1, <2>2, <2>4
<1>5. Rings'
  BY <1>1 DEF Base, Rings
<1>6. Handshakes'
  BY <1>1, <1>3 DEF Base, Handshakes
<1>7. ConsoleShapes'
  BY <1>1, <1>3, <1>4 DEF Base, ConsoleShapes, Drawn
<1> QED
  BY <1>5, <1>6, <1>7 DEF Base

\* The server's side: the other messages move up, and are of the other kind.
LEMMA ServedMessage ==
  ASSUME Base, uartInbox # <<>>, uartInbox' = Tail(uartInbox)
  PROVE  /\ uartInbox' \in Seq(Messages) /\ 1 \in DOMAIN uartInbox /\ Head(uartInbox) = uartInbox[1]
         /\ Head(uartInbox) \in Messages
         /\ \A i \in DOMAIN uartInbox' :
              /\ i + 1 \in DOMAIN uartInbox /\ uartInbox'[i] = uartInbox[i + 1]
              /\ ~ (uartInbox'[i].type = "RX" <=> Head(uartInbox).type = "RX")
         /\ \A i, j \in DOMAIN uartInbox' :
              (uartInbox'[i].type = "RX" <=> uartInbox'[j].type = "RX") => i = j
<1>1. PICK q, r, l : q = uartInbox /\ r = uartInbox' /\ l = Len(q)
  OBVIOUS
<1>2. /\ q \in Seq(Messages) /\ q # <<>> /\ r = Tail(q)
      /\ \A i, j \in DOMAIN q : (q[i].type = "RX" <=> q[j].type = "RX") => i = j
  BY <1>1 DEF Base, ConsoleShapes, Handshakes
<1>3. /\ r \in Seq(Messages) /\ DOMAIN q = 1 .. l /\ l \in Nat \ {0} /\ Head(q) = q[1]
      /\ q[1] \in Messages /\ DOMAIN r = 1 .. l - 1 /\ \A i \in 1 .. l - 1 : r[i] = q[i + 1]
  BY <1>1, <1>2, InboxTail
<1>4. 1 \in 1 .. l /\ \A i \in 1 .. l - 1 : i + 1 \in 1 .. l /\ i + 1 # 1
  BY <1>3
<1>5. \A i, j \in 1 .. l - 1 : i + 1 = j + 1 => i = j
  BY <1>3
<1>6. \A i, j \in 1 .. l - 1 : (r[i].type = "RX" <=> r[j].type = "RX") => i = j
  BY <1>2, <1>3, <1>4, <1>5
<1>7. \A i \in 1 .. l - 1 : ~ (r[i].type = "RX" <=> q[1].type = "RX")
  BY <1>2, <1>3, <1>4
<1> QED
  BY <1>1, <1>3, <1>4, <1>6, <1>7

\* match_getc.
LEMMA MatchedIs ==
  ASSUME NEW c, IsRing(c, ReadSlots), NEW w \in BOOLEAN, Matched(c, w)
  PROVE  /\ IsRing(unread', ReadSlots) /\ unread'.size <= c.size /\ reader' \in BOOLEAN
         /\ \/ shell' = shell /\ reader' = w
            \/ w /\ ~ reader' /\ shell'.at = "got" /\ shell' \in [at : {"got"}, got : Nat]
<1>1. c.size \in Nat
  BY DEF IsRing
<1>2. CASE w /\ c.size > 0
  <2>1. unread' = Dropped(c) /\ reader' = FALSE /\ shell' = [at |-> "got", got |-> Oldest(c)]
    BY <1>2 DEF Matched
  <2>2. IsRing(Dropped(c), ReadSlots) /\ Dropped(c).size = c.size - 1 /\ Oldest(c) \in Nat
    BY <1>2, Slotted, DroppedRing
  <2>3. unread'.size <= c.size
    BY <1>1, <2>1, <2>2
  <2> QED
    BY <1>2, <2>1, <2>2, <2>3
<1>3. CASE ~ (w /\ c.size > 0)
  <2>1. unread' = c /\ reader' = w /\ shell' = shell
    BY <1>3 DEF Matched
  <2> QED
    BY <1>1, <2>1
<1> QED
  BY <1>2, <1>3

LEMMA ServesBase ==
  ASSUME Base, ConsoleServes
  PROVE  Base'
<1>1. /\ uartInbox # <<>> /\ uartInbox' = Tail(uartInbox) /\ text' = text /\ typed' = typed
      /\ fifo' = fifo /\ burst' = burst /\ event_q' = event_q /\ taken' = taken
      /\ uartAt' = "look" /\ sees' = sees
  BY DEF ConsoleServes
<1>2. /\ uartInbox' \in Seq(Messages) /\ 1 \in DOMAIN uartInbox /\ Head(uartInbox) = uartInbox[1]
      /\ Head(uartInbox) \in Messages
      /\ \A i \in DOMAIN uartInbox' :
           /\ i + 1 \in DOMAIN uartInbox /\ uartInbox'[i] = uartInbox[i + 1]
           /\ ~ (uartInbox'[i].type = "RX" <=> Head(uartInbox).type = "RX")
      /\ \A i, j \in DOMAIN uartInbox' :
           (uartInbox'[i].type = "RX" <=> uartInbox'[j].type = "RX") => i = j
  BY <1>1, ServedMessage
<1>3. /\ notifier \in [at : {"register", "await", "waiting", "woken", "sent"}, ev : Nat]
      /\ shell \in [at : {"poll", "polled", "get", "reading", "got"}, got : Nat]
      /\ reader \in BOOLEAN /\ overrun \in BOOLEAN
  BY DEF Base, ConsoleShapes
<1>4. PICK e, u : /\ e = event_q /\ IsRing(e, EventSlots) /\ (~ overrun => e.size <= EventSlots)
                  /\ u = unread /\ IsRing(u, ReadSlots) /\ (~ overrun => u.size <= ReadSlots)
  BY DEF Base, Rings
<1>5. u.size \in Nat /\ ReadSlots \in Nat
  BY <1>4, Slotted DEF IsRing
<1>6. CASE ServeRx
  <2>1. PICK x : x = Head(uartInbox).ch
    OBVIOUS
  <2>2. PICK c : c = Put(u, x)
    OBVIOUS
  <2>3. x \in Nat /\ Head(uartInbox).type = "RX"
    BY <1>2, <1>6, <2>1 DEF Messages, ServeRx
  <2>4. IsRing(c, ReadSlots) /\ c.size = u.size + 1
    BY <1>4, <2>2, <2>3, Slotted, PutRing
  <2>5. /\ notifier' = [notifier EXCEPT !.at = "await"] \/ notifier' = notifier
        /\ Matched(c, reader)
        /\ overrun' = (overrun \/ Overfull(c))
    BY <1>4, <1>6, <2>1, <2>2 DEF ServeRx
  <2>6. /\ IsRing(unread', ReadSlots) /\ unread'.size <= c.size /\ reader' \in BOOLEAN
        /\ \/ shell' = shell /\ reader' = reader
           \/ reader /\ ~ reader' /\ shell'.at = "got" /\ shell' \in [at : {"got"}, got : Nat]
    BY <1>3, <2>4, <2>5, MatchedIs
  <2>7. Overfull(c) <=> ~ (c.size <= ReadSlots)
    <3>1. Slots(c) = ReadSlots
      BY <2>4, Slotted, SlotsIs
    <3> QED
      BY <1>5, <2>4, <3>1 DEF Overfull
  <2>8. overrun' \in BOOLEAN /\ (~ overrun' => ~ overrun /\ c.size <= ReadSlots)
    BY <2>5, <2>7, Zenon
  <2>9. Rings'
    <3>1. PICK v : v = unread'
      OBVIOUS
    <3>2. v.size \in Nat /\ IsRing(v, ReadSlots) /\ v.size <= c.size
      BY <2>6, <3>1 DEF IsRing
    <3>3. ~ overrun' => v.size <= ReadSlots
      BY <1>5, <2>4, <2>8, <3>2
    <3>4. ~ overrun' => e.size <= EventSlots
      BY <1>4, <2>8
    <3>5. e = event_q'
      BY <1>1, <1>4
    <3> QED
      BY <1>4, <3>1, <3>2, <3>3, <3>4, <3>5 DEF Rings
  <2>10. notifier.at = "sent" /\ notifier.ev = OtherEvent
    BY <1>2, <2>3 DEF Base, Handshakes
  <2>11. /\ notifier' \in [at : {"register", "await", "waiting", "woken", "sent"}, ev : Nat]
         /\ notifier'.at \in {"await", "sent"} /\ notifier'.ev = OtherEvent
    BY <1>3, <2>5, <2>10
  <2>12. shell' \in [at : {"poll", "polled", "get", "reading", "got"}, got : Nat]
    BY <1>3, <2>6
  <2>13. Handshakes'
    <3>1. /\ shell'.at # "got" => shell'.got = OtherEvent
          /\ reader' => shell'.at = "reading"
      BY <2>6 DEF Base, Handshakes
    <3>2. \A i \in DOMAIN uartInbox' :
            /\ uartInbox'[i].type # "RX" /\ uartInbox'[i].ch = OtherEvent
            /\ uartInbox'[i].type = "GETC" => shell'.at = "reading" /\ ~ reader'
            /\ uartInbox'[i].type = "PEEK" => shell'.at = "polled"
      <4>1. SUFFICES ASSUME NEW i \in DOMAIN uartInbox'
                     PROVE  /\ uartInbox'[i].type # "RX" /\ uartInbox'[i].ch = OtherEvent
                            /\ uartInbox'[i].type = "GETC" => shell'.at = "reading" /\ ~ reader'
                            /\ uartInbox'[i].type = "PEEK" => shell'.at = "polled"
        OBVIOUS
      <4>2. PICK m : m = uartInbox'[i]
        OBVIOUS
      <4>3. /\ m.type # "RX" /\ m.ch = OtherEvent
            /\ m.type = "GETC" => shell.at = "reading" /\ ~ reader
            /\ m.type = "PEEK" => shell.at = "polled"
        BY <1>2, <2>3, <4>2 DEF Base, Handshakes
      <4>4. reader => shell.at = "reading"
        BY DEF Base, Handshakes
      <4> QED
        BY <2>6, <4>2, <4>3, <4>4
    <3> QED
      BY <1>2, <2>11, <3>1, <3>2 DEF Handshakes
  <2>14. ConsoleShapes'
    BY <1>1, <1>2, <2>6, <2>8, <2>11, <2>12 DEF Base, ConsoleShapes, Drawn
  <2> QED
    BY <2>9, <2>13, <2>14 DEF Base
<1>7. ASSUME ServeGetc \/ ServePeek PROVE Base'
  <2>1. notifier' = notifier /\ overrun' = overrun /\ Head(uartInbox).type \in {"GETC", "PEEK"}
    BY <1>7 DEF ServeGetc, ServePeek
  <2>2. \A i \in DOMAIN uartInbox' : uartInbox'[i].type = "RX" /\ notifier.at = "sent"
    BY <1>2, <2>1 DEF Base, Handshakes
  <2>3. /\ IsRing(unread', ReadSlots) /\ unread'.size <= u.size /\ reader' \in BOOLEAN
        /\ shell' \in [at : {"poll", "polled", "get", "reading", "got"}, got : Nat]
        /\ shell'.at # "got" => shell'.got = OtherEvent
        /\ reader' => shell'.at = "reading"
    <3>1. CASE ServeGetc
      <4>1. Head(uartInbox).type = "GETC" /\ Matched(u, TRUE)
        BY <1>4, <3>1 DEF ServeGetc
      <4>2. shell.at = "reading"
        BY <1>2, <4>1 DEF Base, Handshakes
      <4>3. /\ IsRing(unread', ReadSlots) /\ unread'.size <= u.size /\ reader' \in BOOLEAN
            /\ \/ shell' = shell /\ reader' = TRUE
               \/ ~ reader' /\ shell'.at = "got" /\ shell' \in [at : {"got"}, got : Nat]
        BY <1>4, <4>1, MatchedIs
      <4> QED
        BY <1>3, <4>2, <4>3 DEF Base, Handshakes
    <3>2. CASE ServePeek
      <4>1. /\ Head(uartInbox).type = "PEEK" /\ unread' = unread /\ reader' = reader
            /\ shell' = [shell EXCEPT !.at = IF Peeked THEN "get" ELSE "poll"]
        BY <3>2 DEF ServePeek
      <4>2. shell.at = "polled"
        BY <1>2, <4>1 DEF Base, Handshakes
      <4>3. shell.got = OtherEvent /\ ~ reader
        BY <4>2 DEF Base, Handshakes
      <4>4. /\ shell'.at \in {"get", "poll"} /\ shell'.got = OtherEvent
            /\ shell' \in [at : {"poll", "polled", "get", "reading", "got"}, got : Nat]
        BY <1>3, <4>1, <4>3
      <4>5. unread' = u /\ u.size <= u.size
        BY <1>4, <1>5, <4>1
      <4> QED
        BY <1>3, <1>4, <4>1, <4>3, <4>4, <4>5
    <3> QED
      BY <1>7, <3>1, <3>2
  <2>4. Rings'
    <3>1. PICK v : v = unread'
      OBVIOUS
    <3>2. v.size \in Nat /\ IsRing(v, ReadSlots) /\ v.size <= u.size
      BY <2>3, <3>1 DEF IsRing
    <3>3. ~ overrun' => v.size <= ReadSlots
      BY <1>4, <1>5, <2>1, <3>2
    <3>4. e = event_q' /\ (~ overrun' => e.size <= EventSlots)
      BY <1>1, <1>4, <2>1
    <3> QED
      BY <1>4, <3>1, <3>2, <3>3, <3>4 DEF Rings
  <2>5. Handshakes'
    BY <1>1, <1>2, <2>1, <2>2, <2>3 DEF Base, Handshakes
  <2>6. ConsoleShapes'
    BY <1>1, <1>2, <2>1, <2>3 DEF Base, ConsoleShapes, Drawn
  <2> QED
    BY <2>4, <2>5, <2>6 DEF Base
<1> QED
  BY <1>6, <1>7 DEF ConsoleServes

\* The shell's side.
LEMMA AsksBase ==
  ASSUME Base, ShellPolls \/ ShellGets
  PROVE  Base'
<1>1. /\ uartInbox = <<>> /\ text' = text /\ typed' = typed /\ fifo' = fifo /\ burst' = burst
      /\ event_q' = event_q /\ taken' = taken /\ notifier' = notifier /\ unread' = unread
      /\ reader' = reader /\ overrun' = overrun /\ uartAt' = uartAt /\ sees' = sees
  BY DEF ShellPolls, ShellGets, ShellRuns, bootVars
<1>2. shell \in [at : {"poll", "polled", "get", "reading", "got"}, got : Nat]
  BY DEF Base, ConsoleShapes
<1>3. shell.at \in {"poll", "get"} /\ shell.got = OtherEvent /\ ~ reader
  BY DEF Base, Handshakes, ShellPolls, ShellGets
<1>4. PICK m : /\ m \in Messages /\ m.type # "RX" /\ m.ch = OtherEvent /\ uartInbox' = Append(uartInbox, m)
               /\ shell' = [shell EXCEPT !.at = IF m.type = "PEEK" THEN "polled" ELSE "reading"]
  <2>1. CASE ShellPolls
    <3>1. PICK m : m = [type |-> "PEEK", ch |-> OtherEvent]
      OBVIOUS
    <3>2. m \in Messages /\ m.type = "PEEK" /\ m.ch = OtherEvent
      BY <3>1 DEF Messages, OtherEvent
    <3> QED
      BY <2>1, <3>1, <3>2 DEF ShellPolls
  <2>2. CASE ShellGets
    <3>1. PICK m : m = [type |-> "GETC", ch |-> OtherEvent]
      OBVIOUS
    <3>2. m \in Messages /\ m.type = "GETC" /\ m.ch = OtherEvent
      BY <3>1 DEF Messages, OtherEvent
    <3> QED
      BY <2>2, <3>1, <3>2 DEF ShellGets
  <2> QED
    BY <2>1, <2>2
<1>5. DOMAIN uartInbox = {}
  BY <1>1
<1>6. /\ uartInbox' \in Seq(Messages)
      /\ \A i \in DOMAIN uartInbox' : uartInbox'[i] = m \/ (i \in DOMAIN uartInbox /\ uartInbox'[i] = uartInbox[i])
      /\ \A i, j \in DOMAIN uartInbox' :
           (uartInbox'[i].type = "RX" <=> uartInbox'[j].type = "RX") => i = j
  BY <1>4, <1>5, SentMessage
<1>7. \A i \in DOMAIN uartInbox' : uartInbox'[i] = m
  BY <1>5, <1>6
<1>8. /\ shell'.at = (IF m.type = "PEEK" THEN "polled" ELSE "reading") /\ shell'.got = OtherEvent
      /\ shell' \in [at : {"poll", "polled", "get", "reading", "got"}, got : Nat]
  BY <1>2, <1>3, <1>4
<1>9. Rings'
  BY <1>1 DEF Base, Rings
<1>10. Handshakes'
  BY <1>1, <1>3, <1>4, <1>6, <1>7, <1>8 DEF Base, Handshakes
<1>11. ConsoleShapes'
  BY <1>1, <1>6, <1>8 DEF Base, ConsoleShapes, Drawn
<1> QED
  BY <1>9, <1>10, <1>11 DEF Base

LEMMA HandlesBase ==
  ASSUME Base, ShellHandles
  PROVE  Base'
<1>1. /\ uartInbox = <<>> /\ text' = text /\ typed' = typed /\ fifo' = fifo /\ burst' = burst
      /\ event_q' = event_q /\ notifier' = notifier /\ unread' = unread /\ uartInbox' = uartInbox
      /\ reader' = reader /\ overrun' = overrun /\ shell.at = "got"
      /\ shell' = [at |-> "poll", got |-> OtherEvent] /\ taken' = Append(taken, shell.got)
      /\ uartAt' = uartAt /\ sees' = sees
  BY DEF ShellHandles, ShellRuns, bootVars
<1>2. shell.got \in Nat /\ taken \in Seq(Nat) /\ taken' \in Seq(Nat)
  BY <1>1 DEF Base, ConsoleShapes
<1>3. shell' \in [at : {"poll", "polled", "get", "reading", "got"}, got : Nat]
  BY <1>1 DEF OtherEvent
<1>4. ~ reader
  BY <1>1 DEF Base, Handshakes
<1>5. DOMAIN uartInbox = {}
  BY <1>1
<1>6. Rings'
  BY <1>1 DEF Base, Rings
<1>7. Handshakes'
  BY <1>1, <1>4, <1>5 DEF Base, Handshakes
<1>8. ConsoleShapes'
  BY <1>1, <1>2, <1>3 DEF Base, ConsoleShapes, Drawn
<1> QED
  BY <1>6, <1>7, <1>8 DEF Base

-----------------------------------------------------------------------------
(* The order.                                                              *)

\* The order among characters stays when later ones join them.
LEMMA RanksStay ==
  ASSUME Drawn \in Nat, typed \in Nat, typed' \in Nat, typed <= typed', Drawn <= typed,
         \A n \in 1 .. Drawn : burst'[n] = burst[n],
         \A m \in 1 .. typed' : \A n \in 1 .. Drawn : m > Drawn => burst'[m] # burst'[n],
         NEW x \in 1 .. Drawn, NEW y \in 1 .. Drawn, Ranks(x, y)
  PROVE  Ranks(x, y)'
<1>1. burst'[x] = burst[x] /\ burst'[y] = burst[y]
  OBVIOUS
<1>2. First(y) => First(y)'
  <2>1. SUFFICES ASSUME First(y), NEW m \in 1 .. typed', burst'[m] = burst'[y] PROVE y <= m
    BY DEF First
  <2>2. m \in 1 .. Drawn
    BY <2>1
  <2>3. m \in 1 .. typed /\ burst[m] = burst[y]
    BY <1>1, <2>1, <2>2
  <2> QED
    BY <2>1, <2>3 DEF First
<1> QED
  BY <1>1, <1>2 DEF Ranks

LEMMA SameStep ==
  ASSUME Base, Base', Arranged, Drawn' = Drawn, text' = text, burst' = burst, typed <= typed',
         missed' = missed, ~ overrun' => ~ overrun,
         NEW p, NEW q, p = Pipeline, q = Pipeline', ~ overrun' => Same(q, p)
  PROVE  Arranged'
<1>1. /\ Drawn \in Nat /\ typed \in Nat /\ typed' \in Nat /\ Drawn <= typed /\ typed' <= Len(text)
      /\ Len(text) \in Nat
  <2>1. Len(fifo) \in Nat /\ Drawn = typed - Len(fifo) /\ typed \in Nat /\ Drawn \in Nat /\ Len(text) \in Nat
    BY DEF Base, ConsoleShapes, Drawn
  <2>2. typed' \in 0 .. Len(text')
    BY DEF Base, ConsoleShapes
  <2> QED
    BY <2>1, <2>2
<1>2. \A m \in 1 .. typed' : \A n \in 1 .. Drawn : m > Drawn => burst'[m] # burst'[n]
  <2>1. \A n \in 1 .. Len(text) : burst[n] # 0 <=> n <= Drawn
    BY DEF Base, ConsoleShapes
  <2>2. ASSUME NEW m \in 1 .. typed', NEW n \in 1 .. Drawn, m > Drawn PROVE burst[m] # burst[n]
    <3>1. m \in 1 .. Len(text) /\ n \in 1 .. Len(text) /\ ~ (m <= Drawn) /\ n <= Drawn
      BY <1>1, <2>2
    <3>2. burst[m] = 0 /\ burst[n] # 0
      BY <2>1, <3>1
    <3> QED
      BY <3>2
  <2> QED
    BY <2>2
<1>3. SUFFICES ASSUME ~ overrun'
               PROVE  /\ q \in Seq(Nat) /\ missed \subseteq 1 .. Drawn /\ Chars(q) = (1 .. Drawn) \ missed
                      /\ \A x, y \in Nat \ {OtherEvent} : Follows(q, x, y) => Ranks(x, y)'
  BY DEF Arranged
<1>4. /\ Same(q, p) /\ missed \subseteq 1 .. Drawn /\ Chars(p) = (1 .. Drawn) \ missed
      /\ \A x, y \in Nat \ {OtherEvent} : Follows(p, x, y) => Ranks(x, y)
  BY <1>3 DEF Arranged
<1>5. q \in Seq(Nat) /\ Chars(q) = (1 .. Drawn) \ missed
  BY <1>4 DEF Same
<1>6. ASSUME NEW x \in Nat \ {OtherEvent}, NEW y \in Nat \ {OtherEvent}, Follows(q, x, y)
      PROVE  Ranks(x, y)'
  <2>1. Ranks(x, y)
    BY <1>4, <1>6 DEF Same
  <2>2. x \in Chars(q) /\ y \in Chars(q)
    BY <1>6 DEF Follows, Chars
  <2>3. x \in 1 .. Drawn /\ y \in 1 .. Drawn
    BY <1>5, <2>2
  <2> QED
    BY <1>1, <1>2, <2>1, <2>3, RanksStay
<1> QED
  BY <1>4, <1>5, <1>6

\* The way as parts of which it is made.
Way(t, g, u, c, v, e) == ((((t \o <<g>>) \o u) \o c) \o <<v>>) \o e

LEMMA WayParts ==
  ASSUME NEW t \in Seq(Nat), NEW g \in Nat, NEW u \in Seq(Nat), NEW c \in Seq(Nat), NEW v \in Nat, NEW e \in Seq(Nat)
  PROVE  /\ t \o <<g>> \in Seq(Nat) /\ (t \o <<g>>) \o u \in Seq(Nat)
         /\ ((t \o <<g>>) \o u) \o c \in Seq(Nat)
         /\ (((t \o <<g>>) \o u) \o c) \o <<v>> \in Seq(Nat)
         /\ Way(t, g, u, c, v, e) \in Seq(Nat)
<1>1. <<g>> \in Seq(Nat) /\ <<v>> \in Seq(Nat)
  BY OneIs
<1>2. t \o <<g>> \in Seq(Nat)
  BY <1>1, ConcatIs
<1>3. (t \o <<g>>) \o u \in Seq(Nat)
  BY <1>2, ConcatIs
<1>4. ((t \o <<g>>) \o u) \o c \in Seq(Nat)
  BY <1>3, ConcatIs
<1>5. (((t \o <<g>>) \o u) \o c) \o <<v>> \in Seq(Nat)
  BY <1>1, <1>4, ConcatIs
<1>6. Way(t, g, u, c, v, e) \in Seq(Nat)
  BY <1>5, ConcatIs DEF Way
<1> QED
  BY <1>2, <1>3, <1>4, <1>5, <1>6

LEMMA SameBefore ==
  ASSUME NEW p, NEW q, Same(p, q), NEW r \in Seq(Nat)
  PROVE  Same(p \o r, q \o r)
<1>1. Same(r, r)
  BY SameRefl
<1> QED
  BY <1>1, SameConcat

LEMMA SameBehind ==
  ASSUME NEW p, NEW q, Same(p, q), NEW r \in Seq(Nat)
  PROVE  Same(r \o p, r \o q)
<1>1. Same(r, r)
  BY SameRefl
<1> QED
  BY <1>1, SameConcat

\* Of a queue into the empty hand before it.
LEMMA Shift ==
  ASSUME NEW a \in Seq(Nat), NEW x \in Nat, NEW e \in Seq(Nat)
  PROVE  Same((a \o <<x>>) \o e, (a \o <<OtherEvent>>) \o (<<x>> \o e))
<1>1. PICK b, o : b = <<x>> /\ o = <<OtherEvent>>
  OBVIOUS
<1>2. b \in Seq(Nat) /\ o \in Seq(Nat)
  BY <1>1, OneIs DEF OtherEvent
<1>3. b \o e \in Seq(Nat) /\ Same(a \o o, a)
  BY <1>1, <1>2, ConcatIs, Blank
<1>4. Same((a \o o) \o (b \o e), a \o (b \o e))
  BY <1>3, SameBefore
<1>5. Same((a \o b) \o e, a \o (b \o e))
  BY <1>2, ConcatAssoc
<1>6. Same(a \o (b \o e), (a \o o) \o (b \o e))
  BY <1>4, SameSym
<1>7. Same((a \o b) \o e, (a \o o) \o (b \o e))
  BY <1>5, <1>6, SameTrans
<1> QED
  BY <1>1, <1>7

\* Of the head of one queue to the end of the one before it.
LEMMA Slide ==
  ASSUME NEW a \in Seq(Nat), NEW u \in Seq(Nat), NEW b \in Seq(Nat), NEW c \in Seq(Nat)
  PROVE  Same((a \o (u \o b)) \o c, (a \o u) \o (b \o c))
<1>1. a \o u \in Seq(Nat)
  BY ConcatIs
<1>2. Same((a \o u) \o b, a \o (u \o b))
  BY ConcatAssoc
<1>3. Same(a \o (u \o b), (a \o u) \o b)
  BY <1>2, SameSym
<1>4. Same((a \o (u \o b)) \o c, ((a \o u) \o b) \o c)
  BY <1>3, SameBefore
<1>5. Same(((a \o u) \o b) \o c, (a \o u) \o (b \o c))
  BY <1>1, ConcatAssoc
<1> QED
  BY <1>4, <1>5, SameTrans

LEMMA WayMoves ==
  ASSUME NEW t \in Seq(Nat), NEW g \in Nat, NEW u \in Seq(Nat), NEW c \in Seq(Nat), NEW v \in Nat,
         NEW e \in Seq(Nat), NEW x \in Nat
  PROVE  /\ Same(Way(t, g, u, c, x, e), Way(t, g, u, c, OtherEvent, <<x>> \o e))
         /\ Same(Way(t, g, u, c \o <<v>>, OtherEvent, e), Way(t, g, u, c, v, e))
         /\ Same(Way(t, g, u \o <<x>>, c, v, e), Way(t, g, u, <<x>> \o c, v, e))
         /\ Same(Way(t, x, u, c, v, e), Way(t, OtherEvent, <<x>> \o u, c, v, e))
<1>1. PICK o, a, b, f, k : /\ o = <<OtherEvent>> /\ a = t \o <<g>> /\ b = (t \o <<g>>) \o u
                           /\ f = <<v>> /\ k = <<x>>
  OBVIOUS
<1>2. /\ o \in Seq(Nat) /\ f \in Seq(Nat) /\ k \in Seq(Nat) /\ a \in Seq(Nat) /\ b \in Seq(Nat)
      /\ b \o c \in Seq(Nat) /\ c \o f \in Seq(Nat) /\ u \o k \in Seq(Nat) /\ k \o c \in Seq(Nat)
  BY <1>1, OneIs, ConcatIs, WayParts DEF OtherEvent
<1>3. Same(Way(t, g, u, c, x, e), Way(t, g, u, c, OtherEvent, <<x>> \o e))
  BY <1>1, <1>2, Shift DEF Way
<1>4. Same(Way(t, g, u, c \o <<v>>, OtherEvent, e), Way(t, g, u, c, v, e))
  <2>1. Same((b \o (c \o f)) \o o, b \o (c \o f))
    <3>1. b \o (c \o f) \in Seq(Nat)
      BY <1>2, ConcatIs
    <3> QED
      BY <1>1, <3>1, Blank
  <2>2. Same(b \o (c \o f), (b \o c) \o f)
    <3>1. Same((b \o c) \o f, b \o (c \o f))
      BY <1>2, ConcatAssoc
    <3> QED
      BY <3>1, SameSym
  <2>3. Same((b \o (c \o f)) \o o, (b \o c) \o f)
    BY <2>1, <2>2, SameTrans
  <2>4. Same(((b \o (c \o f)) \o o) \o e, ((b \o c) \o f) \o e)
    BY <2>3, SameBefore
  <2> QED
    BY <1>1, <2>4 DEF Way
<1>5. Same(Way(t, g, u \o <<x>>, c, v, e), Way(t, g, u, <<x>> \o c, v, e))
  <2>1. Same((a \o (u \o k)) \o c, (a \o u) \o (k \o c))
    BY <1>2, Slide
  <2>2. Same(((a \o (u \o k)) \o c) \o f, ((a \o u) \o (k \o c)) \o f)
    BY <1>2, <2>1, SameBefore
  <2>3. Same((((a \o (u \o k)) \o c) \o f) \o e, (((a \o u) \o (k \o c)) \o f) \o e)
    BY <2>2, SameBefore
  <2> QED
    BY <1>1, <2>3 DEF Way
<1>6. Same(Way(t, x, u, c, v, e), Way(t, OtherEvent, <<x>> \o u, c, v, e))
  <2>1. Same((t \o k) \o u, (t \o o) \o (k \o u))
    BY <1>1, Shift
  <2>2. Same(((t \o k) \o u) \o c, ((t \o o) \o (k \o u)) \o c)
    BY <2>1, SameBefore
  <2>3. Same((((t \o k) \o u) \o c) \o f, (((t \o o) \o (k \o u)) \o c) \o f)
    BY <1>2, <2>2, SameBefore
  <2>4. Same(((((t \o k) \o u) \o c) \o f) \o e, ((((t \o o) \o (k \o u)) \o c) \o f) \o e)
    BY <2>3, SameBefore
  <2> QED
    BY <1>1, <2>4 DEF Way
<1> QED
  BY <1>3, <1>4, <1>5, <1>6

LEMMA WayBlanks ==
  ASSUME NEW t \in Seq(Nat), NEW g \in Nat, NEW u \in Seq(Nat), NEW c \in Seq(Nat), NEW v \in Nat,
         NEW e \in Seq(Nat)
  PROVE  /\ Same(Way(t, g, u, c, v, e), Way(t, g, u, <<OtherEvent>> \o c, v, e))
         /\ Same(Way(t, g, u, c \o <<OtherEvent>>, v, e), Way(t, g, u, c, v, e))
         /\ Same(Way(t \o <<g>>, OtherEvent, u, c, v, e), Way(t, g, u, c, v, e))
         /\ Same(Way(t, g, u, c, v, e \o <<OtherEvent>>), Way(t, g, u, c, v, e))
<1>1. PICK o, a, b, d, f : /\ o = <<OtherEvent>> /\ a = t \o <<g>> /\ b = (t \o <<g>>) \o u
                           /\ f = <<v>> /\ d = (((t \o <<g>>) \o u) \o c) \o <<v>>
  OBVIOUS
<1>2. /\ o \in Seq(Nat) /\ f \in Seq(Nat) /\ a \in Seq(Nat) /\ b \in Seq(Nat) /\ d \in Seq(Nat)
      /\ Same(o \o c, c) /\ Same(c \o o, c) /\ Same(a \o o, a) /\ Same(e \o o, e)
  <2>1. /\ o \in Seq(Nat) /\ f \in Seq(Nat) /\ a \in Seq(Nat) /\ b \in Seq(Nat) /\ d \in Seq(Nat)
    BY <1>1, OneIs, WayParts DEF OtherEvent
  <2> QED
    BY <1>1, <2>1, Blank
<1>3. Same(Way(t, g, u, c, v, e), Way(t, g, u, <<OtherEvent>> \o c, v, e))
  <2>1. Same(b \o c, b \o (o \o c))
    BY <1>2, SameSym, SameBehind
  <2>2. Same((b \o c) \o f, (b \o (o \o c)) \o f)
    BY <1>2, <2>1, SameBefore
  <2>3. Same(((b \o c) \o f) \o e, ((b \o (o \o c)) \o f) \o e)
    BY <2>2, SameBefore
  <2> QED
    BY <1>1, <2>3 DEF Way
<1>4. Same(Way(t, g, u, c \o <<OtherEvent>>, v, e), Way(t, g, u, c, v, e))
  <2>1. Same(b \o (c \o o), b \o c)
    BY <1>2, SameBehind
  <2>2. Same((b \o (c \o o)) \o f, (b \o c) \o f)
    BY <1>2, <2>1, SameBefore
  <2>3. Same(((b \o (c \o o)) \o f) \o e, ((b \o c) \o f) \o e)
    BY <2>2, SameBefore
  <2> QED
    BY <1>1, <2>3 DEF Way
<1>5. Same(Way(t \o <<g>>, OtherEvent, u, c, v, e), Way(t, g, u, c, v, e))
  <2>1. Same((a \o o) \o u, a \o u)
    BY <1>2, SameBefore
  <2>2. Same(((a \o o) \o u) \o c, (a \o u) \o c)
    BY <2>1, SameBefore
  <2>3. Same((((a \o o) \o u) \o c) \o f, ((a \o u) \o c) \o f)
    BY <1>2, <2>2, SameBefore
  <2>4. Same(((((a \o o) \o u) \o c) \o f) \o e, (((a \o u) \o c) \o f) \o e)
    BY <2>3, SameBefore
  <2> QED
    BY <1>1, <2>4 DEF Way
<1>6. Same(Way(t, g, u, c, v, e \o <<OtherEvent>>), Way(t, g, u, c, v, e))
  BY <1>1, <1>2, SameBehind DEF Way
<1> QED
  BY <1>3, <1>4, <1>5, <1>6

LEMMA PipelineIs ==
  ASSUME Base, ~ overrun, NEW t, NEW g, NEW u, NEW q, NEW v, NEW e,
         t = taken, g = shell.got, u = unread, q = uartInbox, v = notifier.ev, e = event_q
  PROVE  /\ Pipeline = Way(t, g, Content(u), Carried(q), v, Content(e))
         /\ t \in Seq(Nat) /\ g \in Nat /\ q \in Seq(Messages) /\ v \in Nat
         /\ Content(u) \in Seq(Nat) /\ Carried(q) \in Seq(Nat) /\ Content(e) \in Seq(Nat)
         /\ IsRing(e, EventSlots) /\ e.size <= EventSlots /\ IsRing(u, ReadSlots) /\ u.size <= ReadSlots
<1>1. Pipeline = Way(t, g, Content(u), Carried(q), v, Content(e))
  BY DEF Pipeline, Way, Carried
<1>2. t \in Seq(Nat) /\ g \in Nat /\ q \in Seq(Messages) /\ v \in Nat
  BY DEF Base, ConsoleShapes
<1>3. IsRing(e, EventSlots) /\ e.size <= EventSlots /\ IsRing(u, ReadSlots) /\ u.size <= ReadSlots
  BY DEF Base, Rings
<1>4. Content(u) \in Seq(Nat) /\ Carried(q) \in Seq(Nat) /\ Content(e) \in Seq(Nat)
  BY <1>2, <1>3, Slotted, ContentIs, CarriedIs
<1> QED
  BY <1>1, <1>2, <1>3, <1>4

LEMMA PipelineNext ==
  ASSUME NEW t, NEW g, NEW u, NEW q, NEW v, NEW e,
         t = taken', g = shell'.got, u = unread', q = uartInbox', v = notifier'.ev, e = event_q'
  PROVE  Pipeline' = Way(t, g, Content(u), Carried(q), v, Content(e))
<1>1. Content(e) = Content(event_q)'
  BY DEF Content, Slots
<1>2. Content(u) = Content(unread)'
  BY DEF Content, Slots
<1>3. Carried(q) = [i \in DOMAIN uartInbox' |-> uartInbox'[i].ch]
  BY DEF Carried
<1>4. Pipeline' = ((((t \o <<g>>) \o Content(unread)') \o [i \in DOMAIN uartInbox' |-> uartInbox'[i].ch]) \o <<v>>)
                    \o Content(event_q)'
  BY DEF Pipeline
<1> QED
  BY <1>1, <1>2, <1>3, <1>4 DEF Way

\* Steps that move what is on its way, and lose and bring nothing.
LEMMA AwaitsArranged ==
  ASSUME Base, Base', Arranged, IoNotifierAwaits
  PROVE  Arranged'
<1>1. /\ notifier.at = "await" /\ text' = text /\ typed' = typed /\ fifo' = fifo /\ burst' = burst
      /\ uartInbox' = uartInbox /\ unread' = unread /\ shell' = shell
      /\ taken' = taken /\ overrun' = overrun
      /\ IF event_q.size > 0
           THEN notifier' = [at |-> "woken", ev |-> Oldest(event_q)] /\ event_q' = Dropped(event_q)
           ELSE notifier' = [notifier EXCEPT !.at = "waiting"] /\ event_q' = event_q
      /\ missed' = missed
  BY DEF IoNotifierAwaits, bootVars
<1>2. PICK t, g, u, q, v, e : /\ t = taken /\ g = shell.got /\ u = unread /\ q = uartInbox
                              /\ v = notifier.ev /\ e = event_q
  OBVIOUS
<1>3. PICK w, f : w = notifier'.ev /\ f = event_q'
  OBVIOUS
<1>4. PICK a, b : a = Pipeline /\ b = Pipeline'
  OBVIOUS
<1>5. ASSUME ~ overrun' PROVE Same(b, a)
  <2>1. ~ overrun
    BY <1>1, <1>5
  <2>2. /\ a = Way(t, g, Content(u), Carried(q), v, Content(e))
        /\ t \in Seq(Nat) /\ g \in Nat /\ v \in Nat
        /\ Content(u) \in Seq(Nat) /\ Carried(q) \in Seq(Nat) /\ Content(e) \in Seq(Nat)
        /\ IsRing(e, EventSlots) /\ e.size <= EventSlots
    BY <1>2, <1>4, <2>1, PipelineIs
  <2>3. b = Way(t, g, Content(u), Carried(q), w, Content(f))
    BY <1>1, <1>2, <1>3, <1>4, PipelineNext
  <2>4. v = OtherEvent
    BY <1>1, <1>2 DEF Base, Handshakes
  <2>5. notifier \in [at : {"register", "await", "waiting", "woken", "sent"}, ev : Nat]
    BY DEF Base, ConsoleShapes
  <2>6. CASE e.size > 0
    <3>1. w = Oldest(e) /\ f = Dropped(e)
      BY <1>1, <1>2, <1>3, <2>6
    <3>2. /\ Content(e) = <<w>> \o Content(f) /\ w \in Nat
          /\ IsRing(f, EventSlots) /\ f.size = e.size - 1
      BY <2>2, <2>6, <3>1, Slotted, DroppedRing
    <3>3. Content(f) \in Seq(Nat)
      <4>1. f.size <= EventSlots
        BY <2>2, <3>2, Slotted DEF IsRing
      <4> QED
        BY <3>2, <4>1, Slotted, ContentIs
    <3>4. Same(Way(t, g, Content(u), Carried(q), w, Content(f)),
               Way(t, g, Content(u), Carried(q), OtherEvent, <<w>> \o Content(f)))
      BY <2>2, <3>2, <3>3, WayMoves
    <3> QED
      BY <2>2, <2>3, <2>4, <3>2, <3>4
  <2>7. CASE ~ (e.size > 0)
    <3>1. w = v /\ f = e
      BY <1>1, <1>2, <1>3, <2>5, <2>7
    <3>2. a = b /\ a \in Seq(Nat)
      BY <2>2, <2>3, <3>1, WayParts
    <3> QED
      BY <3>2, SameRefl
  <2> QED
    BY <2>6, <2>7
<1>6. Drawn' = Drawn /\ typed <= typed' /\ (~ overrun' => ~ overrun)
  BY <1>1 DEF Base, ConsoleShapes, Drawn
<1> QED
  BY <1>1, <1>4, <1>5, <1>6, SameStep

\* A character that stands on the way once is taken off it.
LEMMA TakenOff ==
  ASSUME NEW d \in Seq(Nat), NEW e \in Seq(Nat), NEW v \in Nat \ {OtherEvent},
         ~ Follows((d \o <<v>>) \o e, v, v)
  PROVE  /\ (d \o <<OtherEvent>>) \o e \in Seq(Nat)
         /\ Chars((d \o <<OtherEvent>>) \o e) = Chars((d \o <<v>>) \o e) \ {v}
         /\ v \in Chars((d \o <<v>>) \o e)
         /\ \A x, y \in Nat \ {OtherEvent} :
              Follows((d \o <<OtherEvent>>) \o e, x, y) => Follows((d \o <<v>>) \o e, x, y)
<1>1. PICK k, o, a, b : /\ k = <<v>> /\ o = d \o <<OtherEvent>> /\ a = (d \o k) \o e /\ b = o \o e
  OBVIOUS
<1>2. k \in Seq(Nat) /\ d \o k \in Seq(Nat)
  BY <1>1, OneIs, ConcatIs
<1>3. Chars(k) = {v} /\ \A x, y : ~ Follows(k, x, y)
  BY <1>1, OneChars DEF OtherEvent
<1>4. Same(o, d) /\ o \in Seq(Nat)
  BY <1>1, Blank DEF Same
<1>5. b \in Seq(Nat) /\ a \in Seq(Nat)
  BY <1>1, <1>2, <1>4, ConcatIs
<1>6. /\ Chars(d \o k) = Chars(d) \cup Chars(k) /\ Chars(a) = Chars(d \o k) \cup Chars(e)
      /\ Chars(b) = Chars(o) \cup Chars(e)
  BY <1>1, <1>2, <1>4, ConcatChars
<1>7. Chars(o) = Chars(d) /\ \A x, y \in Nat \ {OtherEvent} : Follows(o, x, y) <=> Follows(d, x, y)
  BY <1>4 DEF Same
<1>8. \A x, y \in Nat \ {OtherEvent} :
        /\ Follows(d \o k, x, y) <=> Follows(d, x, y) \/ Follows(k, x, y) \/ (x \in Chars(d) /\ y \in Chars(k))
        /\ Follows(a, x, y) <=> Follows(d \o k, x, y) \/ Follows(e, x, y) \/ (x \in Chars(d \o k) /\ y \in Chars(e))
        /\ Follows(b, x, y) <=> Follows(o, x, y) \/ Follows(e, x, y) \/ (x \in Chars(o) /\ y \in Chars(e))
  BY <1>1, <1>2, <1>4, ConcatFollows
<1>9. v \notin Chars(d) /\ v \notin Chars(e)
  <2>1. ~ Follows(a, v, v)
    BY <1>1
  <2> QED
    BY <1>3, <1>6, <1>8, <2>1
<1>10. Chars(b) = Chars(a) \ {v} /\ v \in Chars(a)
  BY <1>3, <1>6, <1>7, <1>9
<1>11. \A x, y \in Nat \ {OtherEvent} : Follows(b, x, y) => Follows(a, x, y)
  BY <1>6, <1>7, <1>8
<1> QED
  BY <1>1, <1>5, <1>10, <1>11

LEMMA SendsArranged ==
  ASSUME Base, Base', Arranged, IoNotifierSends
  PROVE  Arranged'
<1>1. /\ text' = text /\ typed' = typed /\ fifo' = fifo /\ burst' = burst
      /\ event_q' = event_q /\ unread' = unread /\ shell' = shell
      /\ taken' = taken /\ overrun' = overrun
      /\ \/ /\ notifier' = [at |-> "await", ev |-> OtherEvent] /\ uartInbox' = uartInbox
            /\ missed' = missed \cup ({notifier.ev} \ {OtherEvent})
         \/ /\ notifier.ev # OtherEvent /\ notifier' = [at |-> "sent", ev |-> OtherEvent]
            /\ uartInbox' = Append(uartInbox, [type |-> "RX", ch |-> notifier.ev])
            /\ missed' = missed
  BY DEF IoNotifierSends
<1>2. PICK t, g, u, q, v, e : /\ t = taken /\ g = shell.got /\ u = unread /\ q = uartInbox
                              /\ v = notifier.ev /\ e = event_q
  OBVIOUS
<1>3. PICK w, r : w = notifier'.ev /\ r = uartInbox'
  OBVIOUS
<1>4. PICK a, b : a = Pipeline /\ b = Pipeline'
  OBVIOUS
<1>5. /\ ~ overrun => /\ a = Way(t, g, Content(u), Carried(q), v, Content(e))
                      /\ t \in Seq(Nat) /\ g \in Nat /\ v \in Nat /\ q \in Seq(Messages)
                      /\ Content(u) \in Seq(Nat) /\ Carried(q) \in Seq(Nat) /\ Content(e) \in Seq(Nat)
      /\ b = Way(t, g, Content(u), Carried(r), w, Content(e))
      /\ w = OtherEvent
  <2>1. b = Way(t, g, Content(u), Carried(r), w, Content(e))
    BY <1>1, <1>2, <1>3, <1>4, PipelineNext
  <2>2. w = OtherEvent
    BY <1>1, <1>3
  <2> QED
    BY <1>2, <1>4, <2>1, <2>2, PipelineIs
<1>6. Drawn' = Drawn /\ typed <= typed' /\ (~ overrun' => ~ overrun)
  BY <1>1 DEF Base, ConsoleShapes, Drawn
<1>7. CASE notifier.ev # OtherEvent /\ missed' = missed /\ uartInbox' = Append(uartInbox, [type |-> "RX", ch |-> notifier.ev])
  <2>1. ASSUME ~ overrun' PROVE Same(b, a)
    <3>1. ~ overrun
      BY <1>1, <2>1
    <3>2. PICK m : m = [type |-> "RX", ch |-> v]
      OBVIOUS
    <3>3. m \in Messages /\ m.ch = v /\ r = Append(q, m)
      BY <1>2, <1>3, <1>5, <1>7, <3>1, <3>2 DEF Messages
    <3>4. Carried(r) = Carried(q) \o <<v>>
      BY <1>5, <3>1, <3>3, CarriedAppend
    <3>5. Same(Way(t, g, Content(u), Carried(q) \o <<v>>, OtherEvent, Content(e)),
               Way(t, g, Content(u), Carried(q), v, Content(e)))
      BY <1>5, <3>1, WayMoves
    <3> QED
      BY <1>5, <3>1, <3>4, <3>5
  <2> QED
    BY <1>1, <1>4, <1>6, <1>7, <2>1, SameStep
<1>8. CASE v = OtherEvent /\ missed' = missed /\ uartInbox' = uartInbox
  <2>1. ASSUME ~ overrun' PROVE Same(b, a)
    <3>1. ~ overrun /\ r = q /\ w = v
      BY <1>1, <1>2, <1>3, <1>5, <1>8, <2>1
    <3>2. a = b /\ a \in Seq(Nat)
      BY <1>5, <3>1, WayParts
    <3> QED
      BY <3>2, SameRefl
  <2> QED
    BY <1>1, <1>4, <1>6, <1>8, <2>1, SameStep
<1>9. CASE v # OtherEvent /\ missed' = missed \cup {v} /\ uartInbox' = uartInbox
  <2>1. SUFFICES ASSUME ~ overrun
                 PROVE  /\ missed \cup {v} \subseteq 1 .. Drawn /\ b \in Seq(Nat)
                        /\ Chars(b) = (1 .. Drawn) \ (missed \cup {v})
                        /\ \A x, y \in Nat \ {OtherEvent} : Follows(b, x, y) => Ranks(x, y)
    <3>1. \A x, y : Ranks(x, y)' <=> Ranks(x, y)
      BY <1>1 DEF Ranks, First
    <3> QED
      BY <1>1, <1>4, <1>6, <1>9, <3>1 DEF Arranged
  <2>2. /\ missed \subseteq 1 .. Drawn /\ Chars(a) = (1 .. Drawn) \ missed
        /\ \A x, y \in Nat \ {OtherEvent} : Follows(a, x, y) => Ranks(x, y)
    BY <1>4, <2>1 DEF Arranged
  <2>3. PICK d, f : d = ((t \o <<g>>) \o Content(u)) \o Carried(q) /\ f = Content(e)
    OBVIOUS
  <2>4. d \in Seq(Nat) /\ f \in Seq(Nat) /\ v \in Nat \ {OtherEvent}
    BY <1>5, <1>9, <2>1, <2>3, WayParts
  <2>5. a = (d \o <<v>>) \o f /\ b = (d \o <<OtherEvent>>) \o f
    <3>1. r = q
      BY <1>2, <1>3, <1>9
    <3> QED
      BY <1>5, <2>1, <2>3, <3>1 DEF Way
  <2>6. ~ Follows(a, v, v)
    BY <2>2, <2>4 DEF Ranks
  <2>7. /\ b \in Seq(Nat) /\ Chars(b) = Chars(a) \ {v} /\ v \in Chars(a)
        /\ \A x, y \in Nat \ {OtherEvent} : Follows(b, x, y) => Follows(a, x, y)
    BY <2>4, <2>5, <2>6, TakenOff
  <2> QED
    BY <2>2, <2>7
<1>10. \/ notifier.ev # OtherEvent /\ missed' = missed /\ uartInbox' = Append(uartInbox, [type |-> "RX", ch |-> notifier.ev])
       \/ v = OtherEvent /\ missed' = missed /\ uartInbox' = uartInbox
       \/ v # OtherEvent /\ missed' = missed \cup {v} /\ uartInbox' = uartInbox
  BY <1>1, <1>2
<1> QED
  BY <1>7, <1>8, <1>9, <1>10

LEMMA BootArranged ==
  ASSUME Base, Base', Arranged, IoNotifierRegisters \/ ConsoleRegisters \/ ConsoleLooks
  PROVE  Arranged'
<1>1. /\ text' = text /\ typed' = typed /\ fifo' = fifo /\ burst' = burst
      /\ event_q' = event_q /\ unread' = unread /\ shell' = shell /\ uartInbox' = uartInbox
      /\ taken' = taken /\ overrun' = overrun /\ missed' = missed
  BY DEF IoNotifierRegisters, ConsoleRegisters, ConsoleLooks
<1>2. notifier'.ev = notifier.ev
  <2>1. notifier \in [at : {"register", "await", "waiting", "woken", "sent"}, ev : Nat]
    BY DEF Base, ConsoleShapes
  <2> QED
    BY <2>1 DEF IoNotifierRegisters, ConsoleRegisters, ConsoleLooks
<1>3. PICK a, b : a = Pipeline /\ b = Pipeline'
  OBVIOUS
<1>4. a = b
  BY <1>1, <1>2, <1>3 DEF Pipeline, Content, Slots
<1>5. ~ overrun' => Same(b, a)
  BY <1>1, <1>3, <1>4, SameRefl DEF Arranged
<1>6. Drawn' = Drawn /\ typed <= typed' /\ (~ overrun' => ~ overrun)
  BY <1>1 DEF Base, ConsoleShapes, Drawn
<1> QED
  BY <1>1, <1>3, <1>5, <1>6, SameStep

LEMMA AsksArranged ==
  ASSUME Base, Base', Arranged, ShellPolls \/ ShellGets
  PROVE  Arranged'
<1>1. /\ text' = text /\ typed' = typed /\ fifo' = fifo /\ burst' = burst
      /\ event_q' = event_q /\ unread' = unread /\ notifier' = notifier
      /\ taken' = taken /\ overrun' = overrun /\ missed' = missed
  BY DEF ShellPolls, ShellGets, bootVars
<1>2. PICK t, g, u, q, v, e : /\ t = taken /\ g = shell.got /\ u = unread /\ q = uartInbox
                              /\ v = notifier.ev /\ e = event_q
  OBVIOUS
<1>3. PICK m : /\ m \in Messages /\ m.ch = OtherEvent /\ uartInbox' = Append(q, m) /\ shell'.got = g
  <2>1. shell \in [at : {"poll", "polled", "get", "reading", "got"}, got : Nat]
    BY DEF Base, ConsoleShapes
  <2>2. shell'.got = g
    BY <1>2, <2>1 DEF ShellPolls, ShellGets
  <2>3. \A k \in {"PEEK", "GETC"} : [type |-> k, ch |-> OtherEvent] \in Messages
    BY DEF Messages, OtherEvent
  <2>4. \E k \in {"PEEK", "GETC"} : uartInbox' = Append(q, [type |-> k, ch |-> OtherEvent])
    BY <1>2 DEF ShellPolls, ShellGets
  <2> QED
    BY <2>2, <2>3, <2>4
<1>4. PICK a, b, r : a = Pipeline /\ b = Pipeline' /\ r = uartInbox'
  OBVIOUS
<1>5. ASSUME ~ overrun' PROVE Same(b, a)
  <2>1. ~ overrun
    BY <1>1, <1>5
  <2>2. /\ a = Way(t, g, Content(u), Carried(q), v, Content(e))
        /\ t \in Seq(Nat) /\ g \in Nat /\ v \in Nat /\ q \in Seq(Messages)
        /\ Content(u) \in Seq(Nat) /\ Carried(q) \in Seq(Nat) /\ Content(e) \in Seq(Nat)
    BY <1>2, <1>4, <2>1, PipelineIs
  <2>3. b = Way(t, g, Content(u), Carried(r), v, Content(e))
    BY <1>1, <1>2, <1>3, <1>4, PipelineNext
  <2>4. Carried(r) = Carried(q) \o <<OtherEvent>>
    BY <1>3, <1>4, <2>2, CarriedAppend
  <2>5. Same(Way(t, g, Content(u), Carried(q) \o <<OtherEvent>>, v, Content(e)),
             Way(t, g, Content(u), Carried(q), v, Content(e)))
    BY <2>2, WayBlanks
  <2> QED
    BY <2>2, <2>3, <2>4, <2>5
<1>6. Drawn' = Drawn /\ typed <= typed' /\ (~ overrun' => ~ overrun)
  BY <1>1 DEF Base, ConsoleShapes, Drawn
<1> QED
  BY <1>1, <1>4, <1>5, <1>6, SameStep

LEMMA HandlesArranged ==
  ASSUME Base, Base', Arranged, ShellHandles
  PROVE  Arranged'
<1>1. /\ text' = text /\ typed' = typed /\ fifo' = fifo /\ burst' = burst
      /\ event_q' = event_q /\ unread' = unread /\ notifier' = notifier /\ uartInbox' = uartInbox
      /\ overrun' = overrun /\ taken' = Append(taken, shell.got) /\ shell'.got = OtherEvent
      /\ missed' = missed
  BY DEF ShellHandles, bootVars
<1>2. PICK t, g, u, q, v, e : /\ t = taken /\ g = shell.got /\ u = unread /\ q = uartInbox
                              /\ v = notifier.ev /\ e = event_q
  OBVIOUS
<1>3. PICK a, b, s, h : a = Pipeline /\ b = Pipeline' /\ s = taken' /\ h = shell'.got
  OBVIOUS
<1>4. ASSUME ~ overrun' PROVE Same(b, a)
  <2>1. ~ overrun
    BY <1>1, <1>4
  <2>2. /\ a = Way(t, g, Content(u), Carried(q), v, Content(e))
        /\ t \in Seq(Nat) /\ g \in Nat /\ v \in Nat
        /\ Content(u) \in Seq(Nat) /\ Carried(q) \in Seq(Nat) /\ Content(e) \in Seq(Nat)
    BY <1>2, <1>3, <2>1, PipelineIs
  <2>3. b = Way(s, h, Content(u), Carried(q), v, Content(e))
    BY <1>1, <1>2, <1>3, PipelineNext
  <2>4. s = t \o <<g>> /\ h = OtherEvent
    <3>1. s = Append(t, g)
      BY <1>1, <1>2, <1>3
    <3> QED
      BY <1>1, <1>3, <2>2, <3>1
  <2>5. Same(Way(t \o <<g>>, OtherEvent, Content(u), Carried(q), v, Content(e)),
             Way(t, g, Content(u), Carried(q), v, Content(e)))
    BY <2>2, WayBlanks
  <2> QED
    BY <2>2, <2>3, <2>4, <2>5
<1>5. Drawn' = Drawn /\ typed <= typed' /\ (~ overrun' => ~ overrun)
  BY <1>1 DEF Base, ConsoleShapes, Drawn
<1> QED
  BY <1>1, <1>3, <1>4, <1>5, SameStep

LEMMA TypeArranged ==
  ASSUME Base, Base', Arranged, Type
  PROVE  Arranged'
<1>1. /\ text' = text /\ typed' = typed + 1 /\ fifo' = Append(fifo, typed + 1) /\ burst' = burst
      /\ event_q' = event_q /\ unread' = unread /\ notifier' = notifier /\ uartInbox' = uartInbox
      /\ overrun' = overrun /\ taken' = taken /\ shell' = shell /\ missed' = missed
  BY DEF Type, bootVars
<1>2. PICK t, g, u, q, v, e : /\ t = taken /\ g = shell.got /\ u = unread /\ q = uartInbox
                              /\ v = notifier.ev /\ e = event_q
  OBVIOUS
<1>3. PICK a, b : a = Pipeline /\ b = Pipeline'
  OBVIOUS
<1>4. ASSUME ~ overrun' PROVE Same(b, a)
  <2>1. ~ overrun
    BY <1>1, <1>4
  <2>2. /\ a = Way(t, g, Content(u), Carried(q), v, Content(e))
        /\ t \in Seq(Nat) /\ g \in Nat /\ v \in Nat
        /\ Content(u) \in Seq(Nat) /\ Carried(q) \in Seq(Nat) /\ Content(e) \in Seq(Nat)
    BY <1>2, <1>3, <2>1, PipelineIs
  <2>3. b = Way(t, g, Content(u), Carried(q), v, Content(e))
    BY <1>1, <1>2, <1>3, PipelineNext
  <2>4. a = b /\ a \in Seq(Nat)
    BY <2>2, <2>3, WayParts
  <2> QED
    BY <2>4, SameRefl
<1>5. Drawn' = Drawn /\ typed <= typed'
  <2>1. PICK f, f2, k : f = fifo /\ f2 = fifo' /\ k = typed
    OBVIOUS
  <2>2. f \in Seq(Nat) /\ k \in Nat /\ Len(f) \in Nat
    BY <2>1 DEF Base, ConsoleShapes
  <2>3. Len(f2) = Len(f) + 1 /\ typed' = k + 1
    BY <1>1, <2>1, <2>2
  <2> QED
    BY <2>1, <2>2, <2>3 DEF Drawn
<1> QED
  BY <1>1, <1>3, <1>4, <1>5, SameStep

LEMMA OtherArranged ==
  ASSUME Base, Base', Arranged, OtherInterrupt
  PROVE  Arranged'
<1>1. /\ text' = text /\ typed' = typed /\ fifo' = fifo /\ burst' = burst
      /\ unread' = unread /\ uartInbox' = uartInbox /\ taken' = taken /\ shell' = shell
      /\ Hand(OtherEvent, event_q) /\ missed' = missed
  BY DEF OtherInterrupt, bootVars
<1>2. PICK t, g, u, q, v, e : /\ t = taken /\ g = shell.got /\ u = unread /\ q = uartInbox
                              /\ v = notifier.ev /\ e = event_q
  OBVIOUS
<1>3. PICK a, b, w, f : a = Pipeline /\ b = Pipeline' /\ w = notifier'.ev /\ f = event_q'
  OBVIOUS
<1>4. ~ overrun' => ~ overrun
  <2>1. overrun' = (overrun \/ Overfull(event_q'))
    BY <1>1 DEF Hand
  <2> QED
    BY <2>1, Zenon
<1>5. ASSUME ~ overrun' PROVE Same(b, a)
  <2>1. ~ overrun
    BY <1>4, <1>5
  <2>2. /\ a = Way(t, g, Content(u), Carried(q), v, Content(e))
        /\ t \in Seq(Nat) /\ g \in Nat /\ v \in Nat
        /\ Content(u) \in Seq(Nat) /\ Carried(q) \in Seq(Nat) /\ Content(e) \in Seq(Nat)
        /\ IsRing(e, EventSlots)
    BY <1>2, <1>3, <2>1, PipelineIs
  <2>3. b = Way(t, g, Content(u), Carried(q), w, Content(f))
    BY <1>1, <1>2, <1>3, PipelineNext
  <2>4. CASE notifier.at = "waiting"
    <3>1. w = OtherEvent /\ f = e
      BY <1>1, <1>2, <1>3, <2>4 DEF Hand
    <3>2. v = OtherEvent
      BY <1>2, <2>4 DEF Base, Handshakes
    <3>3. a = b /\ a \in Seq(Nat)
      BY <2>2, <2>3, <3>1, <3>2, WayParts
    <3> QED
      BY <3>3, SameRefl
  <2>5. CASE notifier.at # "waiting"
    <3>1. w = v /\ f = Put(e, OtherEvent)
      BY <1>1, <1>2, <1>3, <2>5 DEF Hand
    <3>2. OtherEvent \in Nat
      BY DEF OtherEvent
    <3>3. f.size = e.size + 1 /\ e.size \in Nat
      BY <2>2, <3>1, <3>2, Slotted, PutRing DEF IsRing
    <3>4. f.size <= EventSlots
      BY <1>3, <1>5 DEF Base, Rings
    <3>5. e.size < EventSlots
      BY <3>3, <3>4, Slotted
    <3>6. Content(f) = Content(e) \o <<OtherEvent>>
      BY <2>2, <3>1, <3>2, <3>5, Slotted, PutRing
    <3>7. Same(Way(t, g, Content(u), Carried(q), v, Content(e) \o <<OtherEvent>>),
               Way(t, g, Content(u), Carried(q), v, Content(e)))
      BY <2>2, WayBlanks
    <3> QED
      BY <2>2, <2>3, <3>1, <3>6, <3>7
  <2> QED
    BY <2>4, <2>5
<1>6. Drawn' = Drawn /\ typed <= typed'
  BY <1>1 DEF Base, ConsoleShapes, Drawn
<1> QED
  BY <1>1, <1>3, <1>4, <1>5, <1>6, SameStep

\* match_getc hands the oldest character to a waiting reader, or nothing moves.
LEMMA MatchedArranged ==
  ASSUME NEW t \in Seq(Nat), NEW g \in Nat, NEW k, IsRing(k, ReadSlots), k.size <= ReadSlots,
         NEW c \in Seq(Nat), NEW v \in Nat, NEW e \in Seq(Nat),
         NEW w \in BOOLEAN, Matched(k, w), g = shell.got, w => g = OtherEvent,
         NEW h, h = shell'.got, NEW n, n = unread'
  PROVE  Same(Way(t, h, Content(n), c, v, e), Way(t, g, Content(k), c, v, e))
<1>1. Content(k) \in Seq(Nat)
  BY Slotted, ContentIs
<1>2. CASE w /\ k.size > 0
  <2>1. n = Dropped(k) /\ h = Oldest(k)
    <3>1. unread' = Dropped(k) /\ shell' = [at |-> "got", got |-> Oldest(k)]
      BY <1>2 DEF Matched
    <3> QED
      BY <3>1
  <2>2. /\ Content(k) = <<h>> \o Content(n) /\ h \in Nat
        /\ IsRing(n, ReadSlots) /\ n.size = k.size - 1
    BY <1>2, <2>1, Slotted, DroppedRing
  <2>3. Content(n) \in Seq(Nat)
    <3>1. n.size <= ReadSlots
      BY <2>2, Slotted DEF IsRing
    <3> QED
      BY <2>2, <3>1, Slotted, ContentIs
  <2>4. Same(Way(t, h, Content(n), c, v, e), Way(t, OtherEvent, <<h>> \o Content(n), c, v, e))
    BY <2>2, <2>3, WayMoves
  <2> QED
    BY <1>2, <2>2, <2>4
<1>3. CASE ~ (w /\ k.size > 0)
  <2>1. n = k /\ h = g
    BY <1>3 DEF Matched
  <2>2. Way(t, g, Content(k), c, v, e) \in Seq(Nat)
    BY <1>1, WayParts
  <2> QED
    BY <2>1, <2>2, SameRefl
<1> QED
  BY <1>2, <1>3

LEMMA ServesArranged ==
  ASSUME Base, Base', Arranged, ConsoleServes
  PROVE  Arranged'
<1>1. /\ uartInbox # <<>> /\ uartInbox' = Tail(uartInbox) /\ text' = text /\ typed' = typed
      /\ fifo' = fifo /\ burst' = burst /\ event_q' = event_q /\ taken' = taken /\ missed' = missed
  BY DEF ConsoleServes
<1>2. PICK t, g, u, q, v, e : /\ t = taken /\ g = shell.got /\ u = unread /\ q = uartInbox
                              /\ v = notifier.ev /\ e = event_q
  OBVIOUS
<1>3. PICK a, b, r, h, n, w, x : /\ a = Pipeline /\ b = Pipeline' /\ r = uartInbox' /\ h = shell'.got
                                 /\ n = unread' /\ w = notifier'.ev /\ x = Head(uartInbox).ch
  OBVIOUS
<1>4. 1 \in DOMAIN uartInbox /\ Head(uartInbox) = uartInbox[1] /\ Head(uartInbox) \in Messages
  BY <1>1, ServedMessage
<1>5. ~ overrun' => ~ overrun
  <2>1. (overrun' = overrun) \/ \E B : overrun' = (overrun \/ B)
    BY DEF ConsoleServes, ServeRx, ServeGetc, ServePeek
  <2> QED
    BY <2>1, Zenon
<1>6. /\ notifier \in [at : {"register", "await", "waiting", "woken", "sent"}, ev : Nat]
      /\ shell \in [at : {"poll", "polled", "get", "reading", "got"}, got : Nat]
      /\ reader \in BOOLEAN
  BY DEF Base, ConsoleShapes
<1>7. ASSUME ~ overrun' PROVE Same(b, a)
  <2>1. ~ overrun
    BY <1>5, <1>7
  <2>2. /\ a = Way(t, g, Content(u), Carried(q), v, Content(e))
        /\ t \in Seq(Nat) /\ g \in Nat /\ v \in Nat /\ q \in Seq(Messages)
        /\ Content(u) \in Seq(Nat) /\ Carried(q) \in Seq(Nat) /\ Content(e) \in Seq(Nat)
        /\ IsRing(u, ReadSlots) /\ u.size <= ReadSlots
    BY <1>2, <1>3, <2>1, PipelineIs
  <2>3. b = Way(t, h, Content(n), Carried(r), w, Content(e))
    BY <1>1, <1>2, <1>3, PipelineNext
  <2>4. r \in Seq(Messages) /\ r = Tail(q) /\ q # <<>>
    BY <1>1, <1>2, <1>3, <1>4, <2>2, InboxTail
  <2>5. Carried(r) \in Seq(Nat) /\ Carried(q) = <<x>> \o Carried(r) /\ x \in Nat
    BY <1>2, <1>3, <1>4, <2>2, <2>4, CarriedIs, CarriedTail DEF Messages
  <2>6. CASE ServeRx
    <3>1. PICK k : k = Put(u, x)
      OBVIOUS
    <3>2. /\ notifier' = [notifier EXCEPT !.at = "await"] \/ notifier' = notifier
          /\ Matched(k, reader)
          /\ overrun' = (overrun \/ Overfull(k))
      BY <1>2, <1>3, <2>6, <3>1 DEF ServeRx
    <3>3. w = v
      BY <1>2, <1>3, <1>6, <3>2
    <3>4. IsRing(k, ReadSlots) /\ k.size = u.size + 1 /\ u.size \in Nat
      <4>1. IsRing(k, ReadSlots) /\ k.size = u.size + 1
        BY <2>2, <2>5, <3>1, Slotted, PutRing
      <4>2. u.size \in Nat
        BY <2>2 DEF IsRing
      <4> QED
        BY <4>1, <4>2
    <3>5. k.size <= ReadSlots
      <4>1. Slots(k) = ReadSlots
        BY <3>4, Slotted, SlotsIs
      <4>2. ~ Overfull(k)
        BY <1>7, <3>2, Zenon
      <4>3. k.size \in Nat
        BY <3>4
      <4> QED
        BY <4>1, <4>2, <4>3, Slotted DEF Overfull
    <3>6. Content(k) = Content(u) \o <<x>>
      <4>1. u.size < ReadSlots
        BY <3>4, <3>5, Slotted
      <4> QED
        BY <2>2, <2>5, <3>1, <4>1, Slotted, PutRing
    <3>7. reader => g = OtherEvent
      BY <1>2 DEF Base, Handshakes
    <3>8. Same(Way(t, h, Content(n), Carried(r), v, Content(e)), Way(t, g, Content(k), Carried(r), v, Content(e)))
      BY <1>2, <1>3, <1>6, <2>2, <2>5, <3>2, <3>4, <3>5, <3>7, MatchedArranged
    <3>9. Same(Way(t, g, Content(u) \o <<x>>, Carried(r), v, Content(e)),
               Way(t, g, Content(u), <<x>> \o Carried(r), v, Content(e)))
      BY <2>2, <2>5, WayMoves
    <3>10. Same(b, Way(t, g, Content(k), Carried(r), v, Content(e)))
      BY <2>3, <3>3, <3>8
    <3>11. Same(Way(t, g, Content(k), Carried(r), v, Content(e)), a)
      BY <2>2, <2>5, <3>6, <3>9
    <3> QED
      BY <3>10, <3>11, SameTrans
  <2>7. ASSUME ServeGetc \/ ServePeek PROVE Same(b, a)
    <3>1. w = v /\ Head(uartInbox).type # "RX"
      BY <1>2, <1>3, <2>7 DEF ServeGetc, ServePeek
    <3>2. x = OtherEvent
      BY <1>3, <1>4, <3>1 DEF Base, Handshakes
    <3>3. Same(Way(t, g, Content(u), Carried(r), v, Content(e)), a)
      BY <2>2, <2>5, <3>2, WayBlanks
    <3>4. Same(b, Way(t, g, Content(u), Carried(r), v, Content(e)))
      <4>1. CASE ServeGetc
        <5>1. Matched(u, TRUE) /\ Head(uartInbox).type = "GETC"
          BY <1>2, <4>1 DEF ServeGetc
        <5>2. g = OtherEvent
          BY <1>2, <1>4, <5>1 DEF Base, Handshakes
        <5>3. Same(Way(t, h, Content(n), Carried(r), v, Content(e)), Way(t, g, Content(u), Carried(r), v, Content(e)))
          BY <1>2, <1>3, <2>2, <2>5, <5>1, <5>2, MatchedArranged
        <5> QED
          BY <2>3, <3>1, <5>3
      <4>2. CASE ServePeek
        <5>1. n = u /\ h = g
          BY <1>2, <1>3, <1>6, <4>2 DEF ServePeek
        <5>2. b = Way(t, g, Content(u), Carried(r), v, Content(e)) /\ b \in Seq(Nat)
          BY <2>2, <2>3, <2>5, <3>1, <5>1, WayParts
        <5> QED
          BY <5>2, SameRefl
      <4> QED
        BY <2>7, <4>1, <4>2
    <3> QED
      BY <3>3, <3>4, SameTrans
  <2> QED
    BY <2>6, <2>7 DEF ConsoleServes
<1>8. Drawn' = Drawn /\ typed <= typed'
  BY <1>1 DEF Base, ConsoleShapes, Drawn
<1> QED
  BY <1>1, <1>3, <1>5, <1>7, <1>8, SameStep

\* The characters of d, and h before or behind them, joined p.
Enters(q, p, d, h) ==
  /\ q \in Seq(Nat) /\ Chars(q) = Chars(p) \cup Chars(d) \cup {h}
  /\ \A x, y \in Nat \ {OtherEvent} :
       Follows(q, x, y) =>
         \/ Follows(p, x, y) \/ Follows(d, x, y)
         \/ x \in Chars(p) /\ y \in Chars(d) \cup {h}
         \/ x = h /\ y \in Chars(d)
         \/ x \in Chars(d) /\ y = h

\* Recorded behind the others, the first of them last.
LEMMA JoinsBehind ==
  ASSUME NEW z \in Seq(Nat), NEW e \in Seq(Nat), NEW d \in Seq(Nat), NEW h \in Nat \ {OtherEvent}
  PROVE  Enters(z \o ((e \o d) \o <<h>>), z \o e, d, h)
<1>1. PICK k, a, b, p, q : k = <<h>> /\ a = e \o d /\ b = a \o k /\ p = z \o e /\ q = z \o b
  OBVIOUS
<1>2. /\ k \in Seq(Nat) /\ a \in Seq(Nat) /\ b \in Seq(Nat) /\ q \in Seq(Nat)
  BY <1>1, OneIs, ConcatIs
<1>3. Chars(k) = {h} /\ \A x, y : ~ Follows(k, x, y)
  BY <1>1, OneChars DEF OtherEvent
<1>4. /\ Chars(a) = Chars(e) \cup Chars(d) /\ Chars(b) = Chars(a) \cup Chars(k)
      /\ Chars(p) = Chars(z) \cup Chars(e) /\ Chars(q) = Chars(z) \cup Chars(b)
  BY <1>1, <1>2, ConcatChars
<1>5. ASSUME NEW x \in Nat \ {OtherEvent}, NEW y \in Nat \ {OtherEvent}, Follows(q, x, y)
      PROVE  \/ Follows(p, x, y) \/ Follows(d, x, y)
             \/ x \in Chars(p) /\ y \in Chars(d) \cup {h}
             \/ x = h /\ y \in Chars(d)
             \/ x \in Chars(d) /\ y = h
  <2>1. Follows(q, x, y) <=> Follows(z, x, y) \/ Follows(b, x, y) \/ (x \in Chars(z) /\ y \in Chars(b))
    BY <1>1, <1>2, ConcatFollows
  <2>2. Follows(b, x, y) <=> Follows(a, x, y) \/ Follows(k, x, y) \/ (x \in Chars(a) /\ y \in Chars(k))
    BY <1>1, <1>2, ConcatFollows
  <2>3. Follows(a, x, y) <=> Follows(e, x, y) \/ Follows(d, x, y) \/ (x \in Chars(e) /\ y \in Chars(d))
    BY <1>1, ConcatFollows
  <2>4. Follows(p, x, y) <=> Follows(z, x, y) \/ Follows(e, x, y) \/ (x \in Chars(z) /\ y \in Chars(e))
    BY <1>1, ConcatFollows
  <2> QED
    BY <1>3, <1>4, <1>5, <2>1, <2>2, <2>3, <2>4
<1> QED
  BY <1>1, <1>2, <1>3, <1>4, <1>5 DEF Enters

\* Taken into the empty hand, the others recorded in the empty ring.
LEMMA JoinsBefore ==
  ASSUME NEW a \in Seq(Nat), NEW e \in Seq(Nat), NEW d \in Seq(Nat), NEW h \in Nat \ {OtherEvent},
         Len(e) = 0
  PROVE  Enters((a \o <<h>>) \o (e \o d), (a \o <<OtherEvent>>) \o e, d, h)
<1>1. PICK k, b, f, o, p, q : /\ k = <<h>> /\ b = a \o k /\ f = e \o d /\ o = a \o <<OtherEvent>>
                              /\ p = o \o e /\ q = b \o f
  OBVIOUS
<1>2. /\ k \in Seq(Nat) /\ b \in Seq(Nat) /\ f \in Seq(Nat) /\ q \in Seq(Nat)
  BY <1>1, OneIs, ConcatIs
<1>3. Chars(k) = {h} /\ \A x, y : ~ Follows(k, x, y)
  BY <1>1, OneChars DEF OtherEvent
<1>4. Chars(e) = {} /\ \A x, y : ~ Follows(e, x, y)
  BY DEF Chars, Follows
<1>5. Same(o, a) /\ o \in Seq(Nat)
  BY <1>1, Blank DEF Same
<1>6. /\ Chars(b) = Chars(a) \cup Chars(k) /\ Chars(f) = Chars(e) \cup Chars(d)
      /\ Chars(p) = Chars(o) \cup Chars(e) /\ Chars(q) = Chars(b) \cup Chars(f)
  BY <1>1, <1>2, <1>5, ConcatChars
<1>7. ASSUME NEW x \in Nat \ {OtherEvent}, NEW y \in Nat \ {OtherEvent}, Follows(q, x, y)
      PROVE  \/ Follows(p, x, y) \/ Follows(d, x, y)
             \/ x \in Chars(p) /\ y \in Chars(d) \cup {h}
             \/ x = h /\ y \in Chars(d)
             \/ x \in Chars(d) /\ y = h
  <2>1. Follows(q, x, y) <=> Follows(b, x, y) \/ Follows(f, x, y) \/ (x \in Chars(b) /\ y \in Chars(f))
    BY <1>1, <1>2, ConcatFollows
  <2>2. Follows(b, x, y) <=> Follows(a, x, y) \/ Follows(k, x, y) \/ (x \in Chars(a) /\ y \in Chars(k))
    BY <1>1, <1>2, ConcatFollows
  <2>3. Follows(f, x, y) <=> Follows(e, x, y) \/ Follows(d, x, y) \/ (x \in Chars(e) /\ y \in Chars(d))
    BY <1>1, ConcatFollows
  <2>4. Follows(p, x, y) <=> Follows(o, x, y) \/ Follows(e, x, y) \/ (x \in Chars(o) /\ y \in Chars(e))
    BY <1>1, <1>5, ConcatFollows
  <2>5. Chars(o) = Chars(a) /\ (Follows(o, x, y) <=> Follows(a, x, y))
    BY <1>5 DEF Same
  <2> QED
    BY <1>3, <1>4, <1>6, <1>7, <2>1, <2>2, <2>3, <2>4, <2>5
<1>8. Chars(q) = Chars(p) \cup Chars(d) \cup {h}
  BY <1>3, <1>4, <1>5, <1>6 DEF Same
<1> QED
  BY <1>1, <1>2, <1>7, <1>8 DEF Enters

\* The interrupt is the step that adds to the way.
LEMMA UartJoins ==
  ASSUME Base, Base', UartInterrupt, ~ overrun'
  PROVE  /\ ~ overrun
         /\ \E p, q, d, h : /\ p = Pipeline /\ q = Pipeline' /\ d = Drained /\ h = Head(fifo)
                            /\ Enters(q, p, d, h)
<1>1. /\ fifo # <<>> /\ Hand(Head(fifo), PutAll(event_q, Drained))
      /\ uartInbox' = uartInbox /\ unread' = unread /\ shell' = shell /\ taken' = taken
  BY DEF UartInterrupt
<1>2. ~ overrun
  <2>1. overrun' = (overrun \/ Overfull(event_q'))
    BY <1>1 DEF Hand
  <2> QED
    BY <2>1, Zenon
<1>3. PICK t, g, u, c, v, e : /\ t = taken /\ g = shell.got /\ u = unread /\ c = uartInbox
                              /\ v = notifier.ev /\ e = event_q
  OBVIOUS
<1>4. PICK p, q, d, h, w, f : /\ p = Pipeline /\ q = Pipeline' /\ d = Drained /\ h = Head(fifo)
                              /\ w = notifier'.ev /\ f = event_q'
  OBVIOUS
<1>5. /\ p = Way(t, g, Content(u), Carried(c), v, Content(e))
      /\ t \in Seq(Nat) /\ g \in Nat /\ v \in Nat
      /\ Content(u) \in Seq(Nat) /\ Carried(c) \in Seq(Nat) /\ Content(e) \in Seq(Nat)
      /\ IsRing(e, EventSlots) /\ e.size <= EventSlots
  BY <1>2, <1>3, <1>4, PipelineIs
<1>6. q = Way(t, g, Content(u), Carried(c), w, Content(f))
  BY <1>1, <1>3, <1>4, PipelineNext
<1>7. d \in Seq(Nat) /\ h \in Nat \ {OtherEvent} /\ Len(d) \in Nat
  <2>1. d \in Seq(Nat) /\ h \in Nat /\ h = Drawn + 1 /\ Drawn \in Nat
    BY <1>1, <1>4, FifoIs DEF Base, ConsoleShapes
  <2> QED
    BY <2>1 DEF OtherEvent
<1>8. PICK a : a = ((t \o <<g>>) \o Content(u)) \o Carried(c)
  OBVIOUS
<1>9. a \in Seq(Nat) /\ a \o <<v>> \in Seq(Nat)
  BY <1>5, <1>8, WayParts
<1>10. PICK k : k = PutAll(e, d)
  OBVIOUS
<1>11. IsRing(k, EventSlots) /\ k.size = e.size + Len(d)
  BY <1>5, <1>7, <1>10, Slotted, PutAllIs
<1>12. e.size \in Nat /\ k.size \in Nat /\ EventSlots \in Nat
  BY <1>5, <1>11, Slotted DEF IsRing
<1>13. f.size <= EventSlots
  BY <1>4 DEF Base, Rings
<1>14. k.size <= EventSlots => Content(k) = Content(e) \o d
  BY <1>5, <1>7, <1>10, <1>11, Slotted, PutAllContent
<1>15. CASE notifier.at = "waiting"
  <2>1. w = h /\ f = k
    BY <1>1, <1>3, <1>4, <1>10, <1>15 DEF Hand
  <2>2. v = OtherEvent /\ e.size = 0
    BY <1>3, <1>15 DEF Base, Handshakes
  <2>3. Len(Content(e)) = 0
    BY <1>5, <2>2, Slotted, ContentIs
  <2>4. Content(f) = Content(e) \o d
    BY <1>13, <1>14, <2>1
  <2>5. Enters((a \o <<h>>) \o (Content(e) \o d), (a \o <<OtherEvent>>) \o Content(e), d, h)
    BY <1>5, <1>7, <1>9, <2>3, JoinsBefore
  <2>6. Enters(q, p, d, h)
    BY <1>5, <1>6, <1>8, <2>1, <2>2, <2>4, <2>5 DEF Way
  <2> QED
    BY <1>2, <1>4, <2>6
<1>16. CASE notifier.at # "waiting"
  <2>1. w = v /\ f = Put(k, h)
    BY <1>1, <1>3, <1>4, <1>10, <1>16 DEF Hand
  <2>2. f.size = k.size + 1
    BY <1>7, <1>11, <2>1, Slotted, PutRing
  <2>3. k.size < EventSlots
    BY <1>12, <1>13, <2>2
  <2>4. Content(f) = Content(k) \o <<h>>
    BY <1>7, <1>11, <2>1, <2>3, Slotted, PutRing
  <2>5. Content(k) = Content(e) \o d
    BY <1>12, <1>14, <2>3
  <2>6. Enters((a \o <<v>>) \o ((Content(e) \o d) \o <<h>>), (a \o <<v>>) \o Content(e), d, h)
    BY <1>5, <1>7, <1>9, JoinsBehind
  <2>7. Enters(q, p, d, h)
    BY <1>5, <1>6, <1>8, <2>1, <2>4, <2>5, <2>6 DEF Way
  <2> QED
    BY <1>2, <1>4, <2>7
<1> QED
  BY <1>15, <1>16

\* What the interrupt reads behind the first character: in order, and all of it.
LEMMA DrainedIs ==
  ASSUME Base, fifo # <<>>
  PROVE  /\ Chars(Drained) = Drawn + 2 .. typed
         /\ \A x, y \in Nat \ {OtherEvent} : Follows(Drained, x, y) => x < y
<1>1. PICK d, n, t, l : d = Drained /\ n = Drawn /\ t = typed /\ l = t - n - 1
  OBVIOUS
<1>2. d \in Seq(Nat) /\ Len(d) = l /\ l \in Nat /\ \A i \in 1 .. l : d[i] = n + 1 + i
  BY <1>1, FifoIs
<1>3. n \in Nat /\ t \in Nat
  BY <1>1 DEF Base, ConsoleShapes
<1>4. \A i \in 1 .. l : n + 1 + i \in n + 2 .. t
  BY <1>1, <1>2, <1>3
<1>5. \A x \in n + 2 .. t : x - n - 1 \in 1 .. l /\ n + 1 + (x - n - 1) = x
  BY <1>1, <1>2, <1>3
<1>6. Chars(d) = n + 2 .. t
  <2>1. ASSUME NEW x \in Chars(d) PROVE x \in n + 2 .. t
    <3>1. PICK i \in 1 .. l : x = d[i]
      BY <1>2, <2>1 DEF Chars
    <3> QED
      BY <1>2, <1>4, <3>1
  <2>2. ASSUME NEW x \in n + 2 .. t PROVE x \in Chars(d)
    <3>1. PICK i : i = x - n - 1
      OBVIOUS
    <3>2. i \in 1 .. l /\ d[i] = x
      BY <1>2, <1>5, <3>1
    <3>3. x # OtherEvent
      BY <1>3 DEF OtherEvent
    <3> QED
      BY <1>2, <3>2, <3>3 DEF Chars
  <2> QED
    BY <2>1, <2>2
<1>7. ASSUME NEW x, NEW y, Follows(d, x, y) PROVE x < y
  <2>1. PICK i, j \in 1 .. l : i < j /\ d[i] = x /\ d[j] = y
    BY <1>2, <1>7 DEF Follows
  <2>2. x = n + 1 + i /\ y = n + 1 + j
    BY <1>2, <2>1
  <2> QED
    BY <1>3, <2>1, <2>2
<1> QED
  BY <1>1, <1>6, <1>7

LEMMA UartArranged ==
  ASSUME Base, Base', Arranged, UartInterrupt
  PROVE  Arranged'
<1>1. fifo # <<>> /\ fifo' = <<>> /\ typed' = typed /\ text' = text /\ missed' = missed
  BY DEF UartInterrupt, bootVars
<1>2. SUFFICES ASSUME ~ overrun'
               PROVE  /\ missed \subseteq 1 .. Drawn'
                      /\ \E q : /\ q = Pipeline' /\ q \in Seq(Nat) /\ Chars(q) = (1 .. Drawn') \ missed
                                /\ \A x, y \in Nat \ {OtherEvent} : Follows(q, x, y) => Ranks(x, y)'
  BY <1>1 DEF Arranged
<1>3. PICK p, q, d, h : /\ p = Pipeline /\ q = Pipeline' /\ d = Drained /\ h = Head(fifo)
                        /\ Enters(q, p, d, h)
  BY <1>2, UartJoins
<1>4. /\ missed \subseteq 1 .. Drawn /\ Chars(p) = (1 .. Drawn) \ missed
      /\ \A x, y \in Nat \ {OtherEvent} : Follows(p, x, y) => Ranks(x, y)
  BY <1>2, <1>3, UartJoins DEF Arranged
<1>5. PICK n, t, l : n = Drawn /\ t = typed /\ l = Len(text)
  OBVIOUS
<1>6. n \in Nat /\ t \in Nat /\ l \in Nat /\ n < t /\ t <= l
  <2>1. t - n - 1 \in Nat /\ n \in Nat /\ t \in 0 .. l /\ l \in Nat
    BY <1>1, <1>5, FifoIs DEF Base, ConsoleShapes
  <2> QED
    BY <2>1
<1>7. Drawn' = t
  BY <1>1, <1>5, <1>6 DEF Drawn
<1>8. h = n + 1
  BY <1>1, <1>3, <1>5, FifoIs
<1>9. /\ Chars(d) = n + 2 .. t
      /\ \A x, y \in Nat \ {OtherEvent} : Follows(d, x, y) => x < y
  BY <1>1, <1>3, <1>5, DrainedIs
<1>10. Chars(q) = (1 .. t) \ missed /\ q \in Seq(Nat) /\ missed \subseteq 1 .. t
  <2>1. /\ 1 .. n \cup n + 2 .. t \cup {n + 1} = 1 .. t /\ 1 .. n \subseteq 1 .. t
        /\ \A x \in 1 .. n : x \notin n + 2 .. t /\ x # n + 1
    BY <1>6
  <2>2. Chars(q) = Chars(p) \cup Chars(d) \cup {h} /\ q \in Seq(Nat)
    BY <1>3 DEF Enters
  <2> QED
    BY <1>4, <1>5, <1>8, <1>9, <2>1, <2>2
<1>11. PICK this : /\ this \in Nat \ {0}
                   /\ \A m \in 1 .. l : burst[m] < this
                   /\ \A m \in 1 .. l : burst'[m] = IF m > n /\ m <= t THEN this ELSE burst[m]
  BY <1>5, BurstIs
<1>12. \A m \in 1 .. l : burst[m] \in Nat
  BY <1>5 DEF Base, ConsoleShapes
<1>13. \A m \in 1 .. n : burst'[m] = burst[m] /\ burst'[m] < this
  BY <1>6, <1>11
<1>14. \A m \in n + 1 .. t : burst'[m] = this
  BY <1>6, <1>11
<1>15. \A m \in 1 .. t : \A k \in 1 .. n : m > n => burst'[m] # burst'[k]
  <2>1. ASSUME NEW m \in 1 .. t, NEW k \in 1 .. n, m > n PROVE burst'[m] # burst'[k]
    <3>1. m \in n + 1 .. t
      BY <1>6, <2>1
    <3>2. burst'[m] = this /\ burst'[k] = burst[k] /\ burst[k] < this /\ burst[k] \in Nat
      BY <1>6, <1>11, <1>12, <1>13, <1>14, <3>1
    <3> QED
      BY <1>11, <3>2
  <2> QED
    BY <2>1
<1>16. ASSUME NEW x \in 1 .. n, NEW y \in 1 .. n, Ranks(x, y) PROVE Ranks(x, y)'
  <2>1. \A m \in 1 .. n : burst'[m] = burst[m]
    BY <1>13
  <2> QED
    BY <1>1, <1>5, <1>6, <1>15, <1>16, <2>1, RanksStay
<1>17. ASSUME NEW x \in 1 .. n, NEW y \in n + 1 .. t PROVE Ranks(x, y)'
  BY <1>6, <1>13, <1>14 DEF Ranks
<1>18. ASSUME NEW x \in n + 1 .. t, NEW y \in n + 1 .. t, x < y PROVE Ranks(x, y)'
  BY <1>6, <1>14, <1>18 DEF Ranks
<1>19. First(h)'
  <2>1. SUFFICES ASSUME NEW m \in 1 .. t, burst'[m] = burst'[h] PROVE h <= m
    BY <1>1, <1>5 DEF First
  <2>2. burst'[h] = this
    BY <1>6, <1>8, <1>14
  <2>3. m \notin 1 .. n
    BY <1>11, <1>13, <2>1, <2>2
  <2> QED
    BY <1>6, <1>8, <2>3
<1>20. ASSUME NEW x \in n + 2 .. t PROVE Ranks(x, h)'
  <2>1. x \in n + 1 .. t /\ h \in n + 1 .. t /\ x # h
    BY <1>6, <1>8
  <2>2. burst'[x] = burst'[h]
    BY <1>14, <2>1
  <2> QED
    BY <1>19, <2>1, <2>2 DEF Ranks
<1>21. ASSUME NEW x \in Nat \ {OtherEvent}, NEW y \in Nat \ {OtherEvent}, Follows(q, x, y)
       PROVE  Ranks(x, y)'
  <2>1. \/ Follows(p, x, y) \/ Follows(d, x, y)
        \/ x \in Chars(p) /\ y \in Chars(d) \cup {h}
        \/ x = h /\ y \in Chars(d)
        \/ x \in Chars(d) /\ y = h
    BY <1>3, <1>21 DEF Enters
  <2>2. CASE Follows(p, x, y)
    <3>1. x \in Chars(p) /\ y \in Chars(p)
      BY <1>21, <2>2 DEF Follows, Chars
    <3>2. x \in 1 .. n /\ y \in 1 .. n /\ Ranks(x, y)
      BY <1>4, <1>5, <2>2, <3>1
    <3> QED
      BY <1>16, <3>2
  <2>3. CASE Follows(d, x, y)
    <3>1. x \in Chars(d) /\ y \in Chars(d)
      BY <1>21, <2>3 DEF Follows, Chars
    <3>2. x \in n + 1 .. t /\ y \in n + 1 .. t /\ x < y
      BY <1>6, <1>9, <2>3, <3>1
    <3> QED
      BY <1>18, <3>2
  <2>4. CASE x \in Chars(p) /\ y \in Chars(d) \cup {h}
    <3>1. x \in 1 .. n /\ y \in n + 1 .. t
      BY <1>4, <1>5, <1>6, <1>8, <1>9, <2>4
    <3> QED
      BY <1>17, <3>1
  <2>5. CASE x = h /\ y \in Chars(d)
    <3>1. x \in n + 1 .. t /\ y \in n + 1 .. t /\ x < y
      BY <1>6, <1>8, <1>9, <2>5
    <3> QED
      BY <1>18, <3>1
  <2>6. CASE x \in Chars(d) /\ y = h
    BY <1>9, <1>20, <2>6
  <2> QED
    BY <2>1, <2>2, <2>3, <2>4, <2>5, <2>6
<1> QED
  BY <1>3, <1>7, <1>10, <1>21

LEMMA ArrangedInit == ConsoleInit => Arranged
<1>1. SUFFICES ASSUME ConsoleInit, ~ overrun
               PROVE  \E p : /\ p = Pipeline /\ p \in Seq(Nat) /\ Chars(p) = 1 .. Drawn
                             /\ \A x, y \in Nat \ {OtherEvent} : Follows(p, x, y) => Ranks(x, y)
  BY DEF Arranged, ConsoleInit
<1>2. Base
  BY <1>1, BaseInit
<1>3. PICK t, g, u, q, v, e : /\ t = taken /\ g = shell.got /\ u = unread /\ q = uartInbox
                              /\ v = notifier.ev /\ e = event_q
  OBVIOUS
<1>4. PICK p : p = Pipeline
  OBVIOUS
<1>5. /\ p = Way(t, g, Content(u), Carried(q), v, Content(e))
      /\ t \in Seq(Nat) /\ g \in Nat /\ q \in Seq(Messages) /\ v \in Nat
      /\ Content(u) \in Seq(Nat) /\ Carried(q) \in Seq(Nat) /\ Content(e) \in Seq(Nat)
      /\ IsRing(e, EventSlots) /\ e.size <= EventSlots /\ IsRing(u, ReadSlots) /\ u.size <= ReadSlots
  BY <1>1, <1>2, <1>3, <1>4, PipelineIs
<1>6. t = <<>> /\ g = OtherEvent /\ u.size = 0 /\ q = <<>> /\ v = OtherEvent /\ e.size = 0
  BY <1>1, <1>3, Slotted, RingHolds DEF ConsoleInit
<1>7. Len(Content(u)) = 0 /\ Len(Content(e)) = 0 /\ Len(Carried(q)) = 0
  BY <1>5, <1>6, Slotted, ContentIs, CarriedIs
<1>8. Content(u) = <<>> /\ Content(e) = <<>> /\ Carried(q) = <<>>
  BY <1>5, <1>7
<1>9. p = Way(<<>>, OtherEvent, <<>>, <<>>, OtherEvent, <<>>)
  BY <1>5, <1>6, <1>8
<1>10. Same(p, <<>>)
  <2>1. PICK o, z : o = <<OtherEvent>> /\ z = <<>>
    OBVIOUS
  <2>2. z \in Seq(Nat) /\ Same(z \o o, z) /\ p = ((((z \o o) \o z) \o z) \o o) \o z
    BY <1>9, <2>1, NoChars, Blank DEF Way
  <2>3. \A s \in Seq(Nat) : s \o z = s
    BY <2>1
  <2>4. z \o o \in Seq(Nat) /\ (z \o o) \o o \in Seq(Nat)
    BY <2>1, <2>2, OneIs, ConcatIs DEF OtherEvent
  <2>5. p = (z \o o) \o o
    BY <2>2, <2>3, <2>4
  <2>6. Same((z \o o) \o o, z \o o)
    BY <2>1, <2>4, Blank
  <2> QED
    BY <2>1, <2>2, <2>5, <2>6, SameTrans
<1>11. Drawn = 0
  <2>1. typed = 0 /\ Len(fifo) = 0
    BY <1>1 DEF ConsoleInit
  <2> QED
    BY <2>1 DEF Drawn
<1>12. p \in Seq(Nat) /\ Chars(p) = 1 .. Drawn
  BY <1>10, <1>11, NoChars DEF Same
<1>13. \A x, y \in Nat \ {OtherEvent} : ~ Follows(p, x, y)
  BY <1>10, NoChars DEF Same
<1> QED
  BY <1>4, <1>12, <1>13

-----------------------------------------------------------------------------
(* The command line and the screen.                                        *)

LEMMA FrontIs ==
  ASSUME NEW C, NEW s \in Seq(C), s # <<>>
  PROVE  /\ Front(s) \in Seq(C) /\ Len(Front(s)) = Len(s) - 1 /\ Len(s) \in Nat \ {0}
         /\ \A i \in 1 .. Len(s) - 1 : Front(s)[i] = s[i]
<1>1. Len(s) \in Nat \ {0}
  OBVIOUS
<1>2. Front(s) = SubSeq(s, 1, Len(s) - 1)
  BY DEF Front
<1>3. \A i \in 1 .. Len(s) - 1 : s[i] \in C
  BY <1>1
<1>4. SubSeq(s, 1, Len(s) - 1) = [i \in 1 .. Len(s) - 1 |-> s[i]]
  BY <1>1
<1>5. PICK f, n : f = Front(s) /\ n = Len(s) - 1
  OBVIOUS
<1>6. f = [i \in 1 .. n |-> s[i]] /\ n \in Nat /\ \A i \in 1 .. n : s[i] \in C
  BY <1>1, <1>2, <1>3, <1>4, <1>5
<1>7. f \in [1 .. n -> C]
  BY <1>6
<1>8. f \in Seq(C) /\ Len(f) = n
  BY <1>6, <1>7
<1>9. \A i \in 1 .. n : f[i] = s[i]
  BY <1>6
<1> QED
  BY <1>1, <1>5, <1>8, <1>9

LEMMA CellIs ==
  ASSUME NEW C, NEW r, NEW j, NEW k, NEW w,
         r \in Seq(C), j \in 1 .. Len(r), k \in C, w = [r EXCEPT ![j] = k]
  PROVE  /\ w \in Seq(C) /\ Len(w) = Len(r) /\ w[j] = k
         /\ \A i \in 1 .. Len(r) : i # j => w[i] = r[i]
<1>1. DOMAIN r = 1 .. Len(r) /\ Len(r) \in Nat /\ r \in [1 .. Len(r) -> C]
  OBVIOUS
<1>2. w \in [1 .. Len(r) -> C]
  BY <1>1
<1>3. w[j] = k /\ \A i \in 1 .. Len(r) : i # j => w[i] = r[i]
  BY <1>1
<1> QED
  BY <1>1, <1>2, <1>3

LEMMA AppendIs ==
  ASSUME NEW C, NEW s \in Seq(C), NEW k \in C
  PROVE  /\ Append(s, k) \in Seq(C) /\ Len(Append(s, k)) = Len(s) + 1 /\ Len(s) \in Nat
         /\ Append(s, k)[Len(s) + 1] = k /\ \A i \in 1 .. Len(s) : Append(s, k)[i] = s[i]
OBVIOUS

\* A row with the prompt printed on it.
LEMMA PromptedIs ==
  ASSUME NEW C, NEW old \in Seq(C), "prompt" \in C
  PROVE  /\ Prompted(old) \in Seq(C) /\ PromptLen <= Len(Prompted(old)) /\ Len(Prompted(old)) \in Nat
         /\ \A i \in 1 .. PromptLen : Prompted(old)[i] = "prompt"
<1>1. PICK n, p, t : n = PromptLen /\ p = Prompt /\ t = SubSeq(old, n + 1, Len(old))
  OBVIOUS
<1>2. n \in Nat \ {0}
  BY <1>1, ConsoleAssumption DEF ConsoleAssumption
<1>3. p \in Seq(C) /\ Len(p) = n /\ \A i \in 1 .. n : p[i] = "prompt"
  <2>1. PICK c : c = "prompt"
    OBVIOUS
  <2>2. p = [i \in 1 .. n |-> c] /\ c \in C
    BY <1>1, <2>1 DEF Prompt
  <2>3. p \in [1 .. n -> C] /\ \A i \in 1 .. n : p[i] = c
    BY <2>2
  <2>4. p \in Seq(C) /\ Len(p) = n
    BY <1>2, <2>3, <2>2
  <2> QED
    BY <2>1, <2>3, <2>4
<1>4. t \in Seq(C)
  BY <1>1, <1>2
<1>5. /\ p \o t \in Seq(C) /\ Len(p \o t) = Len(p) + Len(t) /\ Len(t) \in Nat
      /\ \A i \in 1 .. Len(p) : (p \o t)[i] = p[i]
  BY <1>3, <1>4
<1>6. Prompted(old) = p \o t
  BY <1>1 DEF Prompted
<1> QED
  BY <1>1, <1>2, <1>3, <1>5, <1>6

LEMMA ScreenStays ==
  ASSUME Screen, text' = text, UNCHANGED shellVars
  PROVE  Screen'
BY DEF Screen, Cell, shellVars

LEMMA ScreenInit == ConsoleInit => Screen
<1>1. SUFFICES ASSUME ConsoleInit PROVE Screen
  OBVIOUS
<1>2. PICK C, n, r, p : C = Cell /\ n = PromptLen /\ r = row /\ p = Prompted(<<>>)
  OBVIOUS
<1>3. n \in Nat \ {0} /\ CmdMax \in Nat \ {0}
  BY <1>2, ConsoleAssumption DEF ConsoleAssumption
<1>4. typedLine = <<>> /\ r = [i \in 1 .. n |-> "prompt"] /\ cursor = n /\ silent = FALSE
  BY <1>1, <1>2 DEF ConsoleInit, Prompt
<1>5. r \in Seq(C) /\ Len(r) = n /\ \A i \in 1 .. n : r[i] = "prompt"
  <2>1. PICK c : c = "prompt"
    OBVIOUS
  <2>2. r = [i \in 1 .. n |-> c] /\ c \in C
    BY <1>2, <1>4, <2>1 DEF Cell
  <2>3. r \in [1 .. n -> C] /\ \A i \in 1 .. n : r[i] = c
    BY <2>2
  <2>4. r \in Seq(C) /\ Len(r) = n
    BY <1>3, <2>2, <2>3
  <2> QED
    BY <2>1, <2>3, <2>4
<1>6. typedLine \in Seq(C) /\ Len(typedLine) = 0
  BY <1>4
<1>7. 0 < CmdMax /\ n <= n /\ n = n + 0
  BY <1>3
<1>8. /\ cursor \in Nat /\ cursor <= Len(row) /\ PromptLen <= Len(row) /\ silent \in BOOLEAN
      /\ cursor = PromptLen + Len(typedLine) /\ \A i \in 1 .. PromptLen : row[i] = "prompt"
  BY <1>2, <1>3, <1>4, <1>5, <1>6, <1>7
<1>9. \A i \in 1 .. Len(typedLine) : FALSE
  BY <1>6
<1>10. typedLine \in Seq(Cell) /\ row \in Seq(Cell) /\ Len(typedLine) < CmdMax
  BY <1>2, <1>5, <1>6, <1>7
<1> QED
  BY <1>8, <1>9, <1>10 DEF Screen

\* What Screen asks of the line s, the row r, the column c and the history z.
Shown(C, s, r, c, z) ==
  /\ s \in Seq(C) /\ r \in Seq(C) /\ z \in BOOLEAN
  /\ Len(s) < CmdMax /\ c \in Nat /\ c <= Len(r) /\ PromptLen <= Len(r)
  /\ ~ z => /\ c = PromptLen + Len(s)
            /\ \A i \in 1 .. PromptLen : r[i] = "prompt"
            /\ \A i \in 1 .. Len(s) : r[PromptLen + i] = s[i]

\* The last character of the line is erased.
LEMMA ShownErased ==
  ASSUME NEW C, NEW s, NEW r, NEW c, NEW z, Shown(C, s, r, c, z), s # <<>>, NEW b \in C,
         NEW d, d = (IF c > 0 THEN c - 1 ELSE 0)
  PROVE  Shown(C, Front(s), [r EXCEPT ![d + 1] = b], d, z)
<1>1. PICK n, f : n = PromptLen /\ f = Front(s)
  OBVIOUS
<1>2. PICK w : w = [r EXCEPT ![d + 1] = b]
  OBVIOUS
<1>3. n \in Nat \ {0} /\ CmdMax \in Nat
  BY <1>1, ConsoleAssumption DEF ConsoleAssumption
<1>4. /\ s \in Seq(C) /\ r \in Seq(C) /\ z \in BOOLEAN /\ Len(s) < CmdMax
      /\ c \in Nat /\ c <= Len(r) /\ n <= Len(r) /\ Len(r) \in Nat
  <2>1. /\ s \in Seq(C) /\ r \in Seq(C) /\ z \in BOOLEAN /\ Len(s) < CmdMax
        /\ c \in Nat /\ c <= Len(r) /\ n <= Len(r)
    BY <1>1, Zenon DEF Shown
  <2> QED
    BY <2>1
<1>5. f \in Seq(C) /\ Len(f) = Len(s) - 1 /\ Len(s) \in Nat \ {0} /\ \A i \in 1 .. Len(s) - 1 : f[i] = s[i]
  BY <1>1, <1>4, FrontIs
<1>6. d \in Nat /\ d + 1 \in 1 .. Len(r) /\ d <= Len(r)
  BY <1>3, <1>4
<1>7. w \in Seq(C) /\ Len(w) = Len(r) /\ \A i \in 1 .. Len(r) : i # d + 1 => w[i] = r[i]
  <2>1. r \in Seq(C) /\ d + 1 \in 1 .. Len(r) /\ b \in C /\ w = [r EXCEPT ![d + 1] = b]
    BY <1>1, <1>4, <1>6, <1>2
  <2> QED
    BY <2>1, CellIs
<1>8. ASSUME ~ z
      PROVE  /\ d = n + Len(f) /\ \A i \in 1 .. n : w[i] = "prompt"
             /\ \A i \in 1 .. Len(f) : w[n + i] = f[i]
  <2>1. /\ c = n + Len(s) /\ \A i \in 1 .. n : r[i] = "prompt"
        /\ \A i \in 1 .. Len(s) : r[n + i] = s[i]
    BY <1>1, <1>8 DEF Shown
  <2>2. d = n + Len(f) /\ d = c - 1
    BY <1>3, <1>5, <2>1
  <2>3. \A i \in 1 .. n : i \in 1 .. Len(r) /\ i # d + 1
    BY <1>3, <1>4, <1>5, <2>2
  <2>4. \A i \in 1 .. Len(f) : i \in 1 .. Len(s) /\ i \in 1 .. Len(s) - 1 /\ n + i \in 1 .. Len(r) /\ n + i # d + 1
    BY <1>3, <1>4, <1>5, <2>1, <2>2
  <2>5. \A i \in 1 .. n : w[i] = "prompt"
    BY <1>7, <2>1, <2>3
  <2>6. \A i \in 1 .. Len(f) : w[n + i] = f[i]
    BY <1>5, <1>7, <2>1, <2>4
  <2> QED
    BY <2>2, <2>5, <2>6
<1>9. Len(f) < CmdMax
  BY <1>3, <1>4, <1>5
<1>10. Shown(C, f, w, d, z)
  BY <1>1, <1>4, <1>5, <1>6, <1>7, <1>8, <1>9 DEF Shown
<1> QED
  BY <1>1, <1>2, <1>10

\* A character is appended to the line and printed at the cursor.
LEMMA ShownPrinted ==
  ASSUME NEW C, NEW s, NEW r, NEW c, NEW z, Shown(C, s, r, c, z), NEW k \in C, Len(s) < CmdMax - 1,
         NEW w, w = (IF c < Len(r) THEN [r EXCEPT ![c + 1] = k] ELSE Append(r, k))
  PROVE  Shown(C, Append(s, k), w, c + 1, z)
<1>1. PICK n, f : n = PromptLen /\ f = Append(s, k)
  OBVIOUS
<1>2. n \in Nat \ {0} /\ CmdMax \in Nat
  BY <1>1, ConsoleAssumption DEF ConsoleAssumption
<1>3. /\ s \in Seq(C) /\ r \in Seq(C) /\ z \in BOOLEAN
      /\ c \in Nat /\ c <= Len(r) /\ n <= Len(r) /\ Len(r) \in Nat
  BY <1>1 DEF Shown
<1>4. /\ f \in Seq(C) /\ Len(f) = Len(s) + 1 /\ Len(s) \in Nat /\ f[Len(s) + 1] = k
      /\ \A i \in 1 .. Len(s) : f[i] = s[i]
  BY <1>1, <1>3, AppendIs
<1>5. /\ w \in Seq(C) /\ c + 1 <= Len(w) /\ Len(r) <= Len(w) /\ Len(w) \in Nat /\ w[c + 1] = k
      /\ \A i \in 1 .. Len(r) : i # c + 1 => w[i] = r[i]
  <2>1. CASE c < Len(r)
    <3>1. c + 1 \in 1 .. Len(r)
      BY <1>3, <2>1
    <3>2. w \in Seq(C) /\ Len(w) = Len(r) /\ w[c + 1] = k /\ \A i \in 1 .. Len(r) : i # c + 1 => w[i] = r[i]
      <4>1. r \in Seq(C) /\ c + 1 \in 1 .. Len(r) /\ k \in C /\ w = [r EXCEPT ![c + 1] = k]
        BY <1>3, <2>1, <3>1
      <4> QED
        BY <4>1, CellIs
    <3> QED
      BY <1>3, <3>1, <3>2
  <2>2. CASE ~ (c < Len(r))
    <3>1. c = Len(r) /\ w = Append(r, k)
      BY <1>3, <2>2
    <3>2. /\ w \in Seq(C) /\ Len(w) = Len(r) + 1 /\ w[Len(r) + 1] = k
          /\ \A i \in 1 .. Len(r) : w[i] = r[i]
      BY <1>3, <3>1, AppendIs
    <3> QED
      BY <1>3, <3>1, <3>2
  <2> QED
    BY <2>1, <2>2
<1>6. ASSUME ~ z
      PROVE  /\ c + 1 = n + Len(f) /\ \A i \in 1 .. n : w[i] = "prompt"
             /\ \A i \in 1 .. Len(f) : w[n + i] = f[i]
  <2>1. /\ c = n + Len(s) /\ \A i \in 1 .. n : r[i] = "prompt"
        /\ \A i \in 1 .. Len(s) : r[n + i] = s[i]
    BY <1>1, <1>6 DEF Shown
  <2>2. c + 1 = n + Len(f) /\ c + 1 = n + (Len(s) + 1)
    BY <1>2, <1>4, <2>1
  <2>3. \A i \in 1 .. n : i \in 1 .. Len(r) /\ i # c + 1
    BY <1>2, <1>3, <1>4, <2>1
  <2>4. \A i \in 1 .. Len(s) : n + i \in 1 .. Len(r) /\ n + i # c + 1
    BY <1>2, <1>3, <1>4, <2>1
  <2>5. \A i \in 1 .. n : w[i] = "prompt"
    BY <1>5, <2>1, <2>3
  <2>6. \A i \in 1 .. Len(s) : w[n + i] = f[i]
    BY <1>4, <1>5, <2>1, <2>4
  <2>7. \A i \in 1 .. Len(f) : i \in 1 .. Len(s) \/ i = Len(s) + 1
    BY <1>4
  <2>8. w[n + (Len(s) + 1)] = f[Len(s) + 1]
    BY <1>4, <1>5, <2>2
  <2> QED
    BY <2>2, <2>5, <2>6, <2>7, <2>8
<1>7. Len(f) < CmdMax /\ c + 1 \in Nat /\ n <= Len(w)
  BY <1>2, <1>3, <1>4, <1>5
<1> QED
  BY <1>1, <1>3, <1>4, <1>5, <1>6, <1>7 DEF Shown

LEMMA ScreenHandles ==
  ASSUME Base, Screen, ShellHandles
  PROVE  Screen'
<1>1. PICK C, s, r, c, z, k : /\ C = Cell /\ s = typedLine /\ r = row /\ c = cursor /\ z = silent
                              /\ k = text[shell.got]
  OBVIOUS
<1>2. PICK s2, r2, c2, z2 : s2 = typedLine' /\ r2 = row' /\ c2 = cursor' /\ z2 = silent'
  OBVIOUS
<1>3. Shown(C, s, r, c, z)
  BY <1>1 DEF Screen, Shown
<1>4. text' = text /\ (Enter \/ Backspace \/ Insert(k))
  BY <1>1 DEF ShellHandles
<1>5. Cell' = C
  BY <1>1, <1>4 DEF Cell
<1>6. k \in C /\ " " \in C /\ "prompt" \in C
  <2>1. shell.got \in Nat
    BY DEF Base, ConsoleShapes
  <2> QED
    BY <1>1, <2>1 DEF Cell
<1>7. SUFFICES Shown(C, s2, r2, c2, z2)
  BY <1>2, <1>5 DEF Screen, Shown
<1>8. CASE Enter
  <2>1. s2 = <<>> /\ z2 = FALSE /\ c2 = PromptLen
    BY <1>2, <1>8 DEF Enter
  <2>2. PICK old : old \in Seq(C) /\ r2 = Prompted(old)
    <3>1. \E old \in {<<>>, r} : r2 = Prompted(old)
      BY <1>1, <1>2, <1>8 DEF Enter
    <3>2. <<>> \in Seq(C) /\ r \in Seq(C)
      BY <1>3 DEF Shown
    <3> QED
      BY <3>1, <3>2
  <2>3. /\ r2 \in Seq(C) /\ PromptLen <= Len(r2) /\ Len(r2) \in Nat
        /\ \A i \in 1 .. PromptLen : r2[i] = "prompt"
    BY <1>6, <2>2, PromptedIs
  <2>4. PromptLen \in Nat \ {0} /\ CmdMax \in Nat \ {0}
    BY ConsoleAssumption DEF ConsoleAssumption
  <2>5. s2 \in Seq(C) /\ Len(s2) = 0 /\ Len(s2) < CmdMax /\ c2 = PromptLen + Len(s2)
    BY <2>1, <2>4
  <2>6. \A i \in 1 .. Len(s2) : FALSE
    BY <2>5
  <2> QED
    BY <2>1, <2>3, <2>4, <2>5, <2>6 DEF Shown
<1>9. CASE Backspace
  <2>1. CASE s # <<>>
    <3>1. /\ s2 = Front(s) /\ c2 = (IF c > 0 THEN c - 1 ELSE 0) /\ r2 = [r EXCEPT ![c2 + 1] = " "] /\ z2 = z
      BY <1>1, <1>2, <1>9, <2>1 DEF Backspace, Erased
    <3>2. PICK b : b = " "
      OBVIOUS
    <3>3. b \in C
      BY <1>6, <3>2
    <3>4. Shown(C, Front(s), [r EXCEPT ![c2 + 1] = b], c2, z)
      BY <1>3, <2>1, <3>1, <3>3, ShownErased
    <3> QED
      BY <3>1, <3>2, <3>4
  <2>2. CASE s = <<>>
    <3>1. s2 = s /\ r2 = r /\ c2 = c /\ z2 = z
      BY <1>1, <1>2, <1>9, <2>2 DEF Backspace, shellVars
    <3> QED
      BY <1>3, <3>1
  <2> QED
    BY <2>1, <2>2
<1>10. CASE Insert(k)
  <2>1. CASE Len(s) < CmdMax - 1 /\ k # "NUL"
    <3>1. /\ s2 = Append(s, k) /\ c2 = c + 1
          /\ r2 = (IF c < Len(r) THEN [r EXCEPT ![c + 1] = k] ELSE Append(r, k))
      BY <1>1, <1>2, <1>10, <2>1 DEF Insert, Echoed, Printed
    <3>2. z2 = z
      <4>1. silent' = (silent \/ k = "NUL") /\ silent \in BOOLEAN
        BY <1>1, <1>10, <2>1 DEF Insert, Echoed, Screen
      <4> QED
        BY <1>1, <1>2, <2>1, <4>1
    <3>3. Shown(C, Append(s, k), r2, c + 1, z)
      BY <1>3, <1>6, <2>1, <3>1, ShownPrinted
    <3> QED
      BY <3>1, <3>2, <3>3
  <2>2. CASE Len(s) < CmdMax - 1 /\ k = "NUL"
    <3>1. s2 = Append(s, k) /\ c2 = c /\ r2 = r
      BY <1>1, <1>2, <1>10, <2>2 DEF Insert, Echoed
    <3>2. z2 = TRUE
      <4>1. silent' = (silent \/ k = "NUL")
        BY <1>1, <1>10, <2>2 DEF Insert, Echoed
      <4> QED
        BY <1>2, <2>2, <4>1, Zenon
    <3>3. s2 \in Seq(C) /\ Len(s2) = Len(s) + 1 /\ Len(s) \in Nat
      <4>1. s \in Seq(C)
        BY <1>3 DEF Shown
      <4> QED
        BY <1>6, <3>1, <4>1, AppendIs
    <3>4. Len(s2) < CmdMax
      <4>1. CmdMax \in Nat
        BY ConsoleAssumption DEF ConsoleAssumption
      <4> QED
        BY <2>2, <3>3, <4>1
    <3> QED
      BY <1>3, <3>1, <3>2, <3>3, <3>4 DEF Shown
  <2>3. CASE ~ (Len(s) < CmdMax - 1)
    <3>1. s2 = s /\ r2 = r /\ c2 = c /\ z2 = z
      BY <1>1, <1>2, <1>10, <2>3 DEF Insert, shellVars
    <3> QED
      BY <1>3, <3>1
  <2> QED
    BY <2>1, <2>2, <2>3
<1> QED
  BY <1>4, <1>8, <1>9, <1>10

-----------------------------------------------------------------------------
(* The invariant, and what it says.                                        *)

LEMMA ConsoleInitHolds == ConsoleInit => ConsoleInv
BY BaseInit, ArrangedInit, ScreenInit DEF Base, ConsoleInv

LEMMA ConsoleNextHolds ==
  ASSUME ConsoleInv, [ConsoleNext]_consoleVars
  PROVE  ConsoleInv'
<1>1. Base /\ Arranged /\ Screen
  BY DEF ConsoleInv, Base
<1>2. SUFFICES Base' /\ Arranged' /\ Screen'
  BY DEF ConsoleInv, Base
<1>3. CASE IoNotifierRegisters \/ ConsoleRegisters \/ ConsoleLooks
  <2>1. Base' /\ Arranged'
    BY <1>1, <1>3, BootBase, BootArranged
  <2>2. text' = text /\ UNCHANGED shellVars
    BY <1>3 DEF IoNotifierRegisters, ConsoleRegisters, ConsoleLooks
  <2> QED
    BY <1>1, <2>1, <2>2, ScreenStays
<1>4. CASE Type
  BY <1>1, <1>4, TypeBase, TypeArranged, ScreenStays DEF Type
<1>5. CASE UartInterrupt
  BY <1>1, <1>5, UartBase, UartArranged, ScreenStays DEF UartInterrupt
<1>6. CASE OtherInterrupt
  BY <1>1, <1>6, OtherBase, OtherArranged, ScreenStays DEF OtherInterrupt
<1>7. CASE IoNotifierAwaits
  BY <1>1, <1>7, AwaitsBase, AwaitsArranged, ScreenStays DEF IoNotifierAwaits
<1>8. CASE IoNotifierSends
  BY <1>1, <1>8, SendsBase, SendsArranged, ScreenStays DEF IoNotifierSends
<1>9. CASE ConsoleServes
  BY <1>1, <1>9, ServesBase, ServesArranged, ScreenStays DEF ConsoleServes
<1>10. CASE ShellPolls \/ ShellGets
  <2>1. Base' /\ Arranged'
    BY <1>1, <1>10, AsksBase, AsksArranged
  <2>2. text' = text /\ UNCHANGED shellVars
    BY <1>10 DEF ShellPolls, ShellGets
  <2> QED
    BY <1>1, <2>1, <2>2, ScreenStays
<1>11. CASE ShellHandles
  BY <1>1, <1>11, HandlesBase, HandlesArranged, ScreenHandles
<1>12. CASE UNCHANGED consoleVars
  <2>1. UNCHANGED <<text, typed, fifo, burst, others, event_q, notifier, uartInbox, unread, reader,
                    shell, taken, overrun, uartAt, sees, missed, shellVars>>
    BY <1>12 DEF consoleVars, bootVars
  <2>2. Base'
    BY <1>1, <2>1 DEF Base, ConsoleShapes, Rings, Handshakes, Drawn
  <2>3. Pipeline' = Pipeline
    BY <2>1 DEF Pipeline, Content, Slots
  <2>4. Arranged'
    BY <1>1, <2>1, <2>3 DEF Arranged, Ranks, First, Drawn
  <2> QED
    BY <1>1, <2>1, <2>2, <2>4, ScreenStays
<1> QED
  BY <1>4, <1>5, <1>6, <1>7, <1>8, <1>9, <1>10, <1>11, <1>12, <1>3
  DEF ConsoleNext, IoNotifierMoves, ConsoleMoves, ShellMoves

\* The inductive invariant of the console: shapes, rings, who waits for whom, the
\* order of the characters on their way, and the screen.
THEOREM ConsoleInvariance == ConsoleSpec => []ConsoleInv
<1>1. ConsoleInit => ConsoleInv
  BY ConsoleInitHolds
<1>2. ConsoleInv /\ [ConsoleNext]_consoleVars => ConsoleInv'
  BY ConsoleNextHolds
<1> QED
  BY <1>1, <1>2, PTL DEF ConsoleSpec

LEMMA TypesHold == ConsoleInv => ConsoleTypeOK
<1>1. SUFFICES ASSUME ConsoleInv PROVE ConsoleTypeOK
  OBVIOUS
<1>2. Base /\ Screen
  BY <1>1 DEF ConsoleInv, Base
<1>3. ToSet(burst) \subseteq 0 .. typed
  <2>1. PICK b, l, d, t, f : b = burst /\ l = Len(text) /\ d = Drawn /\ t = typed /\ f = fifo
    OBVIOUS
  <2>2. /\ b \in [1 .. l -> Nat] /\ (\A n \in 1 .. l : b[n] <= d) /\ d \in Nat /\ t \in Nat
        /\ d = t - Len(f) /\ Len(f) \in Nat
    BY <1>2, <2>1 DEF Base, ConsoleShapes, Drawn
  <2>3. ToSet(b) = {b[n] : n \in 1 .. l}
    BY <2>2 DEF ToSet
  <2>4. d <= t
    BY <2>2
  <2>5. \A n \in 1 .. l : b[n] \in 0 .. t
    <3>1. ASSUME NEW n \in 1 .. l PROVE b[n] \in 0 .. t
      <4>1. b[n] \in Nat /\ b[n] <= d
        BY <2>2
      <4> QED
        BY <2>2, <2>4, <4>1
    <3> QED
      BY <3>1
  <2> QED
    BY <2>1, <2>3, <2>5
<1>4. event_q.size \in Nat /\ unread.size \in Nat
  BY <1>2 DEF Base, Rings, IsRing
<1>5. \A i \in DOMAIN uartInbox : uartInbox[i].type \in {"RX", "GETC", "PEEK"}
  <2>1. uartInbox \in Seq(Messages)
    BY <1>2 DEF Base, ConsoleShapes
  <2>2. \A i \in DOMAIN uartInbox : uartInbox[i] \in Messages
    BY <2>1
  <2> QED
    BY <2>2 DEF Messages
<1>6. /\ typed \in 0 .. Len(text) /\ reader \in BOOLEAN /\ overrun \in BOOLEAN
      /\ notifier.at \in {"register", "await", "waiting", "woken", "sent"}
      /\ shell.at \in {"poll", "polled", "get", "reading", "got"}
      /\ uartAt \in {"register", "look", "serve"} /\ sees \in BOOLEAN
  BY <1>2 DEF Base, ConsoleShapes
<1>7. Len(typedLine) < CmdMax /\ cursor <= Len(row) /\ silent \in BOOLEAN
  BY <1>2 DEF Screen
<1> QED
  BY <1>3, <1>4, <1>5, <1>6, <1>7 DEF ConsoleTypeOK

LEMMA NothingIsLost == ConsoleInv => NothingLostOrRepeated
<1>1. SUFFICES ASSUME ConsoleInv, ~ overrun, NEW p, p = Pipeline
               PROVE  /\ \A i, j \in Characters(p) : p[i] = p[j] => i = j
                      /\ {p[i] : i \in Characters(p)} = (1 .. typed) \ (ToSet(fifo) \cup missed)
  BY DEF NothingLostOrRepeated
<1>2. /\ p \in Seq(Nat) /\ Chars(p) = (1 .. Drawn) \ missed
      /\ \A x, y \in Nat \ {OtherEvent} : Follows(p, x, y) => Ranks(x, y)
  BY <1>1 DEF ConsoleInv, Arranged
<1>3. /\ DOMAIN p = 1 .. Len(p) /\ Len(p) \in Nat /\ \A i \in 1 .. Len(p) : p[i] \in Nat
      /\ Characters(p) = {i \in 1 .. Len(p) : p[i] # OtherEvent}
  BY <1>2 DEF Characters
<1>4. ASSUME NEW i \in Characters(p), NEW j \in Characters(p), i < j PROVE p[i] # p[j]
  <2>1. i \in 1 .. Len(p) /\ j \in 1 .. Len(p) /\ p[i] \in Nat \ {OtherEvent} /\ p[j] \in Nat \ {OtherEvent}
    BY <1>3
  <2>2. Follows(p, p[i], p[j])
    BY <1>4, <2>1 DEF Follows
  <2>3. Ranks(p[i], p[j])
    BY <1>2, <2>1, <2>2
  <2> QED
    BY <2>3 DEF Ranks
<1>5. ASSUME NEW i \in Characters(p), NEW j \in Characters(p), p[i] = p[j] PROVE i = j
  <2>1. i \in Nat /\ j \in Nat
    BY <1>3
  <2>2. ~ (i < j) /\ ~ (j < i)
    BY <1>4, <1>5
  <2> QED
    BY <2>1, <2>2
<1>6. {p[i] : i \in Characters(p)} = Chars(p)
  BY <1>3 DEF Chars
<1>7. (1 .. typed) \ ToSet(fifo) = 1 .. Drawn
  <2>1. PICK f, n, t : f = fifo /\ n = Drawn /\ t = typed
    OBVIOUS
  <2>2. f \in Seq(Nat) /\ n \in Nat /\ t \in Nat /\ n = t - Len(f) /\ \A i \in 1 .. Len(f) : f[i] = n + i
    BY <1>1, <2>1 DEF ConsoleInv, ConsoleShapes, Drawn
  <2>3. Len(f) \in Nat /\ ToSet(f) = {f[i] : i \in 1 .. Len(f)}
    BY <2>2 DEF ToSet
  <2>4. \A x \in ToSet(f) : x > n
    BY <2>2, <2>3
  <2>5. ASSUME NEW x \in 1 .. t, x > n PROVE x \in ToSet(f)
    <3>1. x - n \in 1 .. Len(f) /\ n + (x - n) = x
      BY <2>2, <2>3, <2>5
    <3>2. f[x - n] = x
      BY <2>2, <3>1
    <3> QED
      BY <2>3, <3>1, <3>2
  <2>6. \A x : x \in (1 .. t) \ ToSet(f) <=> x \in 1 .. n
    <3>1. ASSUME NEW x \in (1 .. t) \ ToSet(f) PROVE x \in 1 .. n
      BY <2>2, <2>5, <3>1
    <3>2. ASSUME NEW x \in 1 .. n PROVE x \in (1 .. t) \ ToSet(f)
      <4>1. x \in 1 .. t /\ ~ (x > n)
        BY <2>2, <2>3
      <4> QED
        BY <2>4, <4>1
    <3> QED
      BY <3>1, <3>2
  <2> QED
    BY <2>1, <2>6
<1> QED
  BY <1>2, <1>5, <1>6, <1>7

LEMMA BurstsAreOrdered == ConsoleInv => BurstsInOrder
<1>1. SUFFICES ASSUME ConsoleInv, ~ overrun, NEW p, p = Pipeline,
                      NEW i \in Characters(p), NEW j \in Characters(p), i < j
               PROVE  \/ burst[p[i]] < burst[p[j]]
                      \/ burst[p[i]] = burst[p[j]] /\ (p[i] < p[j] \/ First(p[j]))
  BY DEF BurstsInOrder
<1>2. /\ p \in Seq(Nat)
      /\ \A x, y \in Nat \ {OtherEvent} : Follows(p, x, y) => Ranks(x, y)
  BY <1>1 DEF ConsoleInv, Arranged
<1>3. i \in 1 .. Len(p) /\ j \in 1 .. Len(p) /\ p[i] \in Nat \ {OtherEvent} /\ p[j] \in Nat \ {OtherEvent}
  BY <1>2 DEF Characters
<1>4. Follows(p, p[i], p[j])
  BY <1>1, <1>3 DEF Follows
<1> QED
  BY <1>2, <1>3, <1>4 DEF Ranks

LEMMA SameCells ==
  ASSUME NEW C, NEW s \in Seq(C), NEW d \in Seq(C), Len(d) = Len(s), \A i \in 1 .. Len(s) : d[i] = s[i]
  PROVE  d = s
OBVIOUS

LEMMA PartIs ==
  ASSUME NEW C, NEW r \in Seq(C), NEW n \in Nat, NEW c \in Nat, n <= c, c <= Len(r)
  PROVE  /\ SubSeq(r, n + 1, c) \in Seq(C) /\ Len(SubSeq(r, n + 1, c)) = c - n
         /\ \A i \in 1 .. c - n : SubSeq(r, n + 1, c)[i] = r[n + i]
<1>1. Len(r) \in Nat
  OBVIOUS
<1>2. \A i \in n + 1 .. c : i \in 1 .. Len(r) /\ r[i] \in C
  BY <1>1
<1>3. PICK m : m = n + 1
  OBVIOUS
<1>4. m \in Nat /\ c - m + 1 = c - n /\ c - n \in Nat /\ \A i \in 1 .. c - n : i + m - 1 = n + i
  BY <1>1, <1>3
<1>5. SubSeq(r, m, c) \in Seq(C) /\ Len(SubSeq(r, m, c)) = c - n
  BY <1>1, <1>2, <1>3, <1>4
<1>6. \A i \in 1 .. c - n : SubSeq(r, m, c)[i] = r[i + m - 1]
  BY <1>1, <1>2, <1>3, <1>4, <1>5
<1> QED
  BY <1>3, <1>4, <1>5, <1>6

LEMMA CommandIsShown == ConsoleInv => ScreenShowsCommand
<1>1. SUFFICES ASSUME ConsoleInv, ~ silent
               PROVE  /\ SubSeq(row, 1, PromptLen) = Prompt
                      /\ SubSeq(row, PromptLen + 1, cursor) = typedLine
  BY DEF ScreenShowsCommand
<1>2. PICK C, s, r, c, n : C = Cell /\ s = typedLine /\ r = row /\ c = cursor /\ n = PromptLen
  OBVIOUS
<1>3. /\ s \in Seq(C) /\ r \in Seq(C) /\ c = n + Len(s) /\ c <= Len(r)
      /\ \A i \in 1 .. n : r[i] = "prompt"
      /\ \A i \in 1 .. Len(s) : r[n + i] = s[i]
  BY <1>1, <1>2 DEF ConsoleInv, Screen
<1>4. n \in Nat \ {0} /\ Len(r) \in Nat /\ Len(s) \in Nat /\ s = [i \in 1 .. Len(s) |-> s[i]]
  BY <1>2, <1>3, ConsoleAssumption DEF ConsoleAssumption
<1>5. SubSeq(r, 1, n) = [i \in 1 .. n |-> r[i]] /\ Prompt = [i \in 1 .. n |-> "prompt"]
  BY <1>2, <1>3, <1>4 DEF Prompt
<1>6. [i \in 1 .. n |-> r[i]] = [i \in 1 .. n |-> "prompt"]
  BY <1>3
<1>7. SubSeq(r, n + 1, c) = s
  <2>1. PICK d : d = SubSeq(r, n + 1, c)
    OBVIOUS
  <2>2. n \in Nat /\ c \in Nat /\ n <= c /\ c <= Len(r) /\ c - n = Len(s)
    BY <1>3, <1>4
  <2>3. d \in Seq(C) /\ Len(d) = Len(s) /\ \A i \in 1 .. Len(s) : d[i] = r[n + i]
    <3>1. r \in Seq(C) /\ n \in Nat /\ c \in Nat /\ n <= c /\ c <= Len(r)
      BY <1>3, <2>2
    <3>2. /\ SubSeq(r, n + 1, c) \in Seq(C) /\ Len(SubSeq(r, n + 1, c)) = c - n
          /\ \A i \in 1 .. c - n : SubSeq(r, n + 1, c)[i] = r[n + i]
      BY <3>1, PartIs
    <3> QED
      BY <2>1, <2>2, <3>2
  <2>4. \A i \in 1 .. Len(s) : d[i] = s[i]
    BY <1>3, <2>3
  <2>5. s \in Seq(C) /\ d \in Seq(C) /\ Len(d) = Len(s)
    BY <1>3, <2>3
  <2>6. d = s
    BY <2>4, <2>5, SameCells
  <2> QED
    BY <2>1, <2>6
<1> QED
  BY <1>2, <1>5, <1>6, <1>7

\* Every variable keeps its type, and no ring ever counts below zero, whatever is
\* typed and however the interrupts fall.
THEOREM ConsoleTypes == ConsoleSpec => []ConsoleTypeOK
BY ConsoleInvariance, TypesHold, PTL

\* Each character that left the UART is on its way or read exactly once, for any
\* texts and rings of any size, until one of them takes more than it has room for.
THEOREM NothingLostOrRepeatedHolds == ConsoleSpec => []NothingLostOrRepeated
BY ConsoleInvariance, NothingIsLost, PTL

\* The shell gets the bursts of the UART's interrupt in order, and each but for its first
\* character, whenever the notifier calls AwaitEvent and the other UART interrupts.
THEOREM BurstsInOrderHolds == ConsoleSpec => []BurstsInOrder
BY ConsoleInvariance, BurstsAreOrdered, PTL

\* Until a NUL is typed, an intact prompt and behind it the command line stand on the
\* row up to the cursor, for any CMD_MAX, any prompt and whatever older text the row
\* holds.
THEOREM ScreenShowsCommandHolds == ConsoleSpec => []ScreenShowsCommand
BY ConsoleInvariance, CommandIsShown, PTL

-----------------------------------------------------------------------------
(* The services side by side.                                              *)

\* Side by side the parts behave as each does by itself, so that what is proved of a
\* part holds of the four.
THEOREM ServicesAreParts ==
  Spec => ClockSpec /\ ConsoleSpec /\ LinkSpec /\ HubSpec
<1>1. Init => ClockInit /\ ConsoleInit /\ LinkInit /\ HubInit
  BY DEF Init
<1>2. [Next]_vars => [ClockNext]_clockVars
  BY DEF Next, vars, ClockPart, ConsolePart, LinkPart, HubPart
<1>3. [Next]_vars => [ConsoleNext]_consoleVars
  BY DEF Next, vars, ClockPart, ConsolePart, LinkPart, HubPart
<1>4. [Next]_vars => [LinkStep \/ \E lineIn : HubWrites(lineIn)]_linkVars
  BY DEF Next, vars, ClockPart, ConsolePart, LinkPart, HubPart
<1>5. [Next]_vars => [HubNext]_hubVars
  BY DEF Next, vars, ClockPart, ConsolePart, LinkPart, HubPart
<1> QED
  BY <1>1, <1>2, <1>3, <1>4, <1>5, PTL DEF Spec, ClockSpec, ConsoleSpec, LinkSpec, HubSpec

\* Beside each other the parts keep the types of their variables.
THEOREM ServicesTypes == Spec => []TypeOK
<1>1. Init => part \in Parts
  BY DEF Init
<1>2. part \in Parts /\ [Next]_vars => (part \in Parts)'
  BY DEF Next, vars, ClockPart, ConsolePart, LinkPart, HubPart
<1>3. part \in Parts /\ ClockTypeOK /\ ConsoleTypeOK /\ LinkTypeOK /\ HubTypeOK => TypeOK
  BY DEF TypeOK, Parts
<1> QED
  BY <1>1, <1>2, <1>3, ServicesAreParts, ClockTypes, ConsoleTypes, LinkTypes, HubTypes, PTL DEF Spec

=============================================================================
