---------------------------- MODULE MailboxProofs ----------------------------
(***************************************************************************)
(* Theorems about Mailbox for every set of cores, whichever of them is the *)
(* hub, whichever apps the server preempts, and any number of messages.    *)
(***************************************************************************)
EXTENDS Mailbox, FiniteSetTheorems, TLAPS

-----------------------------------------------------------------------------
(* Types, and who holds a mailbox's lock.                                  *)

LEMMA NoneIsMessage == None \in Message /\ None.n = 0
BY MailboxAssumption DEF MailboxAssumption, None, Message

LEMMA DoorType ==
  ASSUME TypeOK, NEW c \in Cores
  PROVE  Door(c) \in Cores /\ appMsg[c].to \in Cores
BY MailboxAssumption DEF MailboxAssumption, TypeOK, Message, Door, Route

LEMMA TypeInit == Init => TypeOK
BY NoneIsMessage DEF Init, TypeOK, AppPlaces, SrvPlaces

LEMMA TypeStep == TypeOK /\ [Next]_vars => TypeOK'
<1> SUFFICES ASSUME TypeOK, [Next]_vars PROVE TypeOK'
  OBVIOUS
<1> USE DEF TypeOK, AppGoto, SrvGoto, AppPlaces, SrvPlaces, appVars, srvVars
<1>1. ASSUME NEW c \in Cores, NEW d \in Cores, Call(c, d) PROVE TypeOK'
  <2>1. [from |-> c, to |-> d, n |-> posted[c] + 1] \in Message
    BY DEF Message
  <2> QED
    BY <1>1, <2>1 DEF Call
<1>2. ASSUME NEW c \in Cores, AppLocks(c) PROVE TypeOK'
  <2>1. {App(c)} \in SUBSET ({"app", "srv"} \X Cores)
    BY DEF App
  <2> QED
    BY <1>2, <2>1, DoorType DEF AppLocks, Acquire
<1>3. ASSUME NEW c \in Cores, AppPosts(c) PROVE TypeOK'
  <2>1. Door(c) \in Cores
    BY DoorType
  <2>2. /\ holder' = [holder EXCEPT ![Door(c)] = {}]
        /\ UNCHANGED <<sgi, eventq, appMsg, srvVars>>
        /\ \/ /\ mb' = [mb EXCEPT ![Door(c)] = appMsg[c]]
              /\ posted' = [posted EXCEPT ![c] = @ + 1]
              /\ appAt' = [appAt EXCEPT ![c] = "signal"]
           \/ UNCHANGED <<mb, posted>> /\ appAt' = [appAt EXCEPT ![c] = "idle"]
    BY <1>3 DEF AppPosts, Release
  <2>3. mb' \in [Cores -> Message] /\ posted' \in [Cores -> Nat]
    BY <2>1, <2>2
  <2>4. holder' \in [Cores -> SUBSET ({"app", "srv"} \X Cores)]
    BY <2>1, <2>2
  <2> QED
    BY <2>2, <2>3, <2>4
<1>4. ASSUME NEW c \in Cores, AppSignals(c) PROVE TypeOK'
  BY <1>4, DoorType DEF AppSignals, Signal
<1>5. ASSUME NEW c \in Cores, Interrupt(c) PROVE TypeOK'
  <2>1. /\ sgi' \subseteq sgi /\ UNCHANGED <<mb, holder, appVars, srvMsg, handed>>
        /\ \/ srvAt' = [srvAt EXCEPT ![c] = "try"] /\ UNCHANGED eventq
           \/ eventq' = [eventq EXCEPT ![c] = @ + 1] /\ UNCHANGED srvAt
    BY <1>5 DEF Interrupt
  <2>2. eventq' \in [Cores -> Nat] /\ srvAt' \in [Cores -> SrvPlaces]
    <3>1. eventq[c] + 1 \in Nat
      OBVIOUS
    <3>2. CASE srvAt' = [srvAt EXCEPT ![c] = "try"] /\ UNCHANGED eventq
      BY <3>2
    <3>3. CASE eventq' = [eventq EXCEPT ![c] = @ + 1] /\ UNCHANGED srvAt
      BY <3>1, <3>3
    <3> QED
      BY <2>1, <3>2, <3>3
  <2> QED
    BY <2>1, <2>2
<1>6. ASSUME NEW c \in Cores, Await(c) PROVE TypeOK'
  <2>1. eventq[c] > 0 => eventq[c] - 1 \in Nat
    OBVIOUS
  <2> QED
    BY <1>6, <2>1 DEF Await
<1>7. ASSUME NEW c \in Cores, SrvLocks(c) PROVE TypeOK'
  <2>1. {Srv(c)} \in SUBSET ({"app", "srv"} \X Cores)
    BY DEF Srv
  <2> QED
    BY <1>7, <2>1 DEF SrvLocks, Acquire
<1>8. ASSUME NEW c \in Cores, Take(c) PROVE TypeOK'
  BY <1>8, NoneIsMessage DEF Take, Release
<1>9. ASSUME NEW c \in Cores, Deliver(c) PROVE TypeOK'
  <2>1. srvMsg[c].from \in Cores /\ srvMsg[c].n \in Nat
    BY DEF Message
  <2> QED
    BY <1>9, <2>1 DEF Deliver
<1>10. ASSUME NEW c \in Cores, Replied(c) PROVE TypeOK'
  BY <1>10 DEF Replied
<1> USE MailboxAssumption DEF MailboxAssumption
<1>11. srvMsg[Hub].to \in Cores
  BY DEF Message
<1>12. CASE Forward
  BY <1>12 DEF Forward
<1>13. CASE HubLocks
  <2>1. {Srv(Hub)} \in SUBSET ({"app", "srv"} \X Cores)
    BY DEF Srv
  <2> QED
    BY <1>11, <1>13, <2>1 DEF HubLocks, Acquire
<1>14. CASE HubPosts
  BY <1>11, <1>14 DEF HubPosts, Release
<1>15. CASE HubSignals
  BY <1>11, <1>15 DEF HubSignals, Signal
<1>16. CASE UNCHANGED vars
  BY <1>16 DEF vars
<1> QED
  BY <1>1, <1>2, <1>3, <1>4, <1>5, <1>6, <1>7, <1>8, <1>9, <1>10, <1>12, <1>13,
     <1>14, <1>15, <1>16 DEF Next, Forwarding, Sending, Serving

\* The variables keep their types.
THEOREM Typing == Spec => []TypeOK
<1> QED
  BY TypeInit, TypeStep, PTL DEF Spec


\* The tasks that take locks are told apart.
LEMMA Who ==
  \A a, b : (App(a) = App(b) => a = b) /\ (Srv(a) = Srv(b) => a = b) /\ App(a) # Srv(b)
BY DEF App, Srv

\* Where HeldInside says a holder is.
AppInside(t, c) == appAt[t] = "post" /\ Door(t) = c
SrvInside(t, c) == \/ srvAt[t] = "take" /\ t = c
                   \/ srvAt[t] = "post" /\ t = Hub /\ srvMsg[Hub].to = c

\* A lock word is only set to its taker, who is then inside, and cleared, and
\* its holder leaves only by clearing it.
LEMMA HeldFollows ==
  ASSUME HeldInside,
         \A c \in Cores : \/ holder'[c] \subseteq holder[c]
                          \/ \E a \in Cores : holder'[c] = {App(a)} /\ AppInside(a, c)'
                          \/ \E a \in Cores : holder'[c] = {Srv(a)} /\ SrvInside(a, c)',
         \A c, t \in Cores :
           /\ AppInside(t, c) /\ ~ AppInside(t, c)' => holder'[c] = {}
           /\ SrvInside(t, c) /\ ~ SrvInside(t, c)' => holder'[c] = {}
  PROVE  HeldInside'
<1> SUFFICES ASSUME NEW c \in Cores, NEW t \in Cores
             PROVE  /\ App(t) \in holder'[c] => AppInside(t, c)'
                    /\ Srv(t) \in holder'[c] => SrvInside(t, c)'
  BY DEF HeldInside, AppInside, SrvInside
<1>1. /\ App(t) \in holder[c] => AppInside(t, c)
      /\ Srv(t) \in holder[c] => SrvInside(t, c)
  BY DEF HeldInside, AppInside, SrvInside
<1>2. CASE holder'[c] \subseteq holder[c]
  BY <1>1, <1>2
<1>3. ASSUME NEW a \in Cores, holder'[c] = {App(a)}, AppInside(a, c)'
      PROVE  /\ App(t) \in holder'[c] => AppInside(t, c)'
             /\ Srv(t) \in holder'[c] => SrvInside(t, c)'
  BY <1>3, Who
<1>4. ASSUME NEW a \in Cores, holder'[c] = {Srv(a)}, SrvInside(a, c)'
      PROVE  /\ App(t) \in holder'[c] => AppInside(t, c)'
             /\ Srv(t) \in holder'[c] => SrvInside(t, c)'
  BY <1>4, Who
<1> QED
  BY <1>2, <1>3, <1>4

\* Who is inside a mailbox's critical section.
LEMMA HeldStep == TypeOK /\ HeldInside /\ [Next]_vars => HeldInside'
<1> SUFFICES ASSUME TypeOK, HeldInside, [Next]_vars PROVE HeldInside'
  OBVIOUS
<1> USE DEF AppInside, SrvInside
<1>0. /\ holder \in [Cores -> SUBSET ({"app", "srv"} \X Cores)]
      /\ appMsg \in [Cores -> Message] /\ srvMsg \in [Cores -> Message]
      /\ appAt \in [Cores -> AppPlaces] /\ srvAt \in [Cores -> SrvPlaces]
      /\ Hub \in Cores /\ srvMsg[Hub].to \in Cores
      /\ \A t \in Cores : Door(t) \in Cores
  BY DoorType, MailboxAssumption DEF MailboxAssumption, TypeOK, Message
<1>1. ASSUME NEW c \in Cores, NEW d \in Cores, Call(c, d) PROVE HeldInside'
  <2>1. /\ holder' = holder /\ srvAt' = srvAt /\ srvMsg' = srvMsg /\ appAt[c] = "idle"
        /\ \A t \in Cores : t # c => appAt'[t] = appAt[t] /\ appMsg'[t] = appMsg[t]
    BY <1>0, <1>1 DEF Call, AppGoto, srvVars
  <2>2. \A t \in Cores : t # c => Door(t)' = Door(t)
    BY <2>1 DEF Door
  <2> QED
    BY <2>1, <2>2, HeldFollows
<1>2. ASSUME NEW c \in Cores, AppLocks(c) PROVE HeldInside'
  <2>1. /\ UNCHANGED <<appMsg, srvAt, srvMsg>> /\ appAt[c] = "lock" /\ appAt'[c] = "post"
        /\ \A t \in Cores : t # c => appAt'[t] = appAt[t]
        /\ \A e \in Cores : holder'[e] = IF e = Door(c) THEN {App(c)} ELSE holder[e]
    BY <1>0, <1>2 DEF AppLocks, Acquire, AppGoto, srvVars
  <2>2. \A t \in Cores : Door(t)' = Door(t)
    BY <2>1 DEF Door
  <2> QED
    BY <2>1, <2>2, HeldFollows
<1>3. ASSUME NEW c \in Cores, AppPosts(c) PROVE HeldInside'
  <2>1. /\ UNCHANGED <<appMsg, srvAt, srvMsg>>
        /\ \A t \in Cores : t # c => appAt'[t] = appAt[t]
        /\ \A e \in Cores : holder'[e] = IF e = Door(c) THEN {} ELSE holder[e]
    BY <1>0, <1>3 DEF AppPosts, Release, AppGoto, srvVars
  <2>2. \A t \in Cores : Door(t)' = Door(t)
    BY <2>1 DEF Door
  <2> QED
    BY <2>1, <2>2, HeldFollows
<1>4. ASSUME NEW c \in Cores, AppSignals(c) PROVE HeldInside'
  <2>1. /\ UNCHANGED <<holder, appMsg, srvAt, srvMsg>> /\ appAt[c] = "signal"
        /\ \A t \in Cores : t # c => appAt'[t] = appAt[t]
    BY <1>0, <1>4 DEF AppSignals, AppGoto, srvVars
  <2>2. \A t \in Cores : Door(t)' = Door(t)
    BY <2>1 DEF Door
  <2> QED
    BY <2>1, <2>2, HeldFollows
<1>5. ASSUME NEW c \in Cores, srvAt[c] \notin {"take", "post"}, UNCHANGED <<holder, appVars>>,
             \A t \in Cores : t # c => srvAt'[t] = srvAt[t] /\ srvMsg'[t] = srvMsg[t]
      PROVE  HeldInside'
  <2>1. \A t \in Cores : Door(t)' = Door(t)
    BY <1>5 DEF Door, appVars
  <2>2. \A e, t \in Cores : SrvInside(t, e) => SrvInside(t, e)'
    BY <1>0, <1>5
  <2> QED
    BY <1>5, <2>1, <2>2, HeldFollows DEF appVars
<1>6. ASSUME NEW c \in Cores, Interrupt(c) PROVE HeldInside'
  <2>1. CASE srvAt[c] = "asleep"
    BY <1>0, <1>5, <1>6, <2>1 DEF Interrupt, SrvGoto
  <2>2. CASE srvAt[c] # "asleep"
    <3>1. UNCHANGED <<holder, appVars, srvAt, srvMsg>>
      BY <1>6, <2>2 DEF Interrupt
    <3>2. \A t \in Cores : Door(t)' = Door(t)
      BY <3>1 DEF Door, appVars
    <3> QED
      BY <3>1, <3>2, HeldFollows DEF appVars
  <2> QED
    BY <2>1, <2>2
<1>7. ASSUME NEW c \in Cores, SrvLocks(c) PROVE HeldInside'
  <2>1. /\ UNCHANGED <<appAt, appMsg, srvMsg>> /\ srvAt[c] = "try" /\ srvAt'[c] = "take"
        /\ \A t \in Cores : t # c => srvAt'[t] = srvAt[t]
        /\ \A e \in Cores : holder'[e] = IF e = c THEN {Srv(c)} ELSE holder[e]
    BY <1>0, <1>7 DEF SrvLocks, Acquire, SrvGoto, appVars
  <2>2. \A t \in Cores : Door(t)' = Door(t)
    BY <2>1 DEF Door
  <2> QED
    BY <2>1, <2>2, HeldFollows
<1>8. ASSUME NEW c \in Cores, Take(c) PROVE HeldInside'
  <2>1. /\ UNCHANGED <<appAt, appMsg>> /\ srvAt[c] = "take"
        /\ \A t \in Cores : t # c => srvAt'[t] = srvAt[t] /\ srvMsg'[t] = srvMsg[t]
        /\ \A e \in Cores : holder'[e] = IF e = c THEN {} ELSE holder[e]
    BY <1>0, <1>8 DEF Take, Release, SrvGoto, appVars
  <2>2. \A t \in Cores : Door(t)' = Door(t)
    BY <2>1 DEF Door
  <2> QED
    BY <1>0, <2>1, <2>2, HeldFollows
<1>9. ASSUME NEW c \in Cores, Await(c) \/ Deliver(c) \/ Replied(c) PROVE HeldInside'
  BY <1>0, <1>5, <1>9 DEF Await, Deliver, Replied, SrvGoto
<1>10. CASE Forward \/ HubSignals
  BY <1>0, <1>5, <1>10 DEF Forward, HubSignals, SrvGoto
<1>11. CASE HubLocks
  <2>1. /\ UNCHANGED <<appAt, appMsg, srvMsg>> /\ srvAt[Hub] = "lock" /\ srvAt'[Hub] = "post"
        /\ \A t \in Cores : t # Hub => srvAt'[t] = srvAt[t]
        /\ \A e \in Cores : holder'[e] = IF e = srvMsg[Hub].to THEN {Srv(Hub)} ELSE holder[e]
    BY <1>0, <1>11 DEF HubLocks, Acquire, SrvGoto, appVars
  <2>2. \A t \in Cores : Door(t)' = Door(t)
    BY <2>1 DEF Door
  <2> QED
    BY <1>0, <2>1, <2>2, HeldFollows
<1>12. CASE HubPosts
  <2>1. /\ UNCHANGED <<appAt, appMsg, srvMsg>> /\ srvAt[Hub] = "post"
        /\ \A t \in Cores : t # Hub => srvAt'[t] = srvAt[t]
        /\ \A e \in Cores : holder'[e] = IF e = srvMsg[Hub].to THEN {} ELSE holder[e]
    BY <1>0, <1>12 DEF HubPosts, Release, SrvGoto, appVars
  <2>2. \A t \in Cores : Door(t)' = Door(t)
    BY <2>1 DEF Door
  <2> QED
    BY <1>0, <2>1, <2>2, HeldFollows
<1>13. CASE UNCHANGED vars
  BY <1>13 DEF vars, HeldInside, Door, appVars, srvVars
<1> QED
  BY <1>1, <1>2, <1>3, <1>4, <1>6, <1>7, <1>8, <1>9, <1>10, <1>11, <1>12, <1>13
  DEF Next, Forwarding, Sending, Serving

\* A mailbox's lock is held only by a task inside mailbox_post or
\* MailboxTryReceive on that mailbox, whichever way it leaves them.
THEOREM LocksReturned == Spec => []HeldInside
<1>1. Init => HeldInside
  BY DEF Init, HeldInside
<1> QED
  BY <1>1, Typing, HeldStep, PTL DEF Spec

-----------------------------------------------------------------------------
(* What is on its way, and through which mailbox.                          *)

\* Message m has been posted by its source.
Genuine(m) == m.n \in 1 .. posted[m.from]

\* An app in CoreSend sends its next message, through another core's mailbox.
AppsSend ==
  \A a \in Cores : appAt[a] # "idle" =>
    /\ appMsg[a].from = a /\ Door(a) # a
    /\ appMsg[a].n = IF appAt[a] = "signal" THEN posted[a] ELSE posted[a] + 1

\* A message in a spoke's mailbox, or in its server's hands, is for that spoke;
\* the hub's server passes on messages of one spoke to another.
MailRouted ==
  /\ \A c \in Cores : mb[c] # None =>
       Genuine(mb[c]) /\ mb[c].from # c /\ (c # Hub => mb[c].to = c)
  /\ \A c \in Cores : srvAt[c] = "route" =>
       Genuine(srvMsg[c]) /\ srvMsg[c].from # c /\ (c # Hub => srvMsg[c].to = c)
  /\ \A c \in Cores : srvAt[c] \in {"lock", "post", "signal"} =>
       /\ c = Hub /\ Genuine(srvMsg[c]) /\ srvMsg[c].from # Hub
       /\ srvMsg[c].to \notin {Hub, srvMsg[c].from}

\* Messages that are posted stay so, and are not None.
LEMMA GenuineStays ==
  ASSUME TypeOK, NEW m \in Message, Genuine(m), \A c \in Cores : posted'[c] \in Nat /\ posted'[c] >= posted[c]
  PROVE  Genuine(m)' /\ m # None
<1>1. m.n \in 1 .. posted[m.from] /\ m.from \in Cores
  BY DEF Genuine, Message
<1>2. m.n \in 1 .. posted'[m.from]
  BY <1>1 DEF TypeOK
<1>3. m # None
  BY <1>1 DEF None, TypeOK
<1> QED
  BY <1>2, <1>3 DEF Genuine

\* A step of the server of c that leaves the mailboxes alone and puts it where
\* it looks at no message, or where it is if it was waiting.
LEMMA RoutedQuiet ==
  ASSUME TypeOK, MailRouted, UNCHANGED <<mb, posted>>,
         \A c \in Cores : \/ srvAt'[c] \notin {"route", "lock", "post", "signal"}
                          \/ srvAt'[c] = srvAt[c] /\ srvMsg'[c] = srvMsg[c]
                          \/ /\ c = Hub /\ srvAt[c] \in {"lock", "post", "signal"}
                             /\ srvMsg'[c] = srvMsg[c]
  PROVE  MailRouted'
BY DEF MailRouted, Genuine

LEMMA AppsQuiet ==
  ASSUME AppsSend, UNCHANGED appVars
  PROVE  AppsSend'
BY DEF AppsSend, Door, appVars

\* The message an app posts is genuine from then on, and well routed.
LEMMA AppPostsRouted ==
  ASSUME TypeOK, AppsSend, MailRouted, NEW c \in Cores, AppPosts(c)
  PROVE  AppsSend' /\ MailRouted'
<1>0. /\ appAt \in [Cores -> AppPlaces] /\ appMsg \in [Cores -> Message]
      /\ mb \in [Cores -> Message] /\ posted \in [Cores -> Nat]
      /\ srvMsg \in [Cores -> Message] /\ Hub \in Cores /\ Door(c) \in Cores
  BY DoorType, MailboxAssumption DEF MailboxAssumption, TypeOK
<1>1. /\ appAt[c] = "post" /\ appMsg' = appMsg /\ srvAt' = srvAt /\ srvMsg' = srvMsg
      /\ \A a \in Cores : a # c => appAt'[a] = appAt[a]
      /\ \/ /\ mb' = [mb EXCEPT ![Door(c)] = appMsg[c]]
            /\ posted' = [posted EXCEPT ![c] = @ + 1] /\ appAt'[c] = "signal"
         \/ mb' = mb /\ posted' = posted /\ appAt'[c] = "idle"
  BY <1>0 DEF AppPosts, AppGoto, srvVars
<1>2. \A a \in Cores : Door(a)' = Door(a)
  BY <1>1 DEF Door
<1>3. /\ appMsg[c].from = c /\ Door(c) # c /\ appMsg[c].n = posted[c] + 1
  BY <1>1 DEF AppsSend
<1>4. CASE mb' = mb /\ posted' = posted /\ appAt'[c] = "idle"
  <2>1. AppsSend'
    BY <1>1, <1>2, <1>4 DEF AppsSend
  <2> QED
    BY <1>1, <1>4, <2>1, RoutedQuiet
<1>5. CASE /\ mb' = [mb EXCEPT ![Door(c)] = appMsg[c]]
           /\ posted' = [posted EXCEPT ![c] = @ + 1] /\ appAt'[c] = "signal"
  <2>1. /\ posted'[c] = posted[c] + 1
        /\ \A a \in Cores : a # c => posted'[a] = posted[a]
        /\ \A a \in Cores : posted'[a] \in Nat /\ posted'[a] >= posted[a]
    BY <1>0, <1>5
  <2>2. AppsSend'
    BY <1>0, <1>1, <1>2, <1>3, <1>5, <2>1 DEF AppsSend
  <2>3. Genuine(appMsg[c])'
    <3>1. posted[c] \in Nat
      BY <1>0
    <3> QED
      BY <1>1, <1>3, <2>1, <3>1 DEF Genuine
  <2>4. Door(c) # Hub => appMsg[c].to = Door(c)
    BY DEF Door, Route
  <2>5. /\ mb'[Door(c)] = appMsg[c]
        /\ \A e \in Cores : e # Door(c) => mb'[e] = mb[e]
    BY <1>0, <1>5
  <2>6. ASSUME NEW e \in Cores, mb'[e] # None
        PROVE  Genuine(mb[e])' /\ mb'[e].from # e /\ (e # Hub => mb'[e].to = e)
    <3>1. CASE e = Door(c)
      BY <1>1, <1>3, <2>3, <2>4, <2>5, <3>1 DEF Genuine
    <3>2. CASE e # Door(c)
      <4>1. mb'[e] = mb[e] /\ mb[e] \in Message
        BY <1>0, <2>5, <3>2
      <4>2. Genuine(mb[e]) /\ mb[e].from # e /\ (e # Hub => mb[e].to = e)
        BY <2>6, <4>1 DEF MailRouted
      <4>3. mb[e].n \in 1 .. posted'[mb[e].from]
        BY <2>1, <4>1, <4>2, GenuineStays DEF Genuine
      <4> QED
        BY <4>1, <4>2, <4>3 DEF Genuine
    <3> QED
      BY <3>1, <3>2
  <2>7. ASSUME NEW e \in Cores, Genuine(srvMsg[e]) PROVE Genuine(srvMsg[e])'
    <3>1. srvMsg[e] \in Message /\ srvMsg'[e] = srvMsg[e]
      BY <1>0, <1>1
    <3>2. srvMsg[e].n \in 1 .. posted'[srvMsg[e].from]
      BY <2>1, <2>7, <3>1, GenuineStays DEF Genuine
    <3> QED
      BY <3>1, <3>2 DEF Genuine
  <2>8. MailRouted'
    BY <1>1, <2>6, <2>7 DEF MailRouted
  <2> QED
    BY <2>2, <2>8
<1> QED
  BY <1>1, <1>4, <1>5

\* The server takes what its mailbox holds.
LEMMA TakeRouted ==
  ASSUME TypeOK, MailRouted, NEW c \in Cores, Take(c)
  PROVE  MailRouted'
<1>1. /\ mb \in [Cores -> Message] /\ srvAt \in [Cores -> SrvPlaces]
      /\ srvMsg \in [Cores -> Message]
  BY DEF TypeOK
<1>2. /\ posted' = posted /\ mb'[c] = None /\ srvMsg'[c] = mb[c]
      /\ srvAt'[c] = IF mb[c] = None THEN "top" ELSE "route"
      /\ \A e \in Cores : e # c => /\ mb'[e] = mb[e] /\ srvMsg'[e] = srvMsg[e]
                                   /\ srvAt'[e] = srvAt[e]
  BY <1>1 DEF Take, SrvGoto, appVars
<1> QED
  BY <1>2 DEF MailRouted, Genuine

\* The hub decides where a message goes on.
LEMMA ForwardRouted ==
  ASSUME TypeOK, MailRouted, Forward
  PROVE  MailRouted'
<1>1. /\ srvAt \in [Cores -> SrvPlaces] /\ Hub \in Cores
  BY MailboxAssumption DEF MailboxAssumption, TypeOK
<1>2. /\ UNCHANGED <<mb, posted, srvMsg>> /\ srvAt[Hub] = "route" /\ srvMsg[Hub].to # Hub
      /\ srvAt'[Hub] = IF srvMsg[Hub].to = srvMsg[Hub].from THEN "top" ELSE "lock"
      /\ \A e \in Cores : e # Hub => srvAt'[e] = srvAt[e]
  BY <1>1 DEF Forward, SrvGoto, appVars
<1> QED
  BY <1>1, <1>2 DEF MailRouted, Genuine

\* What the hub posts is for the mailbox it posts to.
LEMMA HubPostsRouted ==
  ASSUME TypeOK, MailRouted, HubPosts
  PROVE  MailRouted'
<1> DEFINE d == srvMsg[Hub].to
<1>1. /\ mb \in [Cores -> Message] /\ srvAt \in [Cores -> SrvPlaces] /\ Hub \in Cores
      /\ d \in Cores
  BY MailboxAssumption DEF MailboxAssumption, TypeOK, Message
<1>2. /\ posted' = posted /\ srvMsg' = srvMsg /\ srvAt[Hub] = "post"
      /\ srvAt'[Hub] \in {"signal", "top"}
      /\ mb'[d] = mb[d] \/ mb'[d] = srvMsg[Hub]
      /\ \A e \in Cores : /\ e # Hub => srvAt'[e] = srvAt[e]
                          /\ e # d => mb'[e] = mb[e]
  BY <1>1 DEF HubPosts, SrvGoto, appVars
<1>3. /\ Genuine(srvMsg[Hub]) /\ srvMsg[Hub].from # Hub /\ d \notin {Hub, srvMsg[Hub].from}
  BY <1>1, <1>2 DEF MailRouted
<1> QED
  BY <1>1, <1>2, <1>3 DEF MailRouted, Genuine

LEMMA RoutedStep ==
  TypeOK /\ AppsSend /\ MailRouted /\ [Next]_vars => AppsSend' /\ MailRouted'
<1> SUFFICES ASSUME TypeOK, AppsSend, MailRouted, [Next]_vars
             PROVE  AppsSend' /\ MailRouted'
  OBVIOUS
<1>0. /\ appAt \in [Cores -> AppPlaces] /\ srvAt \in [Cores -> SrvPlaces]
      /\ appMsg \in [Cores -> Message] /\ Hub \in Cores
  BY MailboxAssumption DEF MailboxAssumption, TypeOK
<1>1. ASSUME NEW c \in Cores, NEW d \in Cores, Call(c, d) PROVE AppsSend' /\ MailRouted'
  <2>1. /\ UNCHANGED <<mb, posted, srvAt, srvMsg>> /\ Route(c, d) # c
        /\ appMsg'[c] = [from |-> c, to |-> d, n |-> posted[c] + 1] /\ appAt'[c] = "lock"
        /\ \A a \in Cores : a # c => appAt'[a] = appAt[a] /\ appMsg'[a] = appMsg[a]
    BY <1>0, <1>1 DEF Call, AppGoto, srvVars
  <2>2. \A a \in Cores : Door(a)' = IF a = c THEN Route(c, d) ELSE Door(a)
    BY <2>1 DEF Door
  <2>3. AppsSend'
    BY <2>1, <2>2 DEF AppsSend
  <2> QED
    BY <2>1, <2>3, RoutedQuiet
<1>2. ASSUME NEW c \in Cores, AppLocks(c) \/ AppSignals(c) PROVE AppsSend' /\ MailRouted'
  <2>1. /\ UNCHANGED <<mb, posted, appMsg, srvAt, srvMsg>>
        /\ \/ appAt[c] = "lock" /\ appAt'[c] = "post"
           \/ appAt'[c] = "idle"
        /\ \A a \in Cores : a # c => appAt'[a] = appAt[a]
    BY <1>0, <1>2 DEF AppLocks, AppSignals, AppGoto, srvVars
  <2>2. \A a \in Cores : Door(a)' = Door(a)
    BY <2>1 DEF Door
  <2>3. AppsSend'
    BY <2>1, <2>2 DEF AppsSend
  <2> QED
    BY <2>1, <2>3, RoutedQuiet
<1>3. ASSUME NEW c \in Cores, AppPosts(c) PROVE AppsSend' /\ MailRouted'
  BY <1>3, AppPostsRouted
<1>4. ASSUME NEW c \in Cores, Interrupt(c) \/ Await(c) \/ SrvLocks(c) \/ Deliver(c) \/ Replied(c)
      PROVE  AppsSend' /\ MailRouted'
  <2>1. /\ UNCHANGED <<mb, posted, appVars>>
        /\ \A e \in Cores : \/ srvAt'[e] \notin {"route", "lock", "post", "signal"}
                            \/ srvAt'[e] = srvAt[e] /\ srvMsg'[e] = srvMsg[e]
    BY <1>0, <1>4 DEF Interrupt, Await, SrvLocks, Deliver, Replied, SrvGoto, appVars
  <2> QED
    BY <2>1, AppsQuiet, RoutedQuiet
<1>5. ASSUME NEW c \in Cores, Take(c) PROVE AppsSend' /\ MailRouted'
  BY <1>5, AppsQuiet, TakeRouted DEF Take
<1>6. CASE Forward \/ HubPosts
  BY <1>6, AppsQuiet, ForwardRouted, HubPostsRouted DEF Forward, HubPosts
<1>7. CASE HubLocks \/ HubSignals
  <2>1. /\ UNCHANGED <<mb, posted, appVars>>
        /\ \A e \in Cores : \/ srvAt'[e] \notin {"route", "lock", "post", "signal"}
                            \/ srvAt'[e] = srvAt[e] /\ srvMsg'[e] = srvMsg[e]
                            \/ /\ e = Hub /\ srvAt[e] \in {"lock", "post", "signal"}
                               /\ srvMsg'[e] = srvMsg[e]
    BY <1>0, <1>7 DEF HubLocks, HubSignals, SrvGoto, appVars
  <2> QED
    BY <2>1, AppsQuiet, RoutedQuiet
<1>8. CASE UNCHANGED vars
  BY <1>8, AppsQuiet, RoutedQuiet DEF vars, appVars, srvVars
<1> QED
  BY <1>1, <1>2, <1>3, <1>4, <1>5, <1>6, <1>7, <1>8 DEF Next, Forwarding, Sending, Serving

-----------------------------------------------------------------------------
(* Tokens.                                                                 *)

\* The apps about to signal core c, and the sources of its pending interrupts.
Callers(c) == {a \in Cores : appAt[a] = "signal" /\ Door(a) = c}
Pending(c) == {s \in Cores : <<s, c>> \in sgi}

Looking(c)  == IF srvAt[c] \in {"try", "take"} THEN 1 ELSE 0
Relayed(c)  == IF srvAt[Hub] = "signal" /\ srvMsg[Hub].to = c THEN 1 ELSE 0

LEMMA TokensAre ==
  \A c : Tokens(c) = Cardinality(Callers(c)) + Cardinality(Pending(c)) + eventq[c]
                     + Looking(c) + Relayed(c)
BY DEF Tokens, Callers, Pending, Looking, Relayed

LEMMA Counts ==
  ASSUME NEW S \in SUBSET Cores
  PROVE  /\ IsFiniteSet(S) /\ Cardinality(S) \in Nat
         /\ \A x \in Cores : /\ x \notin S => Cardinality(S \cup {x}) = Cardinality(S) + 1
                             /\ x \in S => /\ Cardinality(S \ {x}) = Cardinality(S) - 1
                                           /\ Cardinality(S) >= 1
<1>1. IsFiniteSet(S)
  BY FS_Subset, MailboxAssumption DEF MailboxAssumption
<1>2. Cardinality(S) \in Nat
  BY <1>1, FS_CardinalityType
<1>3. ASSUME NEW x \in Cores
      PROVE  /\ x \notin S => Cardinality(S \cup {x}) = Cardinality(S) + 1
             /\ x \in S => Cardinality(S \ {x}) = Cardinality(S) - 1 /\ Cardinality(S) >= 1
  <2>1. x \notin S => Cardinality(S \cup {x}) = Cardinality(S) + 1
    BY <1>1, FS_AddElement
  <2>2. x \in S => Cardinality(S \ {x}) = Cardinality(S) - 1
    BY <1>1, FS_RemoveElement
  <2>3. Cardinality(S \ {x}) \in Nat
    BY <1>1, FS_RemoveElement, FS_CardinalityType
  <2> QED
    BY <1>2, <2>1, <2>2, <2>3
<1> QED
  BY <1>1, <1>2, <1>3

\* The five counts are naturals.
CountsTyped ==
  \A c \in Cores :
    /\ Callers(c) \in SUBSET Cores /\ Pending(c) \in SUBSET Cores
    /\ Cardinality(Callers(c)) \in Nat /\ Cardinality(Pending(c)) \in Nat
    /\ eventq[c] \in Nat /\ Looking(c) \in {0, 1} /\ Relayed(c) \in {0, 1}

LEMMA PartsType == TypeOK => CountsTyped
<1> SUFFICES ASSUME TypeOK, NEW c \in Cores
             PROVE  /\ Callers(c) \in SUBSET Cores /\ Pending(c) \in SUBSET Cores
                    /\ Cardinality(Callers(c)) \in Nat /\ Cardinality(Pending(c)) \in Nat
                    /\ eventq[c] \in Nat /\ Looking(c) \in {0, 1} /\ Relayed(c) \in {0, 1}
  BY DEF CountsTyped
<1>1. Callers(c) \in SUBSET Cores /\ Pending(c) \in SUBSET Cores
  BY DEF Callers, Pending
<1>2. Cardinality(Callers(c)) \in Nat /\ Cardinality(Pending(c)) \in Nat
  BY <1>1, Counts
<1> QED
  BY <1>1, <1>2 DEF TypeOK, Looking, Relayed

\* Mailboxes and tokens of all cores stay.
LEMMA TokensStay ==
  ASSUME OneTokenPerMessage,
         \A c \in Cores : /\ mb'[c] = None <=> mb[c] = None
                          /\ Callers(c)' = Callers(c) /\ Pending(c)' = Pending(c)
                          /\ eventq'[c] = eventq[c]
                          /\ Looking(c)' = Looking(c) /\ Relayed(c)' = Relayed(c)
  PROVE  OneTokenPerMessage'
<1>1. \A c \in Cores : Tokens(c)' = Tokens(c)
  <2> TAKE c \in Cores
  <2>1. Tokens(c)' = Cardinality(Callers(c)') + Cardinality(Pending(c)') + eventq'[c]
                     + Looking(c)' + Relayed(c)'
    BY DEF Tokens, Callers, Pending, Looking, Relayed
  <2> QED
    BY <2>1, TokensAre
<1> QED
  BY <1>1 DEF OneTokenPerMessage

\* The mailbox and the tokens of core d change, and balance.
LEMMA TokensMove ==
  ASSUME OneTokenPerMessage, NEW d \in Cores,
         \A c \in Cores \ {d} :
           /\ mb'[c] = mb[c] /\ eventq'[c] = eventq[c]
           /\ Callers(c)' = Callers(c) /\ Pending(c)' = Pending(c)
           /\ Looking(c)' = Looking(c) /\ Relayed(c)' = Relayed(c),
         Cardinality(Callers(d)') + Cardinality(Pending(d)') + eventq'[d]
           + Looking(d)' + Relayed(d)' = IF mb'[d] = None THEN 0 ELSE 1
  PROVE  OneTokenPerMessage'
<1>1. \A c \in Cores :
        Tokens(c)' = Cardinality(Callers(c)') + Cardinality(Pending(c)') + eventq'[c]
                     + Looking(c)' + Relayed(c)'
  BY DEF Tokens, Callers, Pending, Looking, Relayed
<1>2. \A c \in Cores \ {d} : Tokens(c)' = Tokens(c)
  BY <1>1, TokensAre
<1>3. None' = None
  BY DEF None
<1>4. ASSUME NEW c \in Cores PROVE Tokens(c)' = IF mb'[c] = None THEN 0 ELSE 1
  <2>1. CASE c = d
    BY <1>1, <2>1
  <2>2. CASE c # d
    BY <1>2, <2>2 DEF OneTokenPerMessage
  <2> QED
    BY <2>1, <2>2
<1> QED
  BY <1>3, <1>4 DEF OneTokenPerMessage

\* What the invariant says of one mailbox, as an equation of counts.
LEMMA Balance ==
  ASSUME TypeOK, OneTokenPerMessage, NEW c \in Cores
  PROVE  /\ Cardinality(Callers(c)) + Cardinality(Pending(c)) + eventq[c]
              + Looking(c) + Relayed(c) = IF mb[c] = None THEN 0 ELSE 1
         /\ Cardinality(Callers(c)) \in Nat /\ Cardinality(Pending(c)) \in Nat
         /\ eventq[c] \in Nat /\ Looking(c) \in {0, 1} /\ Relayed(c) \in {0, 1}
         /\ Callers(c) \in SUBSET Cores /\ Pending(c) \in SUBSET Cores
BY PartsType, TokensAre DEF OneTokenPerMessage, CountsTyped

\* mailbox_post fills an EMPTY slot, and its caller is about to signal.
LEMMA AppPostsTokens ==
  ASSUME TypeOK, AppsSend, MailRouted, OneTokenPerMessage, NEW c \in Cores, AppPosts(c)
  PROVE  OneTokenPerMessage'
<1>a. PICK d \in Cores : d = Door(c)
  BY DoorType
<1>0. /\ appAt \in [Cores -> AppPlaces] /\ appMsg \in [Cores -> Message]
      /\ mb \in [Cores -> Message] /\ posted \in [Cores -> Nat]
  BY DEF TypeOK
<1>1. /\ appAt[c] = "post" /\ UNCHANGED <<appMsg, srvVars, sgi, eventq>>
      /\ \A a \in Cores : a # c => appAt'[a] = appAt[a]
      /\ \/ /\ mb[d] = None /\ mb' = [mb EXCEPT ![d] = appMsg[c]] /\ appAt'[c] = "signal"
         \/ mb' = mb /\ appAt'[c] = "idle"
  BY <1>a, <1>0 DEF AppPosts, AppGoto
<1>2. \A a \in Cores : Door(a)' = Door(a)
  BY <1>1 DEF Door
<1>3. \A e \in Cores : /\ Pending(e)' = Pending(e) /\ eventq'[e] = eventq[e]
                       /\ Looking(e)' = Looking(e) /\ Relayed(e)' = Relayed(e)
  BY <1>1 DEF Pending, Looking, Relayed, srvVars
<1>4. CASE mb' = mb /\ appAt'[c] = "idle"
  <2>1. \A e \in Cores : Callers(e)' = Callers(e)
    BY <1>1, <1>2, <1>4 DEF Callers
  <2> QED
    BY <1>3, <1>4, <2>1, TokensStay
<1>5. CASE mb[d] = None /\ mb' = [mb EXCEPT ![d] = appMsg[c]] /\ appAt'[c] = "signal"
  <2>1. /\ Callers(d)' = Callers(d) \cup {c} /\ c \notin Callers(d)
        /\ \A e \in Cores \ {d} : Callers(e)' = Callers(e)
    BY <1>a, <1>1, <1>2, <1>5 DEF Callers
  <2>2. mb'[d] = appMsg[c] /\ appMsg[c] # None
    <3>1. appMsg[c].n = posted[c] + 1 /\ posted[c] + 1 # 0
      BY <1>0, <1>1 DEF AppsSend
    <3> QED
      BY <1>0, <1>5, <3>1, NoneIsMessage
  <2>3. Cardinality(Callers(d)') = Cardinality(Callers(d)) + 1
    BY <1>0, <2>1, Balance, Counts
  <2>4. Cardinality(Callers(d)') + Cardinality(Pending(d)') + eventq'[d]
          + Looking(d)' + Relayed(d)' = 1
    <3>1. /\ Cardinality(Callers(d)) + Cardinality(Pending(d)) + eventq[d]
               + Looking(d) + Relayed(d) = 0
          /\ Cardinality(Callers(d)) \in Nat /\ Cardinality(Pending(d)) \in Nat
          /\ eventq[d] \in Nat /\ Looking(d) \in Nat /\ Relayed(d) \in Nat
      BY <1>0, <1>5, Balance
    <3> QED
      BY <1>0, <1>3, <2>3, <3>1
  <2>6. Cardinality(Callers(d)') + Cardinality(Pending(d)') + eventq'[d]
          + Looking(d)' + Relayed(d)' = IF mb'[d] = None THEN 0 ELSE 1
    BY <2>2, <2>4
  <2>5. \A e \in Cores \ {d} : mb'[e] = mb[e]
    BY <1>0, <1>5
  <2> QED
    BY <1>0, <1>3, <2>1, <2>5, <2>6, TokensMove
<1> QED
  BY <1>1, <1>4, <1>5

\* A new interrupt.
LEMMA SignalPending ==
  ASSUME NEW c \in Cores, NEW d \in Cores, sgi' = sgi \cup {<<c, d>>}
  PROVE  /\ Pending(d)' = Pending(d) \cup {c}
         /\ \A e \in Cores \ {d} : Pending(e)' = Pending(e)
<1>1. \A s, e : <<s, e>> \in sgi' <=> <<s, e>> \in sgi \/ (s = c /\ e = d)
  OBVIOUS
<1> QED
  BY <1>1 DEF Pending

\* The signal becomes a pending interrupt, which was not pending before.
LEMMA AppSignalsTokens ==
  ASSUME TypeOK, OneTokenPerMessage, NEW c \in Cores, AppSignals(c)
  PROVE  OneTokenPerMessage'
<1>a. PICK d \in Cores : d = Door(c)
  BY DoorType
<1>0. appAt \in [Cores -> AppPlaces]
  BY DEF TypeOK
<1>1. /\ appAt[c] = "signal" /\ UNCHANGED <<mb, appMsg, srvVars, eventq>>
      /\ appAt'[c] = "idle" /\ sgi' = sgi \cup {<<c, d>>}
      /\ \A a \in Cores : a # c => appAt'[a] = appAt[a]
  BY <1>a, <1>0 DEF AppSignals, AppGoto, Signal
<1>2. \A a \in Cores : Door(a)' = Door(a)
  BY <1>1 DEF Door
<1>3. \A e \in Cores : /\ eventq'[e] = eventq[e]
                       /\ Looking(e)' = Looking(e) /\ Relayed(e)' = Relayed(e)
  BY <1>1 DEF Looking, Relayed, srvVars
<1>4. /\ c \in Callers(d) /\ Callers(d)' = Callers(d) \ {c}
      /\ \A e \in Cores \ {d} : Callers(e)' = Callers(e)
  BY <1>a, <1>1, <1>2 DEF Callers
<1>5. /\ Pending(d)' = Pending(d) \cup {c}
      /\ \A e \in Cores \ {d} : Pending(e)' = Pending(e)
  BY <1>1, SignalPending
<1>6. /\ Cardinality(Callers(d)') = Cardinality(Callers(d)) - 1
      /\ Cardinality(Callers(d)) >= 1
  BY <1>0, <1>4, Balance, Counts
<1>7. /\ Cardinality(Callers(d)) + Cardinality(Pending(d)) + eventq[d]
           + Looking(d) + Relayed(d) = IF mb[d] = None THEN 0 ELSE 1
      /\ Cardinality(Callers(d)) \in Nat /\ Cardinality(Pending(d)) \in Nat
      /\ eventq[d] \in Nat /\ Looking(d) \in Nat /\ Relayed(d) \in Nat
      /\ Pending(d) \in SUBSET Cores
  BY <1>0, Balance
<1>8. Cardinality(Pending(d)) = 0
  BY <1>6, <1>7
<1>9. c \notin Pending(d)
  <2>1. c \in Pending(d) => Cardinality(Pending(d)) >= 1
    BY <1>7, Counts
  <2> QED
    BY <1>8, <2>1
<1>10. Cardinality(Pending(d)') = Cardinality(Pending(d)) + 1
  BY <1>5, <1>7, <1>9, Counts
<1>11. Cardinality(Callers(d)') + Cardinality(Pending(d)') + eventq'[d]
         + Looking(d)' + Relayed(d)' = IF mb'[d] = None THEN 0 ELSE 1
  <2>1. eventq'[d] = eventq[d] /\ Looking(d)' = Looking(d) /\ Relayed(d)' = Relayed(d) /\ mb' = mb
    BY <1>0, <1>1, <1>3
  <2> QED
    BY <1>6, <1>7, <1>10, <2>1
<1>12. \A e \in Cores \ {d} :
         /\ mb'[e] = mb[e] /\ eventq'[e] = eventq[e]
         /\ Callers(e)' = Callers(e) /\ Pending(e)' = Pending(e)
         /\ Looking(e)' = Looking(e) /\ Relayed(e)' = Relayed(e)
  BY <1>1, <1>3, <1>4, <1>5
<1> QED
  BY <1>0, <1>11, <1>12, TokensMove

\* The interrupt wakes the server or is recorded: a look is still to come.
LEMMA InterruptTokens ==
  ASSUME TypeOK, OneTokenPerMessage, NEW c \in Cores, Interrupt(c)
  PROVE  OneTokenPerMessage'
<1>0. srvAt \in [Cores -> SrvPlaces] /\ eventq \in [Cores -> Nat] /\ Hub \in Cores
  BY MailboxAssumption DEF MailboxAssumption, TypeOK
<1>1. PICK s \in Cores : <<s, c>> \in sgi /\ sgi' = sgi \ {<<s, c>>}
  BY DEF Interrupt
<1>2. /\ UNCHANGED <<mb, appAt, appMsg, srvMsg>>
      /\ \/ srvAt[c] = "asleep" /\ srvAt'[c] = "try" /\ eventq'[c] = eventq[c]
         \/ srvAt[c] # "asleep" /\ srvAt'[c] = srvAt[c] /\ eventq'[c] = eventq[c] + 1
      /\ \A e \in Cores \ {c} : srvAt'[e] = srvAt[e] /\ eventq'[e] = eventq[e]
  BY <1>0 DEF Interrupt, SrvGoto, appVars
<1>3. \A a \in Cores : Door(a)' = Door(a)
  BY <1>2 DEF Door
<1>4. \A e \in Cores : Callers(e)' = Callers(e) /\ Relayed(e)' = Relayed(e)
  BY <1>0, <1>2, <1>3 DEF Callers, Relayed
<1>5. \A a, e : <<a, e>> \in sgi' <=> <<a, e>> \in sgi /\ ~ (a = s /\ e = c)
  BY <1>1
<1>6. /\ s \in Pending(c) /\ Pending(c)' = Pending(c) \ {s}
      /\ \A e \in Cores \ {c} : Pending(e)' = Pending(e)
  BY <1>1, <1>5 DEF Pending
<1>7. /\ Cardinality(Callers(c)) + Cardinality(Pending(c)) + eventq[c]
           + Looking(c) + Relayed(c) = IF mb[c] = None THEN 0 ELSE 1
      /\ Cardinality(Callers(c)) \in Nat /\ Cardinality(Pending(c)) \in Nat
      /\ eventq[c] \in Nat /\ Looking(c) \in Nat /\ Relayed(c) \in Nat
      /\ Pending(c) \in SUBSET Cores
  BY Balance
<1>8. Cardinality(Pending(c)') = Cardinality(Pending(c)) - 1
  BY <1>6, <1>7, Counts
<1>9. eventq'[c] + Looking(c)' = eventq[c] + Looking(c) + 1
  BY <1>0, <1>2 DEF Looking
<1>10. eventq'[c] \in Nat /\ Looking(c)' \in Nat
  BY <1>0, <1>2 DEF Looking
<1>11. Cardinality(Callers(c)') + Cardinality(Pending(c)') + eventq'[c]
         + Looking(c)' + Relayed(c)' = IF mb'[c] = None THEN 0 ELSE 1
  <2>1. Callers(c)' = Callers(c) /\ Relayed(c)' = Relayed(c) /\ mb' = mb
    BY <1>2, <1>4
  <2> QED
    BY <1>7, <1>8, <1>9, <1>10, <2>1
<1>12. \A e \in Cores \ {c} : Looking(e)' = Looking(e)
  BY <1>2 DEF Looking
<1>13. \A e \in Cores \ {c} :
         /\ mb'[e] = mb[e] /\ eventq'[e] = eventq[e]
         /\ Callers(e)' = Callers(e) /\ Pending(e)' = Pending(e)
         /\ Looking(e)' = Looking(e) /\ Relayed(e)' = Relayed(e)
  BY <1>2, <1>4, <1>6, <1>12
<1> QED
  BY <1>11, <1>13, TokensMove

\* AwaitEvent turns a recorded event into a look, and the lock leads to it.
LEMMA AwaitTokens ==
  ASSUME TypeOK, OneTokenPerMessage, NEW c \in Cores, Await(c) \/ SrvLocks(c)
  PROVE  OneTokenPerMessage'
<1>0. srvAt \in [Cores -> SrvPlaces] /\ eventq \in [Cores -> Nat] /\ Hub \in Cores
  BY MailboxAssumption DEF MailboxAssumption, TypeOK
<1>1. /\ UNCHANGED <<mb, sgi, appAt, appMsg, srvMsg>>
      /\ \/ /\ srvAt[c] = "top" /\ srvAt'[c] = "try"
            /\ eventq[c] > 0 /\ eventq'[c] = eventq[c] - 1
         \/ srvAt[c] = "top" /\ srvAt'[c] = "asleep" /\ eventq'[c] = eventq[c]
         \/ srvAt[c] = "try" /\ srvAt'[c] = "take" /\ eventq'[c] = eventq[c]
      /\ \A e \in Cores \ {c} : srvAt'[e] = srvAt[e] /\ eventq'[e] = eventq[e]
  BY <1>0 DEF Await, SrvLocks, SrvGoto, appVars
<1>2. \A a \in Cores : Door(a)' = Door(a)
  BY <1>1 DEF Door
<1>3. \A e \in Cores : /\ Callers(e)' = Callers(e) /\ Relayed(e)' = Relayed(e)
                       /\ Pending(e)' = Pending(e)
  BY <1>0, <1>1, <1>2 DEF Callers, Relayed, Pending
<1>4. /\ Cardinality(Callers(c)) + Cardinality(Pending(c)) + eventq[c]
           + Looking(c) + Relayed(c) = IF mb[c] = None THEN 0 ELSE 1
      /\ Cardinality(Callers(c)) \in Nat /\ Cardinality(Pending(c)) \in Nat
      /\ eventq[c] \in Nat /\ Looking(c) \in Nat /\ Relayed(c) \in Nat
  BY Balance
<1>5. eventq'[c] + Looking(c)' = eventq[c] + Looking(c)
  BY <1>0, <1>1 DEF Looking
<1>6. eventq'[c] \in Nat /\ Looking(c)' \in Nat
  BY <1>0, <1>1 DEF Looking
<1>7. Cardinality(Callers(c)') + Cardinality(Pending(c)') + eventq'[c]
        + Looking(c)' + Relayed(c)' = IF mb'[c] = None THEN 0 ELSE 1
  <2>1. /\ Callers(c)' = Callers(c) /\ Relayed(c)' = Relayed(c)
        /\ Pending(c)' = Pending(c) /\ mb' = mb
    BY <1>1, <1>3
  <2> QED
    BY <1>4, <1>5, <1>6, <2>1
<1>8. \A e \in Cores \ {c} : Looking(e)' = Looking(e)
  BY <1>1 DEF Looking
<1>9. \A e \in Cores \ {c} :
        /\ mb'[e] = mb[e] /\ eventq'[e] = eventq[e]
        /\ Callers(e)' = Callers(e) /\ Pending(e)' = Pending(e)
        /\ Looking(e)' = Looking(e) /\ Relayed(e)' = Relayed(e)
  BY <1>1, <1>3, <1>8
<1> QED
  BY <1>7, <1>9, TokensMove

\* MailboxTryReceive never comes in vain: the look is the mailbox's one token.
LEMMA TakeTokens ==
  ASSUME TypeOK, OneTokenPerMessage, NEW c \in Cores, Take(c)
  PROVE  OneTokenPerMessage' /\ mb[c] # None
<1>0. /\ srvAt \in [Cores -> SrvPlaces] /\ eventq \in [Cores -> Nat] /\ Hub \in Cores
      /\ mb \in [Cores -> Message]
  BY MailboxAssumption DEF MailboxAssumption, TypeOK
<1>1. /\ UNCHANGED <<sgi, eventq, appAt, appMsg>> /\ srvAt[c] = "take" /\ mb'[c] = None
      /\ srvAt'[c] \in {"top", "route"}
      /\ \A e \in Cores \ {c} : srvAt'[e] = srvAt[e] /\ srvMsg'[e] = srvMsg[e] /\ mb'[e] = mb[e]
  BY <1>0 DEF Take, SrvGoto, appVars
<1>2. \A a \in Cores : Door(a)' = Door(a)
  BY <1>1 DEF Door
<1>3. \A e \in Cores : /\ Callers(e)' = Callers(e) /\ Pending(e)' = Pending(e)
                       /\ Relayed(e)' = Relayed(e)
  BY <1>0, <1>1, <1>2 DEF Callers, Pending, Relayed
<1>4. /\ Cardinality(Callers(c)) + Cardinality(Pending(c)) + eventq[c]
           + Looking(c) + Relayed(c) = IF mb[c] = None THEN 0 ELSE 1
      /\ Cardinality(Callers(c)) \in Nat /\ Cardinality(Pending(c)) \in Nat
      /\ eventq[c] \in Nat /\ Relayed(c) \in Nat
  BY Balance
<1>5. Looking(c) = 1 /\ Looking(c)' = 0
  BY <1>1 DEF Looking
<1>6. mb[c] # None
  BY <1>4, <1>5
<1>7. Cardinality(Callers(c)') + Cardinality(Pending(c)') + eventq'[c]
        + Looking(c)' + Relayed(c)' = IF mb'[c] = None THEN 0 ELSE 1
  <2>1. /\ Callers(c)' = Callers(c) /\ Relayed(c)' = Relayed(c)
        /\ Pending(c)' = Pending(c) /\ eventq' = eventq
    BY <1>1, <1>3
  <2> QED
    BY <1>1, <1>4, <1>5, <1>6, <2>1
<1>8. \A e \in Cores \ {c} : Looking(e)' = Looking(e)
  BY <1>1 DEF Looking
<1>9. \A e \in Cores \ {c} :
        /\ mb'[e] = mb[e] /\ eventq'[e] = eventq[e]
        /\ Callers(e)' = Callers(e) /\ Pending(e)' = Pending(e)
        /\ Looking(e)' = Looking(e) /\ Relayed(e)' = Relayed(e)
  BY <1>1, <1>3, <1>8
<1> QED
  BY <1>6, <1>7, <1>9, TokensMove

\* The hub fills an EMPTY slot, and is about to signal.
LEMMA HubPostsTokens ==
  ASSUME TypeOK, MailRouted, OneTokenPerMessage, HubPosts
  PROVE  OneTokenPerMessage'
<1>0. /\ srvAt \in [Cores -> SrvPlaces] /\ eventq \in [Cores -> Nat] /\ Hub \in Cores
      /\ mb \in [Cores -> Message] /\ srvMsg \in [Cores -> Message] /\ srvMsg[Hub].to \in Cores
      /\ \A e \in Cores : posted[e] \in Nat
  BY MailboxAssumption DEF MailboxAssumption, TypeOK, Message
<1>a. PICK d \in Cores : d = srvMsg[Hub].to
  BY <1>0
<1>1. /\ UNCHANGED <<sgi, eventq, appAt, appMsg, srvMsg>> /\ srvAt[Hub] = "post"
      /\ \A e \in Cores \ {Hub} : srvAt'[e] = srvAt[e]
      /\ \/ mb[d] = None /\ mb'[d] = srvMsg[Hub] /\ srvAt'[Hub] = "signal"
         \/ mb'[d] = mb[d] /\ srvAt'[Hub] = "top"
      /\ \A e \in Cores \ {d} : mb'[e] = mb[e]
  BY <1>a, <1>0 DEF HubPosts, SrvGoto, appVars
<1>2. \A a \in Cores : Door(a)' = Door(a)
  BY <1>1 DEF Door
<1>3. \A e \in Cores : /\ Callers(e)' = Callers(e) /\ Pending(e)' = Pending(e)
                       /\ Looking(e)' = Looking(e)
  BY <1>0, <1>1, <1>2 DEF Callers, Pending, Looking
<1>4. \A e \in Cores \ {d} : Relayed(e)' = Relayed(e)
  BY <1>a, <1>1 DEF Relayed
<1>5. srvMsg[Hub] # None
  BY <1>0, <1>1, GenuineStays DEF MailRouted, Genuine, None
<1>6. /\ Cardinality(Callers(d)) + Cardinality(Pending(d)) + eventq[d]
           + Looking(d) + Relayed(d) = IF mb[d] = None THEN 0 ELSE 1
      /\ Cardinality(Callers(d)) \in Nat /\ Cardinality(Pending(d)) \in Nat
      /\ eventq[d] \in Nat /\ Looking(d) \in Nat /\ Relayed(d) \in Nat
  BY Balance
<1>7. \/ Relayed(d) = 0 /\ Relayed(d)' = 1 /\ mb[d] = None /\ mb'[d] # None
      \/ Relayed(d) = 0 /\ Relayed(d)' = 0 /\ mb'[d] = mb[d]
  BY <1>a, <1>1, <1>5 DEF Relayed
<1>8. Cardinality(Callers(d)') + Cardinality(Pending(d)') + eventq'[d]
        + Looking(d)' + Relayed(d)' = IF mb'[d] = None THEN 0 ELSE 1
  <2>1. /\ Callers(d)' = Callers(d) /\ Looking(d)' = Looking(d)
        /\ Pending(d)' = Pending(d) /\ eventq' = eventq
    BY <1>1, <1>3
  <2> QED
    BY <1>6, <1>7, <2>1
<1>9. \A e \in Cores \ {d} :
        /\ mb'[e] = mb[e] /\ eventq'[e] = eventq[e]
        /\ Callers(e)' = Callers(e) /\ Pending(e)' = Pending(e)
        /\ Looking(e)' = Looking(e) /\ Relayed(e)' = Relayed(e)
  BY <1>1, <1>3, <1>4
<1> QED
  BY <1>8, <1>9, TokensMove

\* The hub's signal becomes an interrupt, which was not pending before.
LEMMA HubSignalsTokens ==
  ASSUME TypeOK, OneTokenPerMessage, HubSignals
  PROVE  OneTokenPerMessage'
<1>0. /\ srvAt \in [Cores -> SrvPlaces] /\ eventq \in [Cores -> Nat] /\ Hub \in Cores
      /\ srvMsg[Hub].to \in Cores
  BY MailboxAssumption DEF MailboxAssumption, TypeOK, Message
<1>a. PICK d \in Cores : d = srvMsg[Hub].to
  BY <1>0
<1>1. /\ UNCHANGED <<mb, eventq, appAt, appMsg, srvMsg>> /\ srvAt[Hub] = "signal"
      /\ sgi' = sgi \cup {<<Hub, d>>} /\ srvAt'[Hub] = "top"
      /\ \A e \in Cores \ {Hub} : srvAt'[e] = srvAt[e]
  BY <1>a, <1>0 DEF HubSignals, SrvGoto, Signal, appVars
<1>2. \A a \in Cores : Door(a)' = Door(a)
  BY <1>1 DEF Door
<1>3. \A e \in Cores : Callers(e)' = Callers(e) /\ Looking(e)' = Looking(e)
  BY <1>0, <1>1, <1>2 DEF Callers, Looking
<1>4. \A e \in Cores \ {d} : Relayed(e)' = Relayed(e)
  BY <1>a, <1>1 DEF Relayed
<1>5. Relayed(d) = 1 /\ Relayed(d)' = 0
  BY <1>a, <1>1 DEF Relayed
<1>6. /\ Cardinality(Callers(d)) + Cardinality(Pending(d)) + eventq[d]
           + Looking(d) + Relayed(d) = IF mb[d] = None THEN 0 ELSE 1
      /\ Cardinality(Callers(d)) \in Nat /\ Cardinality(Pending(d)) \in Nat
      /\ eventq[d] \in Nat /\ Looking(d) \in Nat /\ Pending(d) \in SUBSET Cores
  BY Balance
<1>7. Hub \notin Pending(d)
  <2>1. Hub \in Pending(d) => Cardinality(Pending(d)) >= 1
    BY <1>0, <1>6, Counts
  <2> QED
    BY <1>5, <1>6, <2>1
<1>8. /\ Pending(d)' = Pending(d) \cup {Hub}
      /\ \A e \in Cores \ {d} : Pending(e)' = Pending(e)
  BY <1>0, <1>1, SignalPending
<1>9. Cardinality(Pending(d)') = Cardinality(Pending(d)) + 1
  BY <1>0, <1>6, <1>7, <1>8, Counts
<1>10. Cardinality(Callers(d)') + Cardinality(Pending(d)') + eventq'[d]
         + Looking(d)' + Relayed(d)' = IF mb'[d] = None THEN 0 ELSE 1
  <2>1. /\ Callers(d)' = Callers(d) /\ Looking(d)' = Looking(d)
        /\ mb' = mb /\ eventq' = eventq
    BY <1>1, <1>3
  <2> QED
    BY <1>5, <1>6, <1>9, <2>1
<1>11. \A e \in Cores \ {d} :
         /\ mb'[e] = mb[e] /\ eventq'[e] = eventq[e]
         /\ Callers(e)' = Callers(e) /\ Pending(e)' = Pending(e)
         /\ Looking(e)' = Looking(e) /\ Relayed(e)' = Relayed(e)
  BY <1>1, <1>3, <1>4, <1>8
<1> QED
  BY <1>10, <1>11, TokensMove

\* The calls that move no token.
LEMMA OtherTokens ==
  ASSUME TypeOK, OneTokenPerMessage,
         \/ \E c \in Cores : \/ AppLocks(c) \/ Deliver(c) \/ Replied(c)
                             \/ \E d \in Cores : Call(c, d)
         \/ Forward \/ HubLocks \/ UNCHANGED vars
  PROVE  OneTokenPerMessage'
<1>0. /\ srvAt \in [Cores -> SrvPlaces] /\ appAt \in [Cores -> AppPlaces]
      /\ appMsg \in [Cores -> Message] /\ Hub \in Cores
  BY MailboxAssumption DEF MailboxAssumption, TypeOK
<1> SUFFICES ASSUME mb' = mb, eventq' = eventq, sgi' = sgi,
                    \A c \in Cores : Callers(c)' = Callers(c) /\ Looking(c)' = Looking(c)
                                                              /\ Relayed(c)' = Relayed(c)
             PROVE  OneTokenPerMessage'
  <2>1. mb' = mb /\ eventq' = eventq /\ sgi' = sgi
    BY DEF Call, AppLocks, Deliver, Replied, Forward, HubLocks, vars
  <2>2. ASSUME NEW c \in Cores, AppLocks(c) \/ \E d \in Cores : Call(c, d)
        PROVE  \A e \in Cores : Callers(e)' = Callers(e) /\ Looking(e)' = Looking(e)
                                                         /\ Relayed(e)' = Relayed(e)
    <3>1. /\ UNCHANGED <<srvAt, srvMsg>> /\ appAt[c] # "signal" /\ appAt'[c] # "signal"
          /\ \A a \in Cores \ {c} : appAt'[a] = appAt[a] /\ appMsg'[a] = appMsg[a]
      BY <1>0, <2>2 DEF Call, AppLocks, AppGoto, srvVars
    <3>2. \A a \in Cores \ {c} : Door(a)' = Door(a)
      BY <3>1 DEF Door
    <3> QED
      BY <3>1, <3>2 DEF Callers, Looking, Relayed
  <2>3. ASSUME NEW c \in Cores, \/ Deliver(c) \/ Replied(c)
                                \/ c = Hub /\ (Forward \/ HubLocks)
        PROVE  \A e \in Cores : Callers(e)' = Callers(e) /\ Looking(e)' = Looking(e)
                                                         /\ Relayed(e)' = Relayed(e)
    <3>1. /\ UNCHANGED <<appAt, appMsg, srvMsg>>
          /\ srvAt[c] \notin {"try", "take", "signal"} /\ srvAt'[c] \notin {"try", "take", "signal"}
          /\ \A e \in Cores \ {c} : srvAt'[e] = srvAt[e]
      BY <1>0, <2>3 DEF Deliver, Replied, Forward, HubLocks, SrvGoto, appVars
    <3>2. \A a \in Cores : Door(a)' = Door(a)
      BY <3>1 DEF Door
    <3> QED
      BY <1>0, <3>1, <3>2 DEF Callers, Looking, Relayed
  <2>4. CASE UNCHANGED vars
    BY <2>4 DEF vars, appVars, srvVars, Callers, Looking, Relayed, Door
  <2> QED
    BY <1>0, <2>1, <2>2, <2>3, <2>4
<1>1. \A c \in Cores : Pending(c)' = Pending(c)
  BY DEF Pending
<1> QED
  BY <1>1, TokensStay DEF None

LEMMA TokensStep ==
  TypeOK /\ AppsSend /\ MailRouted /\ OneTokenPerMessage /\ [Next]_vars => OneTokenPerMessage'
BY AppPostsTokens, AppSignalsTokens, InterruptTokens, AwaitTokens, TakeTokens,
   HubPostsTokens, HubSignalsTokens, OtherTokens DEF Next, Forwarding, Sending, Serving

LEMMA TokensInit == Init => OneTokenPerMessage
<1> SUFFICES ASSUME Init, NEW c \in Cores PROVE Tokens(c) = IF mb[c] = None THEN 0 ELSE 1
  BY DEF OneTokenPerMessage
<1>0. Hub \in Cores
  BY MailboxAssumption DEF MailboxAssumption
<1>1. Callers(c) = {} /\ Pending(c) = {}
  BY DEF Init, Callers, Pending
<1>2. eventq[c] = 0 /\ Looking(c) = 0 /\ Relayed(c) = 0 /\ mb[c] = None
  BY <1>0 DEF Init, Looking, Relayed
<1> QED
  BY <1>1, <1>2, TokensAre, FS_EmptySet

\* What is on its way is well addressed, and announced exactly once.
MInv == TypeOK /\ AppsSend /\ MailRouted /\ OneTokenPerMessage

THEOREM MailInvariance == Spec => []MInv
<1>1. Init => MInv
  BY TypeInit, TokensInit DEF Init, MInv, AppsSend, MailRouted
<1>2. MInv /\ [Next]_vars => MInv'
  BY TypeStep, RoutedStep, TokensStep DEF MInv
<1> QED
  BY <1>1, <1>2, PTL DEF Spec

\* A message in a mailbox has exactly one look of its server coming, through
\* a signal, an interrupt, a recorded event or the server itself, and an EMPTY
\* mailbox none: no wake-up is lost and event_q holds at most one.
THEOREM OneLookPerMessage == Spec => []OneTokenPerMessage
<1>1. MInv => OneTokenPerMessage
  BY DEF MInv
<1> QED
  BY <1>1, MailInvariance, PTL

-----------------------------------------------------------------------------
(* Order.                                                                  *)

\* The hub's server has a message in its hands that it passes on.
Relaying == srvAt[Hub] \in {"route", "lock", "post"}

Carries(m, s, d, n) == m # None /\ m.from = s /\ m.to = d /\ m.n = n

\* Message n of s to d is at place k of its way: next to be sent, in the hub's
\* mailbox, in the hub's hands, in the mailbox of d, in the hands of the
\* server of d, or the last one delivered.
At(k, s, d, n) ==
  \/ k = 0 /\ n = posted[s] + 1
  \/ k = 1 /\ d # Hub /\ Carries(mb[Hub], s, d, n)
  \/ k = 2 /\ d # Hub /\ Relaying /\ Carries(srvMsg[Hub], s, d, n)
  \/ k = 3 /\ Carries(mb[d], s, d, n)
  \/ k = 4 /\ Delivering(d) /\ Carries(srvMsg[d], s, d, n)
  \/ k = 5 /\ n = handed[d][s]

Places == 0 .. 5

\* What is further on its way was sent earlier.
Behind(s, d) ==
  \A j \in Places : \A k \in Places : \A m \in Nat : \A n \in Nat :
    j < k /\ At(j, s, d, m) /\ At(k, s, d, n) => n < m

InOrder == \A s \in Cores : \A d \in Cores : Behind(s, d)

\* Messages stay where they are or disappear, and the next number may grow.
LEMMA NoMove ==
  ASSUME NEW s \in Cores, NEW d \in Cores, Behind(s, d),
         \A k \in Places : \A n \in Nat :
           At(k, s, d, n)' => \/ At(k, s, d, n)
                              \/ k = 0 /\ \E m \in Nat : m <= n /\ At(k, s, d, m)
  PROVE  Behind(s, d)'
<1> SUFFICES ASSUME NEW j \in Places, NEW k \in Places, NEW m \in Nat, NEW n \in Nat,
                    j < k, At(j, s, d, m)', At(k, s, d, n)'
             PROVE  n < m
  BY DEF Behind
<1>1. At(k, s, d, n)
  BY DEF Places
<1>2. PICK o \in Nat : o <= m /\ At(j, s, d, o)
  OBVIOUS
<1>3. n < o
  BY <1>1, <1>2 DEF Behind
<1> QED
  BY <1>2, <1>3

\* Message x goes on from place i to place l, with nothing left before l that
\* is not newer; a message that is posted makes the next number the next one.
LEMMA Move ==
  ASSUME NEW s \in Cores, NEW d \in Cores, Behind(s, d),
         NEW i \in Places, NEW l \in Places, i < l, NEW x \in Nat, At(i, s, d, x),
         \A k \in Places : \A n \in Nat :
           At(k, s, d, n)' => \/ At(k, s, d, n)
                              \/ k = l /\ n = x
                              \/ k = 0 /\ i = 0 /\ n = x + 1,
         \A k \in Places : \A n \in Nat : i <= k /\ k < l /\ At(k, s, d, n)' => n > x,
         i = 0 => \A n \in Nat : At(0, s, d, n)' => n = x + 1
  PROVE  Behind(s, d)'
<1> SUFFICES ASSUME NEW j \in Places, NEW k \in Places, NEW m \in Nat, NEW n \in Nat,
                    j < k, At(j, s, d, m)', At(k, s, d, n)'
             PROVE  n < m
  BY DEF Behind
<1>1. \/ At(j, s, d, m)
      \/ j = l /\ m = x
      \/ j = 0 /\ i = 0 /\ m = x + 1
  OBVIOUS
<1>2. \/ At(k, s, d, n)
      \/ k = l /\ n = x
  BY DEF Places
<1>3. CASE At(j, s, d, m) /\ At(k, s, d, n)
  BY <1>3 DEF Behind
<1>4. CASE j = l /\ m = x /\ At(k, s, d, n)
  <2>1. i < k
    BY <1>4 DEF Places
  <2> QED
    BY <1>4, <2>1 DEF Behind
<1>5. CASE At(j, s, d, m) /\ k = l /\ n = x
  <2>1. CASE j < i
    BY <1>5, <2>1 DEF Behind
  <2>2. CASE i <= j
    BY <1>5, <2>2
  <2> QED
    BY <2>1, <2>2 DEF Places
<1>6. CASE j = 0 /\ i = 0 /\ m = x + 1
  <2>1. CASE At(k, s, d, n)
    <3>1. n < x
      BY <1>6, <2>1 DEF Behind
    <3> QED
      BY <1>6, <3>1
  <2>2. CASE k = l /\ n = x
    BY <1>6, <2>2
  <2> QED
    BY <1>2, <2>1, <2>2
<1>7. CASE j = l /\ m = x /\ k = l
  BY <1>7 DEF Places
<1> QED
  BY <1>1, <1>2, <1>3, <1>4, <1>5, <1>6, <1>7

LEMMA PlacesAre == \A k \in Places : k = 0 \/ k = 1 \/ k = 2 \/ k = 3 \/ k = 4 \/ k = 5
BY DEF Places

\* A step that posts, takes and delivers nothing.
LEMMA OrderQuiet ==
  ASSUME InOrder, UNCHANGED <<mb, posted, handed>>,
         \A c \in Cores : /\ srvAt'[c] = "route" => srvAt[c] = "route"
                          /\ srvAt'[c] \in {"route", "lock", "post"} =>
                               /\ srvAt[c] \in {"route", "lock", "post"}
                               /\ srvMsg'[c] = srvMsg[c]
  PROVE  InOrder'
<1> SUFFICES ASSUME NEW s \in Cores, NEW d \in Cores PROVE Behind(s, d)'
  BY DEF InOrder
<1>0. Hub \in Cores
  BY MailboxAssumption DEF MailboxAssumption
<1>1. \A k \in Places : \A n \in Nat : At(k, s, d, n)' => At(k, s, d, n)
  BY <1>0 DEF At, Carries, Relaying, Delivering, None
<1> QED
  BY <1>1, NoMove DEF InOrder

\* An app posts its next message.
LEMMA AppPostsOrder ==
  ASSUME MInv, InOrder, NEW c \in Cores, AppPosts(c)
  PROVE  InOrder'
<1>a. PICK door \in Cores : door = Door(c)
  BY DoorType DEF MInv
<1>b. PICK to \in Cores : to = appMsg[c].to
  BY DoorType DEF MInv
<1>0. /\ mb \in [Cores -> Message] /\ posted \in [Cores -> Nat] /\ appMsg[c] \in Message
      /\ Hub \in Cores
  BY MailboxAssumption DEF MailboxAssumption, MInv, TypeOK
<1>1. /\ appAt[c] = "post" /\ UNCHANGED <<srvAt, srvMsg, handed>>
      /\ \A e \in Cores : e # c => posted'[e] = posted[e]
      /\ \A e \in Cores : e # door => mb'[e] = mb[e]
      /\ \/ mb'[door] = appMsg[c] /\ posted'[c] = posted[c] + 1
         \/ mb'[door] = mb[door] /\ posted'[c] = posted[c]
  BY <1>a, <1>0 DEF AppPosts, srvVars
<1>2. appMsg[c].from = c /\ appMsg[c].n = posted[c] + 1
  BY <1>1 DEF MInv, AppsSend
<1>3. door = IF c = Hub \/ to = Hub THEN to ELSE Hub
  BY <1>a, <1>b DEF Door, Route
<1>4. PICK x \in Nat : x = posted[c] + 1
  BY <1>0
<1>5. CASE mb'[door] = mb[door] /\ posted'[c] = posted[c]
  <2>1. \A e \in Cores : mb'[e] = mb[e] /\ posted'[e] = posted[e]
    BY <1>1, <1>5
  <2> SUFFICES ASSUME NEW s \in Cores, NEW d \in Cores PROVE Behind(s, d)'
    BY DEF InOrder
  <2>2. \A k \in Places : \A n \in Nat : At(k, s, d, n)' => At(k, s, d, n)
    BY <1>0, <1>1, <2>1 DEF At, Carries, Relaying, Delivering, None
  <2> QED
    BY <2>2, NoMove DEF InOrder
<1>6. CASE mb'[door] = appMsg[c] /\ posted'[c] = posted[c] + 1
  <2> SUFFICES ASSUME NEW s \in Cores, NEW d \in Cores PROVE Behind(s, d)'
    BY DEF InOrder
  <2>1. Behind(s, d)
    BY DEF InOrder
  <2>2. \A n \in Nat : /\ At(2, s, d, n)' => At(2, s, d, n)
                       /\ At(4, s, d, n)' => At(4, s, d, n)
                       /\ At(5, s, d, n)' => At(5, s, d, n)
    BY <1>1 DEF At, Carries, Relaying, Delivering, None
  <2>3. \A n \in Nat : /\ At(1, s, d, n)' => At(1, s, d, n) \/ (d # Hub /\ door = Hub /\ s = c /\ d = to /\ n = x)
                       /\ At(3, s, d, n)' => At(3, s, d, n) \/ (door = d /\ s = c /\ d = to /\ n = x)
    BY <1>b, <1>0, <1>1, <1>2, <1>4, <1>6 DEF At, Carries, None
  <2>4. \A n \in Nat : At(0, s, d, n)' => IF s = c THEN n = x + 1 ELSE At(0, s, d, n)
    BY <1>0, <1>1, <1>4, <1>6 DEF At
  <2>5. s = c => At(0, s, d, x)
    BY <1>4 DEF At
  <2>6. CASE s = c /\ d = to
    <3>1. PICK l \in Places : l = IF door = d THEN 3 ELSE 1
      BY DEF Places
    <3>2. 0 \in Places /\ 0 < l
      BY <3>1 DEF Places
    <3>3. \A k \in Places : \A n \in Nat :
            At(k, s, d, n)' => \/ At(k, s, d, n)
                               \/ k = l /\ n = x
                               \/ k = 0 /\ n = x + 1
      <4> SUFFICES ASSUME NEW k \in Places, NEW n \in Nat, At(k, s, d, n)'
                   PROVE  \/ At(k, s, d, n)
                          \/ k = l /\ n = x
                          \/ k = 0 /\ n = x + 1
        OBVIOUS
      <4> QED
        BY <2>2, <2>3, <2>4, <2>6, <3>1, PlacesAre
    <3>4. c = Hub => \A n \in Nat : ~ At(1, s, d, n) /\ ~ At(2, s, d, n)
      BY <1>0, <2>6 DEF At, Carries, Relaying, MInv, MailRouted
    <3>5. \A k \in Places : \A n \in Nat : 0 <= k /\ k < l /\ At(k, s, d, n)' => n > x
      <4> SUFFICES ASSUME NEW k \in Places, NEW n \in Nat, k < l, At(k, s, d, n)' PROVE n > x
        OBVIOUS
      <4>1. CASE k = 0
        BY <2>4, <2>6, <4>1
      <4>2. CASE k # 0
        <5>1. l = 3 /\ (k = 1 \/ k = 2) /\ door = d
          BY <3>1, <4>2, PlacesAre
        <5>2. d # Hub
          BY <5>1 DEF At
        <5>3. c = Hub
          BY <1>3, <2>6, <5>1, <5>2
        <5>4. ~ At(k, s, d, n)
          BY <3>4, <5>1, <5>3
        <5> QED
          BY <2>2, <2>3, <5>1, <5>2, <5>4
      <4> QED
        BY <4>1, <4>2
    <3>6. \A n \in Nat : At(0, s, d, n)' => n = x + 1
      BY <2>4, <2>6
    <3>7. At(0, s, d, x)
      BY <2>5, <2>6
    <3> QED
      BY <2>1, <3>2, <3>3, <3>5, <3>6, <3>7, Move
  <2>7. CASE ~ (s = c /\ d = to)
    <3>1. ASSUME NEW k \in Places, NEW n \in Nat, At(k, s, d, n)'
          PROVE  \/ At(k, s, d, n)
                 \/ k = 0 /\ \E m \in Nat : m <= n /\ At(k, s, d, m)
      <4>1. CASE k = 0 /\ s = c
        <5>1. n = x + 1 /\ At(0, s, d, x)
          BY <2>4, <2>5, <3>1, <4>1
        <5> QED
          BY <4>1, <5>1
      <4>2. CASE k = 0 /\ s # c
        BY <2>4, <3>1, <4>2
      <4>3. CASE k # 0
        BY <2>2, <2>3, <2>7, <3>1, <4>3, PlacesAre
      <4> QED
        BY <4>1, <4>2, <4>3
    <3> QED
      BY <2>1, <3>1, NoMove
  <2> QED
    BY <2>6, <2>7
<1> QED
  BY <1>1, <1>5, <1>6

\* The messages of s to d stay where they are or disappear, but for message x
\* of s0 to d0, which is then at place l.
Arrives(s, d, s0, d0, l, x) ==
  \A k \in Places : \A n \in Nat :
    At(k, s, d, n)' => At(k, s, d, n) \/ (s = s0 /\ d = d0 /\ k = l /\ n = x)

\* A message goes on by one place.
LEMMA MoveOne ==
  ASSUME InOrder, NEW s0 \in Cores, NEW d0 \in Cores, NEW x \in Nat,
         NEW i \in Places, NEW l \in Places, i # 0, l = i + 1, At(i, s0, d0, x),
         \A n \in Nat : ~ At(i, s0, d0, n)',
         \A s \in Cores : \A d \in Cores : Arrives(s, d, s0, d0, l, x)
  PROVE  InOrder'
<1> SUFFICES ASSUME NEW s \in Cores, NEW d \in Cores PROVE Behind(s, d)'
  BY DEF InOrder
<1>1. Behind(s, d) /\ Arrives(s, d, s0, d0, l, x)
  BY DEF InOrder
<1>2. CASE s = s0 /\ d = d0
  <2>1. At(i, s, d, x)
    BY <1>2
  <2>2. \A k \in Places : \A n \in Nat :
          At(k, s, d, n)' => \/ At(k, s, d, n)
                             \/ k = l /\ n = x
                             \/ k = 0 /\ i = 0 /\ n = x + 1
    BY <1>1 DEF Arrives
  <2>3. ASSUME NEW k \in Places, NEW n \in Nat, i <= k, k < l, At(k, s, d, n)' PROVE n > x
    <3>1. k = i
      BY <2>3 DEF Places
    <3>2. ~ At(i, s, d, n)'
      BY <1>2
    <3> QED
      BY <2>3, <3>1, <3>2
  <2>4. i < l
    BY DEF Places
  <2> QED
    BY <1>1, <2>1, <2>2, <2>3, <2>4, Move
<1>3. CASE ~ (s = s0 /\ d = d0)
  <2>1. \A k \in Places : \A n \in Nat : At(k, s, d, n)' => At(k, s, d, n)
    BY <1>1, <1>3 DEF Arrives
  <2> QED
    BY <1>1, <2>1, NoMove
<1> QED
  BY <1>2, <1>3

\* The server takes a message: for its own core, or, the hub's, to pass it on.
LEMMA TakeOrder ==
  ASSUME MInv, InOrder, NEW c \in Cores, Take(c)
  PROVE  InOrder'
<1>0. /\ mb \in [Cores -> Message] /\ srvAt \in [Cores -> SrvPlaces]
      /\ srvMsg \in [Cores -> Message] /\ Hub \in Cores
  BY MailboxAssumption DEF MailboxAssumption, MInv, TypeOK
<1>1. mb[c] # None /\ (c # Hub => mb[c].to = c)
  BY TakeTokens DEF MInv, MailRouted
<1>a. PICK s0 \in Cores, d0 \in Cores, x \in Nat : mb[c].from = s0 /\ mb[c].to = d0 /\ mb[c].n = x
  BY <1>0 DEF Message
<1>2. /\ UNCHANGED <<posted, handed>>
      /\ mb'[c] = None /\ srvMsg'[c] = mb[c] /\ srvAt'[c] = "route"
      /\ \A e \in Cores : e # c => /\ mb'[e] = mb[e] /\ srvMsg'[e] = srvMsg[e]
                                   /\ srvAt'[e] = srvAt[e]
  BY <1>0, <1>1 DEF Take, SrvGoto, appVars
<1>3. PICK i \in Places : i = IF d0 = c THEN 3 ELSE 1
  BY DEF Places
<1>4. PICK l \in Places : l = i + 1
  BY <1>3 DEF Places
<1>5. At(i, s0, d0, x)
  BY <1>0, <1>1, <1>a, <1>3 DEF At, Carries
<1>6. \A n \in Nat : ~ At(i, s0, d0, n)'
  BY <1>0, <1>1, <1>a, <1>2, <1>3 DEF At, Carries, None
<1>7. ASSUME NEW s \in Cores, NEW d \in Cores PROVE Arrives(s, d, s0, d0, l, x)
  <2> SUFFICES ASSUME NEW n \in Nat
               PROVE  /\ At(0, s, d, n)' => At(0, s, d, n)
                      /\ At(1, s, d, n)' => At(1, s, d, n)
                      /\ At(2, s, d, n)' => At(2, s, d, n) \/ (s = s0 /\ d = d0 /\ l = 2 /\ n = x)
                      /\ At(3, s, d, n)' => At(3, s, d, n)
                      /\ At(4, s, d, n)' => At(4, s, d, n) \/ (s = s0 /\ d = d0 /\ l = 4 /\ n = x)
                      /\ At(5, s, d, n)' => At(5, s, d, n)
    BY PlacesAre DEF Arrives
  <2>1. At(0, s, d, n)' => At(0, s, d, n)
    BY <1>2 DEF At
  <2>2. At(1, s, d, n)' => At(1, s, d, n)
    BY <1>0, <1>2 DEF At, Carries, None
  <2>3. At(2, s, d, n)' => At(2, s, d, n) \/ (s = s0 /\ d = d0 /\ l = 2 /\ n = x)
    BY <1>0, <1>1, <1>a, <1>2, <1>3, <1>4 DEF At, Carries, Relaying, None
  <2>4. At(3, s, d, n)' => At(3, s, d, n)
    BY <1>0, <1>2 DEF At, Carries, None
  <2>5. At(4, s, d, n)' => At(4, s, d, n) \/ (s = s0 /\ d = d0 /\ l = 4 /\ n = x)
    BY <1>0, <1>1, <1>a, <1>2, <1>3, <1>4 DEF At, Carries, Delivering, None
  <2>6. At(5, s, d, n)' => At(5, s, d, n)
    BY <1>2 DEF At
  <2> QED
    BY <2>1, <2>2, <2>3, <2>4, <2>5, <2>6
<1>8. i # 0
  BY <1>3
<1> QED
  BY <1>4, <1>5, <1>6, <1>7, <1>8, MoveOne

\* A message for this core is given to its task.
LEMMA DeliverOrder ==
  ASSUME MInv, InOrder, NEW c \in Cores, Deliver(c)
  PROVE  InOrder'
<1>0. /\ srvAt \in [Cores -> SrvPlaces] /\ srvMsg \in [Cores -> Message] /\ Hub \in Cores
      /\ handed \in [Cores -> [Cores -> Nat]]
  BY MailboxAssumption DEF MailboxAssumption, MInv, TypeOK
<1>1. srvAt[c] = "route" /\ srvMsg[c].to = c /\ Genuine(srvMsg[c])
  BY DEF Deliver, MInv, MailRouted
<1>a. PICK s0 \in Cores, x \in Nat : srvMsg[c].from = s0 /\ srvMsg[c].n = x
  BY <1>0 DEF Message
<1>2. /\ UNCHANGED <<posted, mb, srvMsg>> /\ srvAt'[c] \in {"sending", "top"}
      /\ \A e \in Cores : e # c => srvAt'[e] = srvAt[e]
      /\ \A e, t \in Cores : handed'[e][t] = IF e = c /\ t = s0 THEN x ELSE handed[e][t]
  BY <1>0, <1>a DEF Deliver, SrvGoto, appVars
<1>3. srvMsg[c] # None
  BY <1>0, <1>1, GenuineStays DEF Genuine, MInv, None, TypeOK
<1>4. At(4, s0, c, x)
  BY <1>1, <1>a, <1>3 DEF At, Carries, Delivering
<1>5. \A n \in Nat : ~ At(4, s0, c, n)'
  BY <1>2 DEF At, Delivering
<1>6. ASSUME NEW s \in Cores, NEW d \in Cores PROVE Arrives(s, d, s0, c, 5, x)
  <2> SUFFICES ASSUME NEW n \in Nat
               PROVE  /\ At(0, s, d, n)' => At(0, s, d, n)
                      /\ At(1, s, d, n)' => At(1, s, d, n)
                      /\ At(2, s, d, n)' => At(2, s, d, n)
                      /\ At(3, s, d, n)' => At(3, s, d, n)
                      /\ At(4, s, d, n)' => At(4, s, d, n)
                      /\ At(5, s, d, n)' => At(5, s, d, n) \/ (s = s0 /\ d = c /\ n = x)
    BY PlacesAre DEF Arrives
  <2>1. /\ At(0, s, d, n)' => At(0, s, d, n)
        /\ At(1, s, d, n)' => At(1, s, d, n)
        /\ At(3, s, d, n)' => At(3, s, d, n)
    BY <1>2 DEF At, Carries, None
  <2>2. At(2, s, d, n)' => At(2, s, d, n)
    BY <1>0, <1>2 DEF At, Carries, Relaying, None
  <2>3. At(4, s, d, n)' => At(4, s, d, n)
    BY <1>0, <1>2 DEF At, Carries, Delivering, None
  <2>4. At(5, s, d, n)' => At(5, s, d, n) \/ (s = s0 /\ d = c /\ n = x)
    BY <1>2 DEF At
  <2> QED
    BY <2>1, <2>2, <2>3, <2>4
<1>7. 4 \in Places /\ 5 \in Places /\ 4 # 0 /\ 5 = 4 + 1
  BY DEF Places
<1> QED
  BY <1>4, <1>5, <1>6, <1>7, MoveOne

\* The hub passes a message on.
LEMMA HubPostsOrder ==
  ASSUME MInv, InOrder, HubPosts
  PROVE  InOrder'
<1>0. /\ mb \in [Cores -> Message] /\ srvAt \in [Cores -> SrvPlaces]
      /\ srvMsg \in [Cores -> Message] /\ Hub \in Cores
  BY MailboxAssumption DEF MailboxAssumption, MInv, TypeOK
<1>a. PICK s0 \in Cores, d0 \in Cores, x \in Nat :
        srvMsg[Hub].from = s0 /\ srvMsg[Hub].to = d0 /\ srvMsg[Hub].n = x
  BY <1>0 DEF Message
<1>1. srvAt[Hub] = "post" /\ d0 # Hub /\ Genuine(srvMsg[Hub])
  BY <1>0, <1>a DEF HubPosts, MInv, MailRouted
<1>2. /\ UNCHANGED <<posted, srvMsg, handed>> /\ srvAt'[Hub] \in {"signal", "top"}
      /\ \A e \in Cores : /\ e # Hub => srvAt'[e] = srvAt[e]
                          /\ e # d0 => mb'[e] = mb[e]
      /\ mb'[d0] = mb[d0] \/ mb'[d0] = srvMsg[Hub]
  BY <1>0, <1>a DEF HubPosts, SrvGoto, appVars
<1>3. srvMsg[Hub] # None
  BY <1>0, <1>1, GenuineStays DEF Genuine, MInv, None, TypeOK
<1>4. At(2, s0, d0, x)
  BY <1>1, <1>a, <1>3 DEF At, Carries, Relaying
<1>5. \A n \in Nat : ~ At(2, s0, d0, n)'
  BY <1>2 DEF At, Relaying
<1>6. ASSUME NEW s \in Cores, NEW d \in Cores PROVE Arrives(s, d, s0, d0, 3, x)
  <2> SUFFICES ASSUME NEW n \in Nat
               PROVE  /\ At(0, s, d, n)' => At(0, s, d, n)
                      /\ At(1, s, d, n)' => At(1, s, d, n)
                      /\ At(2, s, d, n)' => At(2, s, d, n)
                      /\ At(3, s, d, n)' => At(3, s, d, n) \/ (s = s0 /\ d = d0 /\ n = x)
                      /\ At(4, s, d, n)' => At(4, s, d, n)
                      /\ At(5, s, d, n)' => At(5, s, d, n)
    BY PlacesAre DEF Arrives
  <2>1. /\ At(0, s, d, n)' => At(0, s, d, n)
        /\ At(5, s, d, n)' => At(5, s, d, n)
    BY <1>2 DEF At
  <2>2. At(1, s, d, n)' => At(1, s, d, n)
    BY <1>0, <1>1, <1>2 DEF At, Carries, None
  <2>3. At(2, s, d, n)' => At(2, s, d, n)
    BY <1>2 DEF At, Relaying
  <2>4. At(3, s, d, n)' => At(3, s, d, n) \/ (s = s0 /\ d = d0 /\ n = x)
    BY <1>0, <1>a, <1>2 DEF At, Carries, None
  <2>5. At(4, s, d, n)' => At(4, s, d, n)
    BY <1>0, <1>2 DEF At, Carries, Delivering, None
  <2> QED
    BY <2>1, <2>2, <2>3, <2>4, <2>5
<1>7. 2 \in Places /\ 3 \in Places /\ 2 # 0 /\ 3 = 2 + 1
  BY DEF Places
<1> QED
  BY <1>4, <1>5, <1>6, <1>7, MoveOne

\* No step overtakes.
LEMMA OrderStep == MInv /\ InOrder /\ [Next]_vars => InOrder'
<1> SUFFICES ASSUME MInv, InOrder, [Next]_vars PROVE InOrder'
  OBVIOUS
<1>0. srvAt \in [Cores -> SrvPlaces] /\ Hub \in Cores
  BY MailboxAssumption DEF MailboxAssumption, MInv, TypeOK
<1>1. ASSUME NEW c \in Cores, \/ AppLocks(c) \/ AppSignals(c)
                              \/ \E d \in Cores : Call(c, d)
      PROVE  InOrder'
  BY <1>1, OrderQuiet DEF AppLocks, AppSignals, Call, srvVars
<1>2. ASSUME NEW c \in Cores, Interrupt(c) \/ Await(c) \/ SrvLocks(c) \/ Replied(c)
      PROVE  InOrder'
  <2>1. /\ UNCHANGED <<mb, posted, handed, srvMsg>>
        /\ \A e \in Cores : srvAt'[e] = srvAt[e] \/ srvAt'[e] \notin {"route", "lock", "post"}
    BY <1>0, <1>2 DEF Interrupt, Await, SrvLocks, Replied, SrvGoto, appVars
  <2> QED
    BY <2>1, OrderQuiet
<1>3. CASE Forward \/ HubLocks \/ HubSignals
  <2>1. /\ UNCHANGED <<mb, posted, handed, srvMsg>>
        /\ \A e \in Cores : \/ srvAt'[e] = srvAt[e]
                            \/ srvAt'[e] \notin {"route", "lock", "post"}
                            \/ srvAt'[e] \in {"lock", "post"} /\ srvAt[e] \in {"route", "lock"}
    BY <1>0, <1>3 DEF Forward, HubLocks, HubSignals, SrvGoto, appVars
  <2> QED
    BY <2>1, OrderQuiet
<1>4. CASE UNCHANGED vars
  BY <1>4, OrderQuiet DEF vars, appVars, srvVars
<1> QED
  BY <1>1, <1>2, <1>3, <1>4, AppPostsOrder, TakeOrder, DeliverOrder, HubPostsOrder
  DEF Next, Forwarding, Sending, Serving

LEMMA OrderInit == Init => InOrder
<1> SUFFICES ASSUME Init, NEW s \in Cores, NEW d \in Cores PROVE Behind(s, d)
  BY DEF InOrder
<1>0. Hub \in Cores
  BY MailboxAssumption DEF MailboxAssumption
<1>1. \A n \in Nat : /\ At(0, s, d, n) => n = 1
                     /\ ~ At(1, s, d, n) /\ ~ At(2, s, d, n) /\ ~ At(3, s, d, n) /\ ~ At(4, s, d, n)
                     /\ At(5, s, d, n) => n = 0
  BY <1>0 DEF Init, At, Carries, Relaying, Delivering
<1> QED
  BY <1>1, PlacesAre DEF Behind

\* What a server is about to deliver is newer than what it delivered.
LEMMA OrderSuffices == MInv /\ InOrder => DeliveredInOrder
<1> SUFFICES ASSUME MInv, InOrder, NEW d \in Cores, Delivering(d)
             PROVE  srvMsg[d].to = d /\ srvMsg[d].n > handed[d][srvMsg[d].from]
  BY DEF DeliveredInOrder
<1>1. /\ srvMsg[d] \in Message /\ handed \in [Cores -> [Cores -> Nat]]
  BY DEF MInv, TypeOK
<1>2. srvMsg[d].to = d /\ Genuine(srvMsg[d])
  BY DEF MInv, MailRouted, Delivering
<1>a. PICK s \in Cores, x \in Nat : srvMsg[d].from = s /\ srvMsg[d].n = x
  BY <1>1 DEF Message
<1>3. srvMsg[d] # None
  BY <1>1, <1>2 DEF Genuine, MInv, None, TypeOK
<1>4. At(4, s, d, x)
  BY <1>2, <1>a, <1>3 DEF At, Carries
<1>5. handed[d][s] \in Nat /\ At(5, s, d, handed[d][s])
  BY <1>1 DEF At
<1>6. Behind(s, d) /\ 4 \in Places /\ 5 \in Places /\ 4 < 5
  BY DEF InOrder, Places
<1>7. handed[d][s] < x
  BY <1>4, <1>5, <1>6 DEF Behind
<1> QED
  BY <1>2, <1>7, <1>a

\* A server delivers only what is for its core, and what it delivers from one
\* source core it delivers in the order of sending and at most once, whichever
\* way the messages went.
THEOREM InSendingOrder == Spec => []DeliveredInOrder
<1>1. Spec => []InOrder
  BY MailInvariance, OrderInit, OrderStep, PTL DEF Spec
<1> QED
  BY <1>1, MailInvariance, OrderSuffices, PTL

=============================================================================
