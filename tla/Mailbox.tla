------------------------------ MODULE Mailbox ------------------------------
(***************************************************************************)
(* Messages between cores: one mailbox per core, filled by CoreSend and by *)
(* the hub's forwarding, announced by an inter-processor interrupt, and    *)
(* emptied by the server of the core (interprocess_hub on core 0,          *)
(* interprocess_gateway on the others), which hands the message to its     *)
(* destination with a local Send.                                          *)
(*                                                                         *)
(* Per core, app is the task that calls CoreSend and srv the server; both  *)
(* run with interrupts unmasked, and either may be preempted between any   *)
(* two steps, also inside a mailbox's critical section.  The spinlock is   *)
(* the atomic lock that Spinlock implements.                               *)
(*                                                                         *)
(* Abstractions: payload bytes and lengths are left out, a message being   *)
(* named by its source core, destination core and number; a kernel entry   *)
(* (AwaitEvent, Send, the interrupt handler) is one step, as in Kernel.    *)
(***************************************************************************)
EXTENDS Naturals, FiniteSets

CONSTANTS
  Cores,      \* core ids
  Hub,        \* SMP_HUB_CORE
  LowApps,    \* cores whose app has a lower priority than the server
  MaxPosts    \* bound: messages accepted from each source core

ASSUME MailboxAssumption ==
  /\ Cores \subseteq Nat /\ Hub \in Cores /\ IsFiniteSet(Cores)
  /\ LowApps \subseteq Cores /\ MaxPosts \in [Cores -> Nat]

Message == [from : Cores, to : Cores, n : Nat]

None == [from |-> Hub, to |-> Hub, n |-> 0]   \* never sent: see Call

VARIABLES
  mb,        \* each mailbox: the message of a READY slot, None when EMPTY
  holder,    \* who holds each mailbox's lock: {} or {<<"app" or "srv", core>>}
  sgi,       \* pending interrupts, as <<source core, target core>>
  eventq,    \* eventq_len of each core's mailbox event
  appAt,     \* where each app is in CoreSend
  appMsg,    \* the message it sends
  srvAt,     \* where each server is in its loop
  srvMsg,    \* the message it took
  posted,    \* messages each core has had accepted
  handed     \* history: handed[d][c] is the last message of core c given to a task of d

appVars == <<appAt, appMsg, posted>>
srvVars == <<srvAt, srvMsg, handed>>
vars    == <<mb, holder, sgi, eventq, appVars, srvVars>>

App(c) == <<"app", c>>
Srv(c) == <<"srv", c>>

AppPlaces == {"idle", "lock", "post", "signal"}
SrvPlaces == {"top", "asleep", "try", "take", "route", "lock", "post", "signal", "sending"}

TypeOK ==
  /\ mb \in [Cores -> Message]
  /\ holder \in [Cores -> SUBSET ({"app", "srv"} \X Cores)]
  /\ sgi \subseteq Cores \X Cores
  /\ eventq \in [Cores -> Nat]
  /\ appAt \in [Cores -> AppPlaces] /\ appMsg \in [Cores -> Message]
  /\ srvAt \in [Cores -> SrvPlaces] /\ srvMsg \in [Cores -> Message]
  /\ posted \in [Cores -> Nat]
  /\ handed \in [Cores -> [Cores -> Nat]]

Init ==
  /\ mb = [c \in Cores |-> None]
  /\ holder = [c \in Cores |-> {}]
  /\ sgi = {}
  /\ eventq = [c \in Cores |-> 0]
  /\ appAt = [c \in Cores |-> "idle"] /\ appMsg = [c \in Cores |-> None]
  /\ srvAt = [c \in Cores |-> "top"] /\ srvMsg = [c \in Cores |-> None]
  /\ posted = [c \in Cores |-> 0]
  /\ handed = [d \in Cores |-> [c \in Cores |-> 0]]

-----------------------------------------------------------------------------
\* mailbox_route_dest: only the hub reaches a spoke directly.
Route(c, d) == IF c = Hub \/ d = Hub THEN d ELSE Hub

\* The mailbox an app sends through.
Door(c) == Route(c, appMsg[c].to)

\* The kernel gives the core to the app unless a better task is ready.
Scheduled(c) == c \in LowApps => srvAt[c] \in {"asleep", "sending"}

AppGoto(c, place) == appAt' = [appAt EXCEPT ![c] = place]
SrvGoto(c, place) == srvAt' = [srvAt EXCEPT ![c] = place]

\* The spinlock of mailbox d.
Acquire(d, who) == holder[d] = {} /\ holder' = [holder EXCEPT ![d] = {who}]
Release(d)      == holder' = [holder EXCEPT ![d] = {}]

\* mailbox_ipi_signal from core c.
Signal(c, d) == sgi' = sgi \cup {<<c, d>>}

-----------------------------------------------------------------------------
(* CoreSend.                                                               *)

\* MailboxSend to core d.  A message routed to its own core is refused (-3).
Call(c, d) ==
  /\ appAt[c] = "idle" /\ Scheduled(c) /\ posted[c] < MaxPosts[c]
  /\ Route(c, d) # c
  /\ appMsg' = [appMsg EXCEPT ![c] = [from |-> c, to |-> d, n |-> posted[c] + 1]]
  /\ AppGoto(c, "lock")
  /\ UNCHANGED <<mb, holder, sgi, eventq, posted, srvVars>>

AppLocks(c) ==
  /\ appAt[c] = "lock" /\ Scheduled(c)
  /\ Acquire(Door(c), App(c))
  /\ AppGoto(c, "post")
  /\ UNCHANGED <<mb, sgi, eventq, appMsg, posted, srvVars>>

\* Mutant of AppPosts: the lock is not released when the mailbox is full.
AppPostsKeepsLock(c) ==
  /\ appAt[c] = "post" /\ Scheduled(c)
  /\ \/ /\ mb[Door(c)] = None
        /\ mb' = [mb EXCEPT ![Door(c)] = appMsg[c]]
        /\ posted' = [posted EXCEPT ![c] = @ + 1]
        /\ AppGoto(c, "signal")
        /\ Release(Door(c))
     \/ /\ mb[Door(c)] # None
        /\ AppGoto(c, "idle")
        /\ UNCHANGED <<mb, posted, holder>>
  /\ UNCHANGED <<sgi, eventq, appMsg, srvVars>>

\* mailbox_post inside the lock: fill an EMPTY slot and unlock, or return -1.
AppPosts(c) ==
  /\ appAt[c] = "post" /\ Scheduled(c)
  /\ Release(Door(c))
  /\ \/ /\ mb[Door(c)] = None
        /\ mb' = [mb EXCEPT ![Door(c)] = appMsg[c]]
        /\ posted' = [posted EXCEPT ![c] = @ + 1]
        /\ AppGoto(c, "signal")
     \/ /\ mb[Door(c)] # None
        /\ AppGoto(c, "idle")
        /\ UNCHANGED <<mb, posted>>
  /\ UNCHANGED <<sgi, eventq, appMsg, srvVars>>

\* The interrupt follows the unlock; CoreSend returns the length.
AppSignals(c) ==
  /\ appAt[c] = "signal" /\ Scheduled(c)
  /\ Signal(c, Door(c))
  /\ AppGoto(c, "idle")
  /\ UNCHANGED <<mb, holder, eventq, appMsg, posted, srvVars>>

-----------------------------------------------------------------------------
(* The interrupt and AwaitEvent.                                           *)

\* Mutant of Interrupt: the event is not recorded for a busy server.
InterruptForgets(c) ==
  /\ \E s \in Cores : <<s, c>> \in sgi /\ sgi' = sgi \ {<<s, c>>}
  /\ srvAt' = [srvAt EXCEPT ![c] = IF @ = "asleep" THEN "try" ELSE @]
  /\ UNCHANGED <<mb, holder, eventq, appVars, srvMsg, handed>>

\* mailbox_ipi_handle_async: wake the server, or record the event.
Interrupt(c) ==
  /\ \E s \in Cores : <<s, c>> \in sgi /\ sgi' = sgi \ {<<s, c>>}
  /\ \/ srvAt[c] = "asleep" /\ SrvGoto(c, "try") /\ UNCHANGED eventq
     \/ srvAt[c] # "asleep" /\ eventq' = [eventq EXCEPT ![c] = @ + 1] /\ UNCHANGED srvAt
  /\ UNCHANGED <<mb, holder, appVars, srvMsg, handed>>

\* Mutant of Await: eventq_len is not tested.
AwaitUntested(c) ==
  /\ srvAt[c] = "top"
  /\ SrvGoto(c, "try")
  /\ eventq' = [eventq EXCEPT ![c] = @ - 1]
  /\ UNCHANGED <<mb, holder, sgi, appVars, srvMsg, handed>>

\* The server's AwaitEvent on its mailbox interrupt.
Await(c) ==
  /\ srvAt[c] = "top"
  /\ \/ eventq[c] > 0 /\ eventq' = [eventq EXCEPT ![c] = @ - 1] /\ SrvGoto(c, "try")
     \/ eventq[c] = 0 /\ UNCHANGED eventq /\ SrvGoto(c, "asleep")
  /\ UNCHANGED <<mb, holder, sgi, appVars, srvMsg, handed>>

-----------------------------------------------------------------------------
(* The server of a core.                                                   *)

SrvLocks(c) ==
  /\ srvAt[c] = "try"
  /\ Acquire(c, Srv(c))
  /\ SrvGoto(c, "take")
  /\ UNCHANGED <<mb, sgi, eventq, appVars, srvMsg, handed>>

\* MailboxTryReceive inside the lock.  The loop starts over on an EMPTY slot.
Take(c) ==
  /\ srvAt[c] = "take"
  /\ Release(c)
  /\ mb' = [mb EXCEPT ![c] = None]
  /\ srvMsg' = [srvMsg EXCEPT ![c] = mb[c]]
  /\ SrvGoto(c, IF mb[c] = None THEN "top" ELSE "route")
  /\ UNCHANGED <<sgi, eventq, appVars, handed>>

\* A message for this core goes to its task with a local Send.  The server
\* sleeps until the reply, or goes on at once when there is no such task; a
\* gateway does not look at the destination core.
Deliver(c) ==
  /\ srvAt[c] = "route" /\ (c # Hub \/ srvMsg[c].to = Hub)
  /\ handed' = [handed EXCEPT ![c][srvMsg[c].from] = srvMsg[c].n]
  /\ SrvGoto(c, "sending") \/ SrvGoto(c, "top")
  /\ UNCHANGED <<mb, holder, sgi, eventq, appVars, srvMsg>>

\* The task replies.
Replied(c) ==
  /\ srvAt[c] = "sending"
  /\ SrvGoto(c, "top")
  /\ UNCHANGED <<mb, holder, sgi, eventq, appVars, srvMsg, handed>>

\* MailboxForward keeps the original source core, so a message from a spoke to
\* itself is refused by mailbox_post (-3), and the refusal is ignored.
Forward ==
  /\ srvAt[Hub] = "route" /\ srvMsg[Hub].to # Hub
  /\ SrvGoto(Hub, IF srvMsg[Hub].to = srvMsg[Hub].from THEN "top" ELSE "lock")
  /\ UNCHANGED <<mb, holder, sgi, eventq, appVars, srvMsg, handed>>

HubLocks ==
  /\ srvAt[Hub] = "lock"
  /\ Acquire(srvMsg[Hub].to, Srv(Hub))
  /\ SrvGoto(Hub, "post")
  /\ UNCHANGED <<mb, sgi, eventq, appVars, srvMsg, handed>>

\* mailbox_post inside the lock; a full mailbox (-1) is ignored too.
HubPosts ==
  LET d == srvMsg[Hub].to
  IN /\ srvAt[Hub] = "post"
     /\ Release(d)
     /\ \/ /\ mb[d] = None
           /\ mb' = [mb EXCEPT ![d] = srvMsg[Hub]]
           /\ SrvGoto(Hub, "signal")
        \/ /\ mb[d] # None
           /\ SrvGoto(Hub, "top")
           /\ UNCHANGED mb
     /\ UNCHANGED <<sgi, eventq, appVars, srvMsg, handed>>

\* Mutant of HubSignals: the forward that succeeded is repeated.
HubSignalsRepeats ==
  /\ srvAt[Hub] = "signal"
  /\ Signal(Hub, srvMsg[Hub].to)
  /\ SrvGoto(Hub, "lock")
  /\ UNCHANGED <<mb, holder, eventq, appVars, srvMsg, handed>>

\* The interrupt to the destination; the loop starts over.
HubSignals ==
  /\ srvAt[Hub] = "signal"
  /\ Signal(Hub, srvMsg[Hub].to)
  /\ SrvGoto(Hub, "top")
  /\ UNCHANGED <<mb, holder, eventq, appVars, srvMsg, handed>>

-----------------------------------------------------------------------------
Sending(c)   == AppLocks(c) \/ AppPosts(c) \/ AppSignals(c)
Serving(c)   == Await(c) \/ SrvLocks(c) \/ Take(c) \/ Deliver(c)
Forwarding   == Forward \/ HubLocks \/ HubPosts \/ HubSignals

Next ==
  \/ Forwarding
  \/ \E c \in Cores : \/ Sending(c) \/ Serving(c) \/ Interrupt(c) \/ Replied(c)
                      \/ \E d \in Cores : Call(c, d)

Spec == Init /\ [][Next]_vars

\* Scheduled tasks run, interrupts are taken and receivers reply; an app need
\* not call again.
FairSpec ==
  /\ Spec
  /\ WF_vars(Forwarding)
  /\ \A c \in Cores : /\ WF_vars(Sending(c)) /\ WF_vars(Serving(c))
                      /\ WF_vars(Interrupt(c)) /\ WF_vars(Replied(c))

-----------------------------------------------------------------------------
(* Properties.                                                             *)

\* Everything that will make the server of core c look into its mailbox once:
\* a sender between unlock and signal, a pending interrupt, a recorded event,
\* or the server itself past its AwaitEvent.
Tokens(c) ==
  Cardinality({a \in Cores : appAt[a] = "signal" /\ Door(a) = c})
  + Cardinality({s \in Cores : <<s, c>> \in sgi})
  + eventq[c]
  + (IF srvAt[c] \in {"try", "take"} THEN 1 ELSE 0)
  + (IF srvAt[Hub] = "signal" /\ srvMsg[Hub].to = c THEN 1 ELSE 0)

\* A READY mailbox has one look coming, so no wake-up is lost, and an EMPTY one
\* has none, so event_q never fills and MailboxTryReceive never comes in vain.
OneTokenPerMessage ==
  \A c \in Cores : Tokens(c) = IF mb[c] = None THEN 0 ELSE 1

\* Server d has a message for a task of its own core in its hands.
Delivering(d) == srvAt[d] = "route" /\ (d # Hub \/ srvMsg[d].to = Hub)

\* What a server is about to deliver is addressed to its core, and newer than
\* all it delivered from that source: messages of one core arrive in the order
\* it sent them and at most once.
DeliveredInOrder ==
  \A d \in Cores : Delivering(d) => /\ srvMsg[d].to = d
                                    /\ srvMsg[d].n > handed[d][srvMsg[d].from]

\* A mailbox's lock is held only by a task inside mailbox_post or
\* MailboxTryReceive on that mailbox: no early return keeps it.
HeldInside ==
  \A c \in Cores : \A t \in Cores :
    /\ App(t) \in holder[c] => appAt[t] = "post" /\ Door(t) = c
    /\ Srv(t) \in holder[c] => \/ srvAt[t] = "take" /\ t = c
                               \/ srvAt[t] = "post" /\ t = Hub /\ srvMsg[Hub].to = c

\* A message between two cores that a server took leaves its hands only into
\* the mailbox of its destination or to the task there: the hub forwards what
\* it takes.
InHand(d) == srvAt[d] \in {"route", "lock", "post"} /\ srvMsg[d].from # srvMsg[d].to

NothingDropped ==
  [][\A d \in Cores : InHand(d) /\ ~ InHand(d)' =>
       mb'[srvMsg[d].to] = srvMsg[d] \/ Delivering(d)]_vars

\* The hub gets the lock of the mailbox it forwards to.
HubGetsLock == srvAt[Hub] = "lock" ~> srvAt[Hub] # "lock"

=============================================================================
