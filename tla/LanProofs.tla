------------------------------ MODULE LanProofs ------------------------------
(***************************************************************************)
(* The LAN: the hub's table, for any number of connections under any       *)
(* names, and the link server's answers, for any callers, any hub and any  *)
(* way the lines are cut into messages.                                    *)
(***************************************************************************)
EXTENDS MCLink, WellFoundedInduction, FiniteSetTheorems, FunctionTheorems, TLAPS

-----------------------------------------------------------------------------
(* The hub.                                                                *)

Threads == {"none", "run", "leave", "tell", "done"}

HubShapes ==
  /\ peers \in [OSNames -> Conns \cup {NoConn}]
  /\ joined \in [OSNames -> Conns \cup {NoConn}]
  /\ peer \in [Conns -> {"off", "on", "gone"}]
  /\ thread \in [Conns -> Threads]
  /\ name \in [Conns -> OSNames \cup {""}]
  /\ DOMAIN todo = Conns

\* An endpoint that has not connected has no thread, and a thread no name before
\* its HELLO.
NewIsNameless ==
  \A c \in Conns : /\ peer[c] = "off" => thread[c] = "none"
                   /\ thread[c] = "none" => name[c] = ""

\* The history names the connection under the name it gave.
JoinedIsNamed == \A n \in OSNames : joined[n] # NoConn => name[joined[n]] = n

\* A thread that has yet to leave the table has nothing to write: no exception can
\* end it before it has.
IdleThreads == \A c \in Conns : thread[c] \in {"none", "leave", "done"} => todo[c] = <<>>

HubInv == HubShapes /\ NewIsNameless /\ JoinedIsNamed /\ IdleThreads /\ TableIsTrue

LEMMA HubInitHolds == HubInit => HubInv
<1> SUFFICES ASSUME HubInit PROVE HubInv
  OBVIOUS
<1>1. HubShapes
  BY DEF HubInit, HubShapes, Threads
<1>2. NewIsNameless /\ JoinedIsNamed /\ IdleThreads /\ TableIsTrue
  BY <1>1 DEF HubInit, NewIsNameless, JoinedIsNamed, IdleThreads, TableIsTrue, HubShapes
<1> QED
  BY <1>1, <1>2 DEF HubInv

\* The names and connections that are not names and connections.
LEMMA NoneIsNone ==
  /\ NoConn \notin Conns /\ "" \notin OSNames
  /\ \A c \in Conns : OSName[c] \in OSNames
BY HubAssumption DEF HubAssumption, OSNames

\* A step of thread c that leaves the table alone: it goes on, or an exception or
\* the end of the file ends its loop, or it has told the others that it left.
LEMMA QuietStep ==
  ASSUME HubInv, NEW c \in Conns,
         UNCHANGED <<peers, joined, name, peer>>,
         thread[c] \in {"run", "tell"},
         thread' \in [Conns -> Threads], DOMAIN todo' = Conns,
         \A d \in Conns \ {c} : thread'[d] = thread[d] /\ todo'[d] = todo[d],
         \/ thread'[c] = thread[c]
         \/ thread'[c] = (IF thread[c] = "run" THEN "leave" ELSE "done") /\ todo'[c] = <<>>
  PROVE  HubInv'
<1>1. HubShapes'
  BY DEF HubInv, HubShapes
<1>2. NewIsNameless' /\ JoinedIsNamed' /\ IdleThreads'
  BY DEF HubInv, HubShapes, NewIsNameless, JoinedIsNamed, IdleThreads
<1>3. TableIsTrue'
  BY NoneIsNone DEF HubInv, HubShapes, TableIsTrue, Threads
<1> QED
  BY <1>1, <1>2, <1>3 DEF HubInv

LEMMA ConnectStep == ASSUME HubInv, NEW c \in Conns, Connect(c) PROVE HubInv'
<1>1. /\ thread[c] = "none" /\ thread' = [thread EXCEPT ![c] = "run"]
      /\ peer' = [peer EXCEPT ![c] = "on"]
      /\ UNCHANGED <<joined, peers, name, todo>>
  BY DEF Connect, HubInv, NewIsNameless
<1>2. HubShapes'
  BY <1>1 DEF HubInv, HubShapes, Threads
<1>3. NewIsNameless' /\ JoinedIsNamed' /\ IdleThreads'
  BY <1>1 DEF HubInv, HubShapes, NewIsNameless, JoinedIsNamed, IdleThreads
<1>4. \A n \in OSNames : joined[n] # c
  BY <1>1, NoneIsNone DEF HubInv, NewIsNameless, JoinedIsNamed
<1>5. TableIsTrue'
  BY <1>1, <1>4, NoneIsNone DEF HubInv, HubShapes, TableIsTrue
<1> QED
  BY <1>2, <1>3, <1>5 DEF HubInv

\* An endpoint that writes, or is lost: the hub does not notice yet.
LEMMA PeerStep ==
  ASSUME HubInv, NEW c \in Conns, HangUp(c) \/ \E l \in Talks[c] : Say(c, l)
  PROVE  HubInv'
<1>1. /\ peer' \in [Conns -> {"off", "on", "gone"}]
      /\ \A d \in Conns : peer'[d] = "off" => peer[d] = "off"
      /\ UNCHANGED <<thread, joined, peers, name, todo>>
  BY DEF HangUp, Say, HubInv, HubShapes
<1> QED
  BY <1>1 DEF HubInv, HubShapes, NewIsNameless, JoinedIsNamed, IdleThreads, TableIsTrue

LEMMA JoinsStep == ASSUME HubInv, NEW c \in Conns, Joins(c) PROVE HubInv'
<1>1. /\ thread[c] = "run" /\ name[c] = ""
      /\ name' = [name EXCEPT ![c] = OSName[c]]
      /\ peers' = [peers EXCEPT ![OSName[c]] = c]
      /\ joined' = [joined EXCEPT ![OSName[c]] = c]
      /\ UNCHANGED <<peer, thread>>
      /\ DOMAIN todo' = Conns /\ \A d \in Conns \ {c} : todo'[d] = todo[d]
  BY DEF Joins, Reads, Joined, HubInv, HubShapes
<1>2. HubShapes'
  BY <1>1, NoneIsNone DEF HubInv, HubShapes
<1>3. NewIsNameless' /\ IdleThreads'
  BY <1>1 DEF HubInv, HubShapes, NewIsNameless, IdleThreads
<1>4. JoinedIsNamed'
  BY <1>1, NoneIsNone DEF HubInv, HubShapes, JoinedIsNamed
<1>5. TableIsTrue'
  BY <1>1, NoneIsNone DEF HubInv, HubShapes, TableIsTrue
<1> QED
  BY <1>2, <1>3, <1>4, <1>5 DEF HubInv

\* A write of thread c, or the exception it raises.
LEMMA WorksStep == ASSUME HubInv, NEW c \in Conns, Works(c) PROVE HubInv'
<1>1. todo[c] # <<>>
  BY DEF Works, Working
<1>2. thread[c] \in {"run", "tell"}
  BY <1>1 DEF HubInv, IdleThreads, HubShapes, Threads
<1>3. UNCHANGED <<peers, joined, name, peer>>
  BY DEF Works
<1>4. \/ UNCHANGED thread /\ \E jobs : todo' = [todo EXCEPT ![c] = jobs]
      \/ Raises(c)
  BY DEF Works, Writes, Becomes
<1>5. CASE UNCHANGED thread /\ \E jobs : todo' = [todo EXCEPT ![c] = jobs]
  BY <1>2, <1>3, <1>5, QuietStep DEF HubInv, HubShapes
<1>6. CASE Raises(c)
  <2>1. /\ thread' = [thread EXCEPT ![c] = IF thread[c] = "run" THEN "leave" ELSE "done"]
        /\ todo' = [todo EXCEPT ![c] = <<>>]
    BY <1>6 DEF Raises
  <2> QED
    BY <1>2, <1>3, <2>1, QuietStep DEF HubInv, HubShapes, Threads
<1> QED
  BY <1>4, <1>5, <1>6

\* A line is handled, the file ends, the socket is closed.
LEMMA LoopStep ==
  ASSUME HubInv, NEW c \in Conns, Handles(c) \/ Ends(c) \/ Closes(c)
  PROVE  HubInv'
<1>1. CASE Handles(c)
  BY <1>1, QuietStep DEF Handles, Reads, HubInv, HubShapes
<1>2. CASE Ends(c)
  BY <1>2, QuietStep DEF Ends, HubInv, HubShapes, Threads
<1>3. CASE Closes(c)
  BY <1>3, QuietStep DEF Closes, HubInv, HubShapes, Threads
<1> QED
  BY <1>1, <1>2, <1>3

\* The finally clause: the entry goes if and only if it is still this connection's.
LEMMA LeavesStep == ASSUME HubInv, NEW c \in Conns, Leaves(c) PROVE HubInv'
<1>1. thread[c] = "leave" /\ UNCHANGED <<peer, name, joined>>
  BY DEF Leaves
<1>2. CASE name[c] # "" /\ peers' = Left(c) /\ peers' # peers
  <2>1. /\ peers[name[c]] = c /\ peers' = [peers EXCEPT ![name[c]] = NoConn]
        /\ name[c] \in OSNames
    BY <1>2 DEF Left, HubInv, HubShapes
  <2>2. /\ thread' = [thread EXCEPT ![c] = "tell"]
        /\ \E jobs : todo' = [todo EXCEPT ![c] = jobs]
    BY <1>2 DEF Leaves
  <2>3. HubShapes'
    BY <1>1, <2>1, <2>2 DEF HubInv, HubShapes, Threads
  <2>4. NewIsNameless' /\ JoinedIsNamed' /\ IdleThreads'
    BY <1>1, <2>1, <2>2 DEF HubInv, HubShapes, NewIsNameless, JoinedIsNamed, IdleThreads
  <2>5. joined[name[c]] = c
    BY <2>1, NoneIsNone DEF HubInv, TableIsTrue
  <2>6. TableIsTrue'
    BY <1>1, <2>1, <2>2, <2>5, NoneIsNone DEF HubInv, HubShapes, TableIsTrue, JoinedIsNamed
  <2> QED
    BY <2>3, <2>4, <2>6 DEF HubInv
<1>3. CASE name[c] = "" \/ Left(c) = peers
  <2>1. CASE ~ (name[c] # "" /\ peers' = Left(c) /\ peers' # peers)
    <3>1. /\ thread' = [thread EXCEPT ![c] = "done"] /\ UNCHANGED <<peers, todo>>
      BY <2>1 DEF Leaves
    <3>2. \A n \in OSNames : joined[n] # c
      <4> SUFFICES ASSUME NEW n \in OSNames, joined[n] = c PROVE FALSE
        OBVIOUS
      <4>1. peers[n] = c /\ name[c] = n
        BY <1>1, NoneIsNone DEF HubInv, TableIsTrue, JoinedIsNamed
      <4>2. Left(c)[n] = NoConn
        BY <4>1 DEF Left, HubInv, HubShapes
      <4> QED
        BY <1>3, <4>1, <4>2, NoneIsNone
    <3>3. HubShapes'
      BY <1>1, <3>1 DEF HubInv, HubShapes, Threads
    <3>4. NewIsNameless' /\ JoinedIsNamed' /\ IdleThreads'
      BY <1>1, <3>1 DEF HubInv, HubShapes, NewIsNameless, JoinedIsNamed, IdleThreads
    <3>5. TableIsTrue'
      BY <1>1, <3>1, <3>2, NoneIsNone DEF HubInv, HubShapes, TableIsTrue
    <3> QED
      BY <3>3, <3>4, <3>5 DEF HubInv
  <2> QED
    BY <1>2, <2>1
<1> QED
  BY <1>2, <1>3 DEF Leaves

LEMMA HubNextHolds == HubInv /\ [HubNext]_hubVars => HubInv'
<1> SUFFICES ASSUME HubInv, [HubNext]_hubVars PROVE HubInv'
  OBVIOUS
<1>1. CASE HubNext
  <2>1. PICK c \in Conns :
          Connect(c) \/ (\E l \in Talks[c] : Say(c, l)) \/ HangUp(c) \/ ThreadStep(c)
    BY <1>1 DEF HubNext
  <2> QED
    BY <2>1, ConnectStep, PeerStep, JoinsStep, WorksStep, LoopStep, LeavesStep DEF ThreadStep
<1>2. CASE UNCHANGED hubVars
  BY <1>2 DEF hubVars, HubInv, HubShapes, NewIsNameless, JoinedIsNamed, IdleThreads, TableIsTrue
<1> QED
  BY <1>1, <1>2

THEOREM HubInvariance == HubSpec => []HubInv
BY HubInitHolds, HubNextHolds, PTL DEF HubSpec

\* The hub's table names, for every name, the connection that joined last under
\* it, from its HELLO until its thread has left: whatever connections of the same
\* name come and go, and whatever exceptions end the threads that write to them.
THEOREM Table == HubSpec => []TableIsTrue
BY HubInvariance, PTL DEF HubInv

\* The same beside a system whose link server has said HELLO while it booted, with
\* every step of hub and server as the serial line joins them.
THEOREM LanTable == ASSUME Us \in Conns PROVE LanSpec => []TableIsTrue
<1>1. LanInit => HubInv
  <2> SUFFICES ASSUME LanInit PROVE HubInv
    OBVIOUS
  <2>1. HubShapes
    BY DEF LanInit, HubShapes, Threads
  <2>2. NewIsNameless /\ JoinedIsNamed /\ IdleThreads /\ TableIsTrue
    BY <2>1 DEF LanInit, NewIsNameless, JoinedIsNamed, IdleThreads, TableIsTrue, HubShapes
  <2> QED
    BY <2>1, <2>2 DEF HubInv
<1>2. HubInv /\ [HubStep \/ SystemStep]_lanVars => HubInv'
  <2> SUFFICES ASSUME HubInv, [HubStep \/ SystemStep]_lanVars PROVE HubInv'
    OBVIOUS
  <2>1. CASE HubStep
    <3>1. (Us \in Conns /\ ThreadStep(Us)) \/ HubNext
      BY <2>1 DEF HubStep, HubNext
    <3> QED
      BY <3>1, HubNextHolds DEF HubNext
  <2>2. CASE SystemStep
    BY <2>2 DEF SystemStep, HubInv, HubShapes, NewIsNameless, JoinedIsNamed, IdleThreads, TableIsTrue
  <2>3. CASE UNCHANGED lanVars
    BY <2>3 DEF lanVars, hubVars, HubInv, HubShapes, NewIsNameless, JoinedIsNamed, IdleThreads, TableIsTrue
  <2> QED
    BY <2>1, <2>2, <2>3
<1> QED
  BY <1>1, <1>2, PTL DEF LanSpec, HubInv

-----------------------------------------------------------------------------
(* The hub's answers.                                                      *)

IsSequence(q) == \E T : q \in Seq(T)

\* The jobs q of thread c hold no answer, or one of kind k, to c.
OwesNothing(q) == \A i \in DOMAIN q : ~ IsAnswer(q[i])

Owes(q, c, k) ==
  \E i \in DOMAIN q : /\ IsAnswer(q[i]) /\ q[i].to = c /\ q[i].text.kind = k
                      /\ \A j \in DOMAIN q : IsAnswer(q[j]) => j = i

\* The answers written, w, and the one owed in q make up a.
Owing(q, c, w, a) ==
  \/ OwesNothing(q) /\ a = w
  \/ \E k \in AnswerKinds : Owes(q, c, k) /\ a = Append(w, k)

\* The numbers S of the lines that ask have the answers a, in order.
Fits(S, lines, a) ==
  /\ Cardinality(S) = Len(a)
  /\ \A i \in S : Suits(a[Cardinality({j \in S : j <= i})], lines[i])

Answering(c) ==
  /\ IsSequence(todo[c]) /\ IsSequence(said[c])
  /\ handled[c] \in 0 .. Len(said[c]) /\ answers[c] \in Seq(AnswerKinds)
  /\ name[c] \in {"", OSName[c]}
  /\ thread[c] = "none" => handled[c] = 0 /\ answers[c] = <<>>
  /\ \E a : /\ Owing(todo[c], c, answers[c], a)
            /\ thread[c] = "run" => Fits(Asked(c), said[c], a)

AnswersInv ==
  /\ HubInv /\ IsFiniteSet(Roster)
  /\ DOMAIN said = Conns /\ DOMAIN handled = Conns /\ DOMAIN answers = Conns
  /\ \A c \in Conns : Answering(c)

LEMMA Nothing == /\ IsSequence(<<>>) /\ OwesNothing(<<>>) /\ Len(<<>>) = 0
                 /\ <<>> \in Seq(AnswerKinds)
<1>1. <<>> \in Seq({}) /\ <<>> \in Seq(AnswerKinds) /\ Len(<<>>) = 0
  OBVIOUS
<1>2. DOMAIN <<>> = 1 .. 0
  BY <1>1
<1> QED
  BY <1>1, <1>2 DEF IsSequence, OwesNothing

LEMMA OneEntry ==
  ASSUME NEW x
  PROVE  IsSequence(<<x>>) /\ Len(<<x>>) = 1 /\ DOMAIN <<x>> = {1} /\ <<x>>[1] = x
<1>1. <<x>> \in Seq({x}) /\ Len(<<x>>) = 1 /\ DOMAIN <<x>> = {1} /\ <<x>>[1] = x
  OBVIOUS
<1> QED
  BY <1>1 DEF IsSequence

\* Before the first line that asks.
LEMMA NoneFits == ASSUME NEW s PROVE Fits({}, s, <<>>)
BY FS_EmptySet, Nothing DEF Fits

\* A line that asks, and its answer.
LEMMA OneMoreFits ==
  ASSUME NEW h \in Nat, NEW S, \A i \in S : i \in Nat /\ 1 <= i /\ i < h, NEW s, NEW t,
         NEW a \in Seq(AnswerKinds), NEW k \in AnswerKinds,
         Fits(S, s, a), \A i \in S : t[i] = s[i], Suits(k, t[h])
  PROVE  Fits(S \cup {h}, t, Append(a, k))
<1>1. PICK n \in Nat : n = Len(a) /\ Cardinality(S) = n
  BY DEF Fits
<1>2. /\ Len(Append(a, k)) = n + 1 /\ Append(a, k)[n + 1] = k
      /\ \A i \in 1 .. n : Append(a, k)[i] = a[i]
  BY <1>1
<1>3. IsFiniteSet(S) /\ h \notin S
  <2>1. S \in SUBSET Nat /\ \A i \in S : i <= h
    OBVIOUS
  <2>2. IsFiniteSet(S)
    BY <2>1, FS_BoundedSetOfNaturals
  <2>3. h \notin S
    OBVIOUS
  <2> QED
    BY <2>2, <2>3
<1>4. Cardinality(S \cup {h}) = n + 1
  BY <1>1, <1>3, FS_AddElement
<1>5. {j \in S \cup {h} : j <= h} = S \cup {h}
  OBVIOUS
<1>6. ASSUME NEW i \in S
      PROVE  Suits(Append(a, k)[Cardinality({j \in S \cup {h} : j <= i})], t[i])
  <2>1. PICK R : R = {j \in S : j <= i}
    OBVIOUS
  <2>2. {j \in S \cup {h} : j <= i} = R
    BY <2>1
  <2>3. IsFiniteSet(R) /\ R # {} /\ Cardinality(R) <= n
    BY <1>1, <1>3, <2>1, FS_Subset
  <2>4. Cardinality(R) \in 1 .. n
    BY <1>1, <2>3, FS_EmptySet, FS_CardinalityType
  <2>5. Suits(a[Cardinality(R)], s[i])
    BY <2>1 DEF Fits
  <2> QED
    BY <1>2, <2>2, <2>4, <2>5
<1>7. Suits(Append(a, k)[Cardinality({j \in S \cup {h} : j <= h})], t[h])
  BY <1>2, <1>4, <1>5
<1> QED
  BY <1>2, <1>4, <1>6, <1>7 DEF Fits

LEMMA StillFits ==
  ASSUME NEW S, NEW s, NEW t, NEW a, Fits(S, s, a), \A i \in S : t[i] = s[i]
  PROVE  Fits(S, t, a)
BY DEF Fits

\* A job is done.
LEMMA OneJobLess ==
  ASSUME NEW q, IsSequence(q), q # <<>>
  PROVE  /\ IsSequence(Tail(q)) /\ 1 \in DOMAIN q /\ Head(q) = q[1]
         /\ \A i \in DOMAIN Tail(q) : i + 1 \in DOMAIN q /\ Tail(q)[i] = q[i + 1] /\ i + 1 # 1
         /\ \A i \in DOMAIN q : i # 1 => i - 1 \in DOMAIN Tail(q) /\ Tail(q)[i - 1] = q[i]
         /\ \A i, j \in DOMAIN Tail(q) : i + 1 = j + 1 => i = j
<1>1. PICK T : q \in Seq(T)
  BY DEF IsSequence
<1>2. Tail(q) \in Seq(T)
  BY <1>1
<1> QED
  BY <1>1, <1>2 DEF IsSequence

\* The job was the answer, or it was not.
LEMMA WrittenIsOwed ==
  ASSUME NEW q, IsSequence(q), q # <<>>, NEW c, NEW w, NEW a, Owing(q, c, w, a)
  PROVE  /\ IsAnswer(Head(q)) => /\ Head(q).to = c /\ Head(q).text.kind \in AnswerKinds
                                 /\ Owing(Tail(q), c, Append(w, Head(q).text.kind), a)
         /\ ~ IsAnswer(Head(q)) => Owing(Tail(q), c, w, a)
<1> PICK r : r = Tail(q)
  OBVIOUS
<1>1. /\ 1 \in DOMAIN q /\ Head(q) = q[1]
      /\ \A i \in DOMAIN r : i + 1 \in DOMAIN q /\ r[i] = q[i + 1] /\ i + 1 # 1
      /\ \A i \in DOMAIN q : i # 1 => i - 1 \in DOMAIN r /\ r[i - 1] = q[i]
      /\ \A i, j \in DOMAIN r : i + 1 = j + 1 => i = j
  BY OneJobLess
<1>2. ASSUME IsAnswer(Head(q))
      PROVE  /\ Head(q).to = c /\ Head(q).text.kind \in AnswerKinds
             /\ Owing(r, c, Append(w, Head(q).text.kind), a)
  <2>1. PICK k \in AnswerKinds : Owes(q, c, k) /\ a = Append(w, k)
    BY <1>1, <1>2 DEF Owing, OwesNothing
  <2>2. q[1].to = c /\ q[1].text.kind = k /\ \A j \in DOMAIN q : IsAnswer(q[j]) => j = 1
    BY <1>1, <1>2, <2>1 DEF Owes
  <2>3. OwesNothing(r)
    BY <1>1, <2>2 DEF OwesNothing
  <2> QED
    BY <1>1, <2>1, <2>2, <2>3 DEF Owing
<1>3. ASSUME ~ IsAnswer(Head(q)) PROVE Owing(r, c, w, a)
  <2>1. OwesNothing(q) => OwesNothing(r)
    BY <1>1 DEF OwesNothing
  <2>2. ASSUME NEW k, Owes(q, c, k) PROVE Owes(r, c, k)
    <3>1. PICK i \in DOMAIN q : /\ IsAnswer(q[i]) /\ q[i].to = c /\ q[i].text.kind = k
                                /\ \A j \in DOMAIN q : IsAnswer(q[j]) => j = i
      BY <2>2 DEF Owes
    <3>2. i # 1
      BY <1>1, <1>3, <3>1
    <3>3. i - 1 \in DOMAIN r /\ r[i - 1] = q[i]
      BY <1>1, <3>2
    <3>4. \A j \in DOMAIN r : IsAnswer(r[j]) => j = i - 1
      <4> TAKE j \in DOMAIN r
      <4> HAVE IsAnswer(r[j])
      <4>1. j + 1 = i /\ r[i - 1] = q[i]
        BY <1>1, <3>1, <3>3
      <4>2. j \in Int
        <5>1. PICK T : q \in Seq(T)
          BY DEF IsSequence
        <5> QED
          BY <5>1
      <4> QED
        BY <4>1, <4>2
    <3> QED
      BY <3>1, <3>3, <3>4 DEF Owes
  <2> QED
    BY <2>1, <2>2 DEF Owing
<1> QED
  BY <1>2, <1>3

\* Other jobs come before.
LEMMA JobsBefore ==
  ASSUME NEW p, IsSequence(p), OwesNothing(p), NEW q, IsSequence(q)
  PROVE  /\ IsSequence(p \o q)
         /\ \A c, w, a : Owing(q, c, w, a) => Owing(p \o q, c, w, a)
<1>1. PICK T : p \in Seq(T)
  BY DEF IsSequence
<1>2. PICK U : q \in Seq(U)
  BY DEF IsSequence
<1>3. PICK n \in Nat : n = Len(p) /\ DOMAIN p = 1 .. n
  BY <1>1
<1>4. PICK m \in Nat : m = Len(q) /\ DOMAIN q = 1 .. m
  BY <1>2
<1>5. PICK r : r = p \o q
  OBVIOUS
<1>6. /\ r \in Seq(T \cup U) /\ DOMAIN r = 1 .. n + m
      /\ \A i \in 1 .. n : r[i] = p[i]
      /\ \A i \in 1 .. m : r[n + i] = q[i]
  <2>1. p \in Seq(T \cup U) /\ q \in Seq(T \cup U)
    BY <1>1, <1>2
  <2> QED
    BY <1>3, <1>4, <1>5, <2>1
<1>7. \A i \in DOMAIN r : IsAnswer(r[i]) => i - n \in DOMAIN q /\ r[i] = q[i - n]
  <2> TAKE i \in DOMAIN r
  <2> HAVE IsAnswer(r[i])
  <2>1. i \notin 1 .. n
    BY <1>3, <1>6 DEF OwesNothing
  <2>2. i - n \in 1 .. m /\ n + (i - n) = i
    BY <1>6, <2>1
  <2> QED
    BY <1>4, <1>6, <2>2
<1>8. OwesNothing(q) => OwesNothing(r)
  BY <1>7 DEF OwesNothing
<1>9. ASSUME NEW c, NEW k, Owes(q, c, k) PROVE Owes(r, c, k)
  <2>1. PICK i \in DOMAIN q : /\ IsAnswer(q[i]) /\ q[i].to = c /\ q[i].text.kind = k
                              /\ \A j \in DOMAIN q : IsAnswer(q[j]) => j = i
    BY <1>9 DEF Owes
  <2>2. n + i \in DOMAIN r /\ r[n + i] = q[i]
    BY <1>4, <1>6
  <2>3. \A j \in DOMAIN r : IsAnswer(r[j]) => j = n + i
    <3> TAKE j \in DOMAIN r
    <3> HAVE IsAnswer(r[j])
    <3>1. j - n = i /\ j \in Int
      BY <1>6, <1>7, <2>1
    <3> QED
      BY <3>1
  <2> QED
    BY <2>1, <2>2, <2>3 DEF Owes
<1> QED
  BY <1>5, <1>6, <1>8, <1>9 DEF IsSequence, Owing

\* One answer after other jobs.
LEMMA AnswerLast ==
  ASSUME NEW p, IsSequence(p), OwesNothing(p), NEW c, NEW text, text.kind \in AnswerKinds
  PROVE  /\ IsSequence(p \o <<SendTo(c, text)>>)
         /\ \A w : Owing(p \o <<SendTo(c, text)>>, c, w, Append(w, text.kind))
<1>1. PICK q : q = <<SendTo(c, text)>>
  OBVIOUS
<1>2. IsSequence(q) /\ DOMAIN q = {1} /\ q[1] = SendTo(c, text)
  BY <1>1, OneEntry
<1>3. IsAnswer(q[1]) /\ q[1].to = c /\ q[1].text = text
  BY <1>2 DEF IsAnswer, SendTo, Job
<1>4. Owes(q, c, text.kind)
  BY <1>2, <1>3 DEF Owes
<1>5. \A w : Owing(q, c, w, Append(w, text.kind))
  BY <1>4 DEF Owing
<1> QED
  BY <1>1, <1>2, <1>5, JobsBefore

\* The members of a finite set, one after the other.
LEMMA OneByOne ==
  ASSUME NEW S, IsFiniteSet(S)
  PROVE  SetToSeq(S) \in Seq(S)
<1>1. PICK n \in Nat : n = Cardinality(S)
  BY FS_CardinalityType
<1>2. PICK f \in Bijection(1 .. n, S) : TRUE
  BY <1>1, FS_CardinalityType DEF ExistsBijection
<1>3. f \in [1 .. n -> S] /\ \A i, j \in 1 .. n : f[i] = f[j] => i = j
  BY <1>2, Fun_BijectionProperties
<1>4. IsInjective(f)
  BY <1>3 DEF IsInjective
<1>5. SetToSeq(S) \in [1 .. n -> S]
  BY <1>1, <1>3, <1>4 DEF SetToSeq
<1> QED
  BY <1>5

\* The values of a function on a finite set.
LEMMA Values ==
  ASSUME NEW S, IsFiniteSet(S), NEW f, DOMAIN f = S, NEW T, T = {f[x] : x \in S}
  PROVE  IsFiniteSet(T)
<1>1. PICK g : g = [x \in S |-> f[x]]
  OBVIOUS
<1>2. g \in Surjection(S, T)
  BY <1>1 DEF Surjection
<1> QED
  BY <1>2, FS_Surjection

\* What is written to all connections of a table, or to those of other names.
LEMMA SendsToAll ==
  ASSUME NEW N, IsFiniteSet(N), NEW tokens, tokens = {peers[n] : n \in N},
         NEW text, text.kind \notin AnswerKinds
  PROVE  IsSequence(SendsAll(tokens, text)) /\ OwesNothing(SendsAll(tokens, text))
<1>1. PICK S : S = {SendTo(t, text) : t \in tokens}
  OBVIOUS
<1>2. PICK f : f = [n \in N |-> SendTo(peers[n], text)]
  OBVIOUS
<1>3. S = {f[n] : n \in N} /\ DOMAIN f = N
  BY <1>1, <1>2
<1>4. IsFiniteSet(S)
  BY <1>3, Values
<1>5. PICK q : q = SendsAll(tokens, text)
  OBVIOUS
<1>6. q \in Seq(S)
  BY <1>1, <1>4, <1>5, OneByOne DEF SendsAll
<1>7. \A j \in S : ~ IsAnswer(j)
  BY <1>1 DEF IsAnswer, SendTo, Job
<1>8. \A i \in DOMAIN q : q[i] \in S
  BY <1>6
<1> QED
  BY <1>5, <1>6, <1>7, <1>8 DEF IsSequence, OwesNothing

LEMMA OthersFinite ==
  ASSUME IsFiniteSet(Roster), NEW n
  PROVE  Cardinality(OtherTokens(n)) \in Nat
<1>1. IsFiniteSet(Roster \ {n})
  BY FS_RemoveElement
<1>2. PICK f : f = [m \in Roster \ {n} |-> peers[m]]
  OBVIOUS
<1>3. OtherTokens(n) = {f[m] : m \in Roster \ {n}} /\ DOMAIN f = Roster \ {n}
  BY <1>2 DEF OtherTokens
<1>4. IsFiniteSet(OtherTokens(n))
  BY <1>1, <1>3, Values
<1> QED
  BY <1>4, FS_CardinalityType

\* A single job that is no answer.
LEMMA OneJob ==
  ASSUME NEW j, ~ IsAnswer(j)
  PROVE  IsSequence(<<j>>) /\ OwesNothing(<<j>>)
BY OneEntry DEF OwesNothing

\* What a line makes its thread do: one answer if it asks, and none if not.
LEMMA RepliesAnswer ==
  ASSUME IsFiniteSet(Roster), NEW c, NEW l
  PROVE  /\ IsSequence(Replies(c, l))
         /\ l.cmd \in {"PING", "MSG", "BROADCAST"}
              => \E k \in AnswerKinds : Suits(k, l) /\ \A w : Owing(Replies(c, l), c, w, Append(w, k))
         /\ l.cmd \notin {"PING", "MSG", "BROADCAST"} => OwesNothing(Replies(c, l))
<1>1. \A k, s : Text(k, s).kind = k
  BY DEF Text
<1>2. {"PONG", "OK", "ERR"} = AnswerKinds
  BY DEF AnswerKinds
<1>3. PICK toAll : toAll = [i \in 1 .. Cardinality(OtherTokens(name[c])) |-> Job("others", NoConn, NoText)]
  OBVIOUS
<1>4. IsSequence(toAll) /\ OwesNothing(toAll)
  <2>1. PICK n \in Nat : n = Cardinality(OtherTokens(name[c]))
    BY OthersFinite
  <2>2. toAll \in Seq({Job("others", NoConn, NoText)})
    BY <1>3, <2>1
  <2>3. ~ IsAnswer(Job("others", NoConn, NoText))
    BY DEF IsAnswer, Job
  <2> QED
    BY <2>2, <2>3 DEF IsSequence, OwesNothing
<1>5. CASE l.cmd = "PING"
  <2>1. PICK t : t = Text("PONG", {})
    OBVIOUS
  <2>2. Replies(c, l) = <<>> \o <<SendTo(c, t)>>
    BY <1>5, <2>1 DEF Replies
  <2>3. t.kind = "PONG"
    BY <1>1, <2>1
  <2>4. Suits("PONG", l)
    BY <1>5 DEF Suits
  <2>5. IsSequence(Replies(c, l)) /\ \A w : Owing(Replies(c, l), c, w, Append(w, "PONG"))
    BY <1>2, <2>2, <2>3, Nothing, AnswerLast
  <2> QED
    BY <1>2, <1>5, <2>4, <2>5
<1>6. CASE l.cmd = "PEERS"
  <2>1. Replies(c, l) = <<SendTo(c, Text("PEERS", Roster))>>
    BY <1>6 DEF Replies
  <2>2. ~ IsAnswer(SendTo(c, Text("PEERS", Roster)))
    BY <1>1 DEF IsAnswer, SendTo, Job, AnswerKinds
  <2> QED
    BY <1>6, <2>1, <2>2, OneJob
<1>7. CASE l.cmd = "MSG" /\ peers[l.to] = NoConn
  <2>1. PICK t : t = Text("ERR", {l.to})
    OBVIOUS
  <2>2. Replies(c, l) = <<>> \o <<SendTo(c, t)>>
    BY <1>7, <2>1 DEF Replies
  <2>3. t.kind = "ERR"
    BY <1>1, <2>1
  <2>4. Suits("ERR", l)
    BY <1>7 DEF Suits
  <2>5. IsSequence(Replies(c, l)) /\ \A w : Owing(Replies(c, l), c, w, Append(w, "ERR"))
    BY <1>2, <2>2, <2>3, Nothing, AnswerLast
  <2> QED
    BY <1>2, <1>7, <2>4, <2>5
<1>8. CASE l.cmd = "MSG" /\ peers[l.to] # NoConn
  <2>1. PICK t : t = Text("OK", {})
    OBVIOUS
  <2>2. PICK j : j = Job("one", NoConn, Text("FOR", {l.to}))
    OBVIOUS
  <2>3. Replies(c, l) = <<j>> \o <<SendTo(c, t)>>
    BY <1>8, <2>1, <2>2 DEF Replies
  <2>4. t.kind = "OK"
    BY <1>1, <2>1
  <2>5. Suits("OK", l)
    BY <1>8 DEF Suits
  <2>6. ~ IsAnswer(j)
    BY <2>2 DEF IsAnswer, Job
  <2>7. IsSequence(Replies(c, l)) /\ \A w : Owing(Replies(c, l), c, w, Append(w, "OK"))
    BY <1>2, <2>3, <2>4, <2>6, OneJob, AnswerLast
  <2> QED
    BY <1>2, <1>8, <2>5, <2>7
<1>9. CASE l.cmd = "BROADCAST"
  <2>1. PICK t : t = Text("OK", {})
    OBVIOUS
  <2>2. Replies(c, l) = toAll \o <<SendTo(c, t)>>
    BY <1>3, <1>9, <2>1 DEF Replies
  <2>3. t.kind = "OK"
    BY <1>1, <2>1
  <2>4. Suits("OK", l)
    BY <1>9 DEF Suits
  <2>5. IsSequence(Replies(c, l)) /\ \A w : Owing(Replies(c, l), c, w, Append(w, "OK"))
    BY <1>2, <1>4, <2>2, <2>3, AnswerLast
  <2> QED
    BY <1>2, <1>9, <2>4, <2>5
<1>10. CASE l.cmd \notin {"PING", "PEERS", "MSG", "BROADCAST"}
  <2>1. Replies(c, l) = toAll
    BY <1>3, <1>10 DEF Replies
  <2> QED
    BY <1>4, <1>10, <2>1
<1> QED
  BY <1>5, <1>6, <1>7, <1>8, <1>9, <1>10

\* A step of thread c, or of its endpoint, is about its answers only.
LEMMA OnlyItsAnswers ==
  ASSUME AnswersInv, HubInv', IsFiniteSet(Roster)', NEW c \in Conns,
         DOMAIN said' = Conns, DOMAIN handled' = Conns, DOMAIN answers' = Conns,
         \A d \in Conns \ {c} : /\ todo'[d] = todo[d] /\ said'[d] = said[d]
                                /\ handled'[d] = handled[d] /\ answers'[d] = answers[d]
                                /\ name'[d] = name[d] /\ thread'[d] = thread[d],
         Answering(c)'
  PROVE  AnswersInv'
<1>1. ASSUME NEW d \in Conns \ {c} PROVE Answering(d)'
  <2>1. Asked(d)' = Asked(d)
    BY DEF Asked
  <2> QED
    BY <2>1 DEF AnswersInv, Answering
<1> QED
  BY <1>1 DEF AnswersInv

\* The lines that were handled stay what they are.
LEMMA AskedStays ==
  ASSUME NEW c, handled'[c] = handled[c], \A i \in 1 .. handled[c] : said'[c][i] = said[c][i]
  PROVE  /\ Asked(c)' = Asked(c)
         /\ \A a : Fits(Asked(c), said[c], a) => Fits(Asked(c), said[c], a)'
<1>1. Asked(c)' = Asked(c)
  BY DEF Asked
<1>2. \A i \in Asked(c) : said'[c][i] = said[c][i]
  BY DEF Asked
<1> QED
  BY <1>1, <1>2, StillFits

\* No line is handled: what is due stays due, as long as the thread goes on.
LEMMA NoLineHandled ==
  ASSUME AnswersInv, NEW c \in Conns, handled'[c] = handled[c], said'[c] = said[c],
         IsSequence(todo'[c]), answers'[c] \in Seq(AnswerKinds), name'[c] = name[c],
         thread[c] # "none", thread'[c] # "none",
         \/ /\ thread'[c] = "run" => thread[c] = "run"
            /\ \A a : Owing(todo[c], c, answers[c], a) => Owing(todo'[c], c, answers'[c], a)
         \/ thread'[c] # "run" /\ OwesNothing(todo'[c])
  PROVE  Answering(c)'
<1>1. /\ IsSequence(said[c]) /\ handled[c] \in 0 .. Len(said[c]) /\ name[c] \in {"", OSName[c]}
  BY DEF AnswersInv, Answering
<1>2. PICK a : /\ Owing(todo[c], c, answers[c], a)
               /\ thread[c] = "run" => Fits(Asked(c), said[c], a)
  BY DEF AnswersInv, Answering
<1>3. \A b : Fits(Asked(c), said[c], b) => Fits(Asked(c), said[c], b)'
  BY AskedStays
<1>4. CASE /\ thread'[c] = "run" => thread[c] = "run"
           /\ \A b : Owing(todo[c], c, answers[c], b) => Owing(todo'[c], c, answers'[c], b)
  BY <1>1, <1>2, <1>3, <1>4 DEF Answering
<1>5. CASE thread'[c] # "run" /\ OwesNothing(todo'[c])
  <2>1. Owing(todo'[c], c, answers'[c], answers'[c])
    BY <1>5 DEF Owing
  <2> QED
    BY <1>1, <1>5, <2>1 DEF Answering
<1> QED
  BY <1>4, <1>5

\* Where no thread's name, no table and no line read changes.
LEMMA NobodyJoins ==
  ASSUME AnswersInv, peers' = peers PROVE IsFiniteSet(Roster)'
BY DEF AnswersInv, Roster

LEMMA ConnectAnswers == ASSUME AnswersInv, NEW c \in Conns, Connect(c) PROVE AnswersInv'
<1>1. HubInv'
  BY ConnectStep DEF AnswersInv
<1>2. /\ said' = [said EXCEPT ![c] = <<Line("HELLO", "")>>] /\ thread' = [thread EXCEPT ![c] = "run"]
      /\ UNCHANGED <<handled, answers, name, todo, peers>>
  BY DEF Connect
<1>3. thread[c] = "none" /\ todo[c] = <<>> /\ handled[c] = 0 /\ answers[c] = <<>>
  BY DEF Connect, AnswersInv, HubInv, NewIsNameless, IdleThreads, Answering
<1>4. Answering(c)'
  <2>1. said'[c] = <<Line("HELLO", "")>> /\ thread'[c] = "run"
    BY <1>2 DEF AnswersInv, HubInv, HubShapes
  <2>2. IsSequence(said'[c]) /\ Len(said'[c]) = 1
    BY <2>1, OneEntry
  <2>a. handled'[c] = 0 /\ 1 .. 0 = {}
    <3>1. handled' = handled
      BY <1>2
    <3> QED
      BY <1>3, <3>1
  <2>3. Asked(c)' = {}
    BY <2>a DEF Asked
  <2>4. Fits(Asked(c)', said'[c], <<>>)
    BY <2>3, NoneFits
  <2>5. Owing(todo'[c], c, answers'[c], <<>>)
    BY <1>2, <1>3, Nothing DEF Owing
  <2>6. handled'[c] \in 0 .. Len(said'[c])
    BY <2>2, <2>a
  <2> QED
    BY <1>2, <1>3, <2>1, <2>2, <2>4, <2>5, <2>6, Nothing DEF Answering, AnswersInv
<1>5. /\ DOMAIN said' = Conns /\ DOMAIN handled' = Conns /\ DOMAIN answers' = Conns
      /\ \A d \in Conns \ {c} : /\ todo'[d] = todo[d] /\ said'[d] = said[d]
                                /\ handled'[d] = handled[d] /\ answers'[d] = answers[d]
                                /\ name'[d] = name[d] /\ thread'[d] = thread[d]
  BY <1>2 DEF AnswersInv, HubInv, HubShapes
<1> QED
  BY <1>1, <1>2, <1>4, <1>5, OnlyItsAnswers, NobodyJoins

LEMMA SayAnswers == ASSUME AnswersInv, NEW c \in Conns, NEW l \in Talks[c], Say(c, l) PROVE AnswersInv'
<1>1. HubInv'
  BY PeerStep DEF AnswersInv
<1>2. /\ said' = [said EXCEPT ![c] = Append(said[c], l)]
      /\ UNCHANGED <<thread, handled, answers, name, todo, peers>>
  BY DEF Say
<1>3. Answering(c)'
  <2>1. PICK T : said[c] \in Seq(T)
    BY DEF AnswersInv, Answering, IsSequence
  <2>2. said'[c] = Append(said[c], l)
    BY <1>2 DEF AnswersInv
  <2>3. said[c] \in Seq(T \cup {l})
    BY <2>1
  <2>4. /\ said'[c] \in Seq(T \cup {l}) /\ Len(said'[c]) = Len(said[c]) + 1
        /\ \A i \in 1 .. Len(said[c]) : said'[c][i] = said[c][i]
    BY <2>2, <2>3
  <2>5. handled[c] \in 0 .. Len(said[c]) /\ Len(said[c]) \in Nat
    <3>1. handled[c] \in 0 .. Len(said[c])
      BY DEF AnswersInv, Answering
    <3>2. Len(said[c]) \in Nat
      BY <2>1
    <3> QED
      BY <3>1, <3>2
  <2>6. handled'[c] \in 0 .. Len(said'[c]) /\ \A i \in 1 .. handled[c] : said'[c][i] = said[c][i]
    BY <1>2, <2>4, <2>5
  <2>7. \A a : Fits(Asked(c), said[c], a) => Fits(Asked(c), said[c], a)'
    BY <1>2, <2>6, AskedStays
  <2>8. IsSequence(said'[c])
    BY <2>4 DEF IsSequence
  <2> QED
    BY <1>2, <2>6, <2>7, <2>8 DEF AnswersInv, Answering
<1>4. /\ DOMAIN said' = Conns /\ DOMAIN handled' = Conns /\ DOMAIN answers' = Conns
      /\ \A d \in Conns \ {c} : /\ todo'[d] = todo[d] /\ said'[d] = said[d]
                                /\ handled'[d] = handled[d] /\ answers'[d] = answers[d]
                                /\ name'[d] = name[d] /\ thread'[d] = thread[d]
  BY <1>2 DEF AnswersInv
<1> QED
  BY <1>1, <1>2, <1>3, <1>4, OnlyItsAnswers, NobodyJoins

LEMMA StillAnswers ==
  ASSUME AnswersInv, HubInv', UNCHANGED <<said, handled, answers, name, todo, thread, peers>>
  PROVE  AnswersInv'
<1>1. \A c : Asked(c)' = Asked(c)
  BY DEF Asked
<1>2. \A c \in Conns : Answering(c)'
  BY <1>1 DEF AnswersInv, Answering
<1> QED
  BY <1>2, NobodyJoins DEF AnswersInv

LEMMA JoinsAnswers == ASSUME AnswersInv, NEW c \in Conns, Joins(c) PROVE AnswersInv'
<1>1. HubInv'
  BY JoinsStep DEF AnswersInv
<1>2. /\ todo[c] = <<>> /\ thread[c] = "run" /\ handled[c] < Len(said[c])
      /\ said[c][handled[c] + 1].cmd = "HELLO"
      /\ handled' = [handled EXCEPT ![c] = handled[c] + 1]
      /\ name' = [name EXCEPT ![c] = OSName[c]] /\ peers' = [peers EXCEPT ![OSName[c]] = c]
      /\ UNCHANGED <<said, answers, thread>>
  BY DEF Joins, Reads, NextLine, Joined
<1>3. PICK p : p = <<Job("own", c, NoText), Job("roster", NoConn, NoText)>>
  OBVIOUS
<1>4. todo' = [todo EXCEPT ![c] = p]
  BY <1>3 DEF Joins
<1>5. IsSequence(p) /\ OwesNothing(p)
  <2>1. PICK a, b : a = Job("own", c, NoText) /\ b = Job("roster", NoConn, NoText)
    OBVIOUS
  <2>2. ~ IsAnswer(a) /\ ~ IsAnswer(b)
    BY <2>1 DEF IsAnswer, Job
  <2>3. p = <<a>> \o <<b>>
    BY <1>3, <2>1
  <2>4. IsSequence(<<a>>) /\ OwesNothing(<<a>>) /\ IsSequence(<<b>>) /\ OwesNothing(<<b>>)
    BY <2>2, OneJob
  <2>5. DOMAIN p = {1, 2} /\ p[1] = a /\ p[2] = b
    BY <1>3, <2>1
  <2> QED
    BY <2>2, <2>3, <2>4, <2>5, JobsBefore DEF OwesNothing
<1>6. IsFiniteSet(Roster)'
  <2>1. Roster' \in SUBSET (Roster \cup {OSName[c]})
    BY <1>2 DEF Roster, AnswersInv, HubInv, HubShapes
  <2>2. IsFiniteSet(Roster \cup {OSName[c]})
    BY FS_AddElement DEF AnswersInv
  <2> QED
    BY <2>1, <2>2, FS_Subset
<1>7. Answering(c)'
  <2>1. PICK h, n \in Nat : h = handled[c] /\ n = Len(said[c]) /\ h \in 0 .. n
    <3>1. PICK T : said[c] \in Seq(T)
      BY DEF AnswersInv, Answering, IsSequence
    <3>2. handled[c] \in 0 .. Len(said[c])
      BY DEF AnswersInv, Answering
    <3> QED
      BY <3>1, <3>2
  <2>2. handled'[c] = h + 1 /\ h + 1 \in 0 .. n /\ said[c][h + 1].cmd = "HELLO"
    BY <1>2, <2>1 DEF AnswersInv
  <2>3. Asked(c)' = Asked(c)
    <3>1. \A i : i \in 1 .. h + 1 <=> i \in 1 .. h \/ i = h + 1
      BY <2>1
    <3>2. said'[c] = said[c]
      BY <1>2
    <3> QED
      BY <2>1, <2>2, <3>1, <3>2 DEF Asked
  <2>4. PICK a : Owing(todo[c], c, answers[c], a) /\ Fits(Asked(c), said[c], a)
    BY <1>2 DEF AnswersInv, Answering
  <2>5. a = answers[c]
    BY <1>2, <2>4, Nothing DEF Owing, Owes, OwesNothing
  <2>6. todo'[c] = p
    BY <1>4 DEF AnswersInv, HubInv, HubShapes
  <2>7. Owing(todo'[c], c, answers'[c], a)
    BY <1>2, <1>5, <2>5, <2>6 DEF Owing
  <2>8. name'[c] = OSName[c]
    BY <1>2 DEF AnswersInv, HubInv, HubShapes
  <2>9. handled'[c] \in 0 .. Len(said'[c])
    BY <1>2, <2>1, <2>2
  <2> QED
    BY <1>2, <1>5, <2>3, <2>4, <2>6, <2>7, <2>8, <2>9 DEF AnswersInv, Answering
<1>8. /\ DOMAIN said' = Conns /\ DOMAIN handled' = Conns /\ DOMAIN answers' = Conns
      /\ \A d \in Conns \ {c} : /\ todo'[d] = todo[d] /\ said'[d] = said[d]
                                /\ handled'[d] = handled[d] /\ answers'[d] = answers[d]
                                /\ name'[d] = name[d] /\ thread'[d] = thread[d]
  BY <1>2, <1>4 DEF AnswersInv, HubInv, HubShapes
<1> QED
  BY <1>1, <1>6, <1>7, <1>8, OnlyItsAnswers

LEMMA HandlesAnswers == ASSUME AnswersInv, NEW c \in Conns, Handles(c) PROVE AnswersInv'
<1>1. HubInv'
  BY LoopStep DEF AnswersInv
<1>a. PICK l : l = NextLine(c)
  OBVIOUS
<1>b. PICK p : p = Replies(c, l)
  OBVIOUS
<1>2. /\ todo[c] = <<>> /\ thread[c] = "run" /\ handled[c] < Len(said[c])
      /\ l = said[c][handled[c] + 1]
      /\ handled' = [handled EXCEPT ![c] = handled[c] + 1]
      /\ todo' = [todo EXCEPT ![c] = p]
      /\ UNCHANGED <<said, answers, thread, name, peers>>
  BY <1>a, <1>b DEF Handles, Reads, NextLine
<1>3. /\ IsSequence(p)
      /\ l.cmd \in {"PING", "MSG", "BROADCAST"}
           => \E k \in AnswerKinds : Suits(k, l) /\ \A w : Owing(p, c, w, Append(w, k))
      /\ l.cmd \notin {"PING", "MSG", "BROADCAST"} => OwesNothing(p)
  BY <1>b, RepliesAnswer DEF AnswersInv
<1>4. Answering(c)'
  <2>1. PICK h, n \in Nat : h = handled[c] /\ n = Len(said[c]) /\ h \in 0 .. n
    <3>1. PICK T : said[c] \in Seq(T)
      BY DEF AnswersInv, Answering, IsSequence
    <3>2. handled[c] \in 0 .. Len(said[c])
      BY DEF AnswersInv, Answering
    <3> QED
      BY <3>1, <3>2
  <2>2. handled'[c] = h + 1 /\ h + 1 \in 0 .. n /\ said[c][h + 1] = l
    BY <1>2, <2>1 DEF AnswersInv
  <2>3. /\ \A i : i \in 1 .. h + 1 <=> i \in 1 .. h \/ i = h + 1
        /\ said'[c] = said[c]
    BY <1>2, <2>1
  <2>4. PICK a : Owing(todo[c], c, answers[c], a) /\ Fits(Asked(c), said[c], a)
    BY <1>2 DEF AnswersInv, Answering
  <2>5. a = answers[c] /\ a \in Seq(AnswerKinds)
    <3>1. a = answers[c]
      BY <1>2, <2>4, Nothing DEF Owing, Owes, OwesNothing
    <3>2. answers[c] \in Seq(AnswerKinds)
      BY DEF AnswersInv, Answering
    <3> QED
      BY <3>1, <3>2
  <2>6. todo'[c] = p
    BY <1>2 DEF AnswersInv, HubInv, HubShapes
  <2>7. handled'[c] \in 0 .. Len(said'[c])
    BY <2>1, <2>2, <2>3
  <2>8. \E b : Owing(p, c, answers[c], b) /\ Fits(Asked(c)', said[c], b)
    <3>1. CASE l.cmd \in {"PING", "MSG", "BROADCAST"}
      <4>1. PICK k \in AnswerKinds : Suits(k, l) /\ \A w : Owing(p, c, w, Append(w, k))
        BY <1>3, <3>1
      <4>2. Asked(c)' = Asked(c) \cup {h + 1}
        BY <2>1, <2>2, <2>3, <3>1 DEF Asked
      <4>3. \A i \in Asked(c) : i \in Nat /\ 1 <= i /\ i < h + 1
        BY <2>1 DEF Asked
      <4>4. PICK S, s : S = Asked(c) /\ s = said[c]
        OBVIOUS
      <4>5. Fits(S \cup {h + 1}, s, Append(a, k))
        <5>1. h + 1 \in Nat /\ Suits(k, s[h + 1])
          BY <2>1, <2>2, <4>1, <4>4
        <5>2. \A i \in S : i \in Nat /\ 1 <= i /\ i < h + 1
          BY <4>3, <4>4
        <5>3. Fits(S, s, a)
          BY <2>4, <4>4
        <5> QED
          BY <2>5, <4>1, <5>1, <5>2, <5>3, OneMoreFits
      <4> QED
        BY <2>5, <4>1, <4>2, <4>4, <4>5
    <3>2. CASE l.cmd \notin {"PING", "MSG", "BROADCAST"}
      <4>1. Asked(c)' = Asked(c)
        BY <2>1, <2>2, <2>3, <3>2 DEF Asked
      <4> QED
        BY <1>3, <2>4, <2>5, <3>2, <4>1 DEF Owing
    <3> QED
      BY <3>1, <3>2
  <2>9. \E b : Owing(todo'[c], c, answers'[c], b) /\ Fits(Asked(c)', said'[c], b)
    BY <1>2, <2>3, <2>6, <2>8
  <2> QED
    BY <1>2, <1>3, <2>3, <2>6, <2>7, <2>9 DEF AnswersInv, Answering
<1>5. /\ DOMAIN said' = Conns /\ DOMAIN handled' = Conns /\ DOMAIN answers' = Conns
      /\ \A d \in Conns \ {c} : /\ todo'[d] = todo[d] /\ said'[d] = said[d]
                                /\ handled'[d] = handled[d] /\ answers'[d] = answers[d]
                                /\ name'[d] = name[d] /\ thread'[d] = thread[d]
  BY <1>2 DEF AnswersInv, HubInv, HubShapes
<1> QED
  BY <1>1, <1>2, <1>4, <1>5, OnlyItsAnswers, NobodyJoins

\* A write of thread c: an answer goes to c itself, and was due.
LEMMA WritesAnswers ==
  ASSUME AnswersInv, NEW c \in Conns, thread[c] \in {"run", "tell"}, todo[c] # <<>>,
         NEW to, NEW text, Writes(c, to, text), UNCHANGED <<said, handled, name>>,
         IsAnswer(Head(todo[c])) => to = Head(todo[c]).to /\ text = Head(todo[c]).text,
         ~ IsAnswer(Head(todo[c])) => text.kind \notin AnswerKinds
  PROVE  /\ Answering(c)' /\ DOMAIN answers' = Conns
         /\ \A d \in Conns \ {c} : /\ todo'[d] = todo[d] /\ answers'[d] = answers[d]
                                   /\ thread'[d] = thread[d]
<1>1. DOMAIN todo = Conns /\ DOMAIN thread = Conns /\ DOMAIN answers = Conns
  BY DEF AnswersInv, HubInv, HubShapes
<1>2. IsSequence(todo[c]) /\ answers[c] \in Seq(AnswerKinds)
  BY DEF AnswersInv, Answering
<1>3. CASE Raises(c)
  <2>1. /\ todo' = [todo EXCEPT ![c] = <<>>] /\ answers' = answers
        /\ thread' = [thread EXCEPT ![c] = IF thread[c] = "run" THEN "leave" ELSE "done"]
    BY <1>3 DEF Raises
  <2>2. todo'[c] = <<>> /\ thread'[c] \in {"leave", "done"}
    BY <1>1, <2>1
  <2>3. IsSequence(todo'[c]) /\ OwesNothing(todo'[c])
    BY <2>2, Nothing
  <2>4. Answering(c)'
    BY <1>2, <2>1, <2>2, <2>3, NoLineHandled
  <2> QED
    BY <1>1, <2>1, <2>4
<1>4. CASE /\ answers' = IF text.kind \in AnswerKinds
                           THEN [answers EXCEPT ![to] = Append(answers[to], text.kind)] ELSE answers
           /\ todo' = [todo EXCEPT ![c] = Tail(todo[c])]
           /\ thread' = thread
  <2>1. todo'[c] = Tail(todo[c]) /\ IsSequence(todo'[c])
    BY <1>1, <1>2, <1>4, OneJobLess
  <2>2. PICK b : Owing(todo[c], c, answers[c], b)
    BY DEF AnswersInv, Answering
  <2>3. CASE IsAnswer(Head(todo[c]))
    <3>1. to = c /\ text.kind \in AnswerKinds
      BY <1>2, <2>2, <2>3, WrittenIsOwed
    <3>2. answers' = [answers EXCEPT ![c] = Append(answers[c], text.kind)]
      BY <1>4, <3>1
    <3>3. answers'[c] = Append(answers[c], text.kind)
      BY <1>1, <3>2
    <3>4. answers'[c] \in Seq(AnswerKinds)
      <4>1. PICK w, k, K : w = answers[c] /\ k = text.kind /\ K = AnswerKinds
        OBVIOUS
      <4>2. w \in Seq(K) /\ k \in K
        BY <1>2, <3>1, <4>1
      <4>3. Append(w, k) \in Seq(K)
        BY <4>2
      <4> QED
        BY <3>3, <4>1, <4>3
    <3>5. \A a : Owing(todo[c], c, answers[c], a) => Owing(todo'[c], c, answers'[c], a)
      BY <1>2, <2>1, <2>3, <3>3, WrittenIsOwed
    <3>6. Answering(c)'
      BY <1>4, <2>1, <3>4, <3>5, NoLineHandled
    <3> QED
      BY <1>1, <1>4, <3>2, <3>6
  <2>4. CASE ~ IsAnswer(Head(todo[c]))
    <3>1. answers' = answers
      BY <1>4, <2>4
    <3>2. \A a : Owing(todo[c], c, answers[c], a) => Owing(todo'[c], c, answers'[c], a)
      BY <1>2, <2>1, <2>4, <3>1, WrittenIsOwed
    <3>3. Answering(c)'
      BY <1>2, <1>4, <2>1, <3>1, <3>2, NoLineHandled
    <3> QED
      BY <1>1, <1>4, <3>1, <3>3
  <2> QED
    BY <2>3, <2>4
<1> QED
  BY <1>3, <1>4 DEF Writes

\* Thread c finds out to whom it has to write.
LEMMA BecomesAnswers ==
  ASSUME AnswersInv, NEW c \in Conns, thread[c] \in {"run", "tell"}, todo[c] # <<>>,
         ~ IsAnswer(Head(todo[c])), NEW jobs, IsSequence(jobs), OwesNothing(jobs),
         Becomes(c, jobs), UNCHANGED <<said, handled, name>>
  PROVE  /\ Answering(c)' /\ DOMAIN answers' = Conns
         /\ \A d \in Conns \ {c} : /\ todo'[d] = todo[d] /\ answers'[d] = answers[d]
                                   /\ thread'[d] = thread[d]
<1>1. DOMAIN todo = Conns /\ DOMAIN answers = Conns
  BY DEF AnswersInv, HubInv, HubShapes
<1>2. IsSequence(todo[c]) /\ answers[c] \in Seq(AnswerKinds)
  BY DEF AnswersInv, Answering
<1>3. todo' = [todo EXCEPT ![c] = jobs \o Tail(todo[c])] /\ UNCHANGED <<answers, thread>>
  BY DEF Becomes
<1>4. todo'[c] = jobs \o Tail(todo[c])
  BY <1>1, <1>3
<1>5. PICK q : q = Tail(todo[c])
  OBVIOUS
<1>6. IsSequence(q) /\ \A a : Owing(todo[c], c, answers[c], a) => Owing(q, c, answers[c], a)
  BY <1>2, <1>5, OneJobLess, WrittenIsOwed
<1>7. IsSequence(todo'[c]) /\ \A a : Owing(q, c, answers[c], a) => Owing(todo'[c], c, answers[c], a)
  BY <1>4, <1>5, <1>6, JobsBefore
<1>8. Answering(c)'
  BY <1>2, <1>3, <1>6, <1>7, NoLineHandled
<1> QED
  BY <1>1, <1>3, <1>8

LEMMA WorksAnswers == ASSUME AnswersInv, NEW c \in Conns, Works(c) PROVE AnswersInv'
<1>1. HubInv'
  BY WorksStep DEF AnswersInv
<1>2. todo[c] # <<>> /\ UNCHANGED <<said, handled, name, peers>>
  BY DEF Works, Working
<1>3. thread[c] \in {"run", "tell"}
  BY <1>2 DEF AnswersInv, HubInv, IdleThreads, HubShapes, Threads
<1>4. IsFiniteSet(Roster)
  BY DEF AnswersInv
<1>5. \A k, s : Text(k, s).kind = k
  BY DEF Text
<1> DEFINE Done ==
             /\ Answering(c)' /\ DOMAIN answers' = Conns
             /\ \A d \in Conns \ {c} : /\ todo'[d] = todo[d] /\ answers'[d] = answers[d]
                                       /\ thread'[d] = thread[d]
<1>6. CASE Working(c, "send") /\ Writes(c, Head(todo[c]).to, Head(todo[c]).text)
  <2>1. Head(todo[c]).do = "send"
    BY <1>6 DEF Working
  <2>2. ~ IsAnswer(Head(todo[c])) => Head(todo[c]).text.kind \notin AnswerKinds
    BY <2>1 DEF IsAnswer
  <2>3. Done
    BY <1>2, <1>3, <1>6, <2>2, WritesAnswers
  <2> QED
    BY <1>1, <1>2, <2>3, NobodyJoins, OnlyItsAnswers DEF AnswersInv
<1>7. CASE Working(c, "own") /\ Writes(c, c, Text("PEERS", Roster))
  <2>1. ~ IsAnswer(Head(todo[c]))
    BY <1>7 DEF Working, IsAnswer
  <2>2. Text("PEERS", Roster).kind \notin AnswerKinds
    BY <1>5 DEF AnswerKinds
  <2>3. Done
    BY <1>2, <1>3, <1>7, <2>1, <2>2, WritesAnswers
  <2> QED
    BY <1>1, <1>2, <2>3, NobodyJoins, OnlyItsAnswers DEF AnswersInv
<1>8. ASSUME NEW jobs, IsSequence(jobs), OwesNothing(jobs), Becomes(c, jobs),
             Working(c, "roster") \/ Working(c, "others") \/ Working(c, "one")
      PROVE  AnswersInv'
  <2>1. ~ IsAnswer(Head(todo[c]))
    BY <1>8 DEF Working, IsAnswer
  <2>2. Done
    BY <1>2, <1>3, <1>8, <2>1, BecomesAnswers
  <2> QED
    BY <1>1, <1>2, <2>2, NobodyJoins, OnlyItsAnswers DEF AnswersInv
<1>9. CASE Working(c, "roster") /\ Becomes(c, SendsAll(AllTokens, Text("PEERS", Roster)))
  <2>1. AllTokens = {peers[n] : n \in Roster} /\ Text("PEERS", Roster).kind \notin AnswerKinds
    BY <1>5 DEF AllTokens, AnswerKinds
  <2>2. PICK jobs : jobs = SendsAll(AllTokens, Text("PEERS", Roster))
    OBVIOUS
  <2>3. IsSequence(jobs) /\ OwesNothing(jobs)
    BY <1>4, <2>1, <2>2, SendsToAll
  <2> QED
    BY <1>8, <1>9, <2>2, <2>3
<1>10. CASE Working(c, "others") /\ Becomes(c, SendsAll(OtherTokens(name[c]), Text("FROM", {name[c]})))
  <2>1. /\ OtherTokens(name[c]) = {peers[n] : n \in Roster \ {name[c]}}
        /\ Text("FROM", {name[c]}).kind \notin AnswerKinds
    BY <1>5 DEF OtherTokens, AnswerKinds
  <2>2. IsFiniteSet(Roster \ {name[c]})
    BY <1>4, FS_RemoveElement
  <2>3. PICK jobs : jobs = SendsAll(OtherTokens(name[c]), Text("FROM", {name[c]}))
    OBVIOUS
  <2>4. IsSequence(jobs) /\ OwesNothing(jobs)
    BY <2>1, <2>2, <2>3, SendsToAll
  <2> QED
    BY <1>8, <1>10, <2>3, <2>4
<1>11. ASSUME NEW to, Working(c, "one"),
              Becomes(c, IF to = NoConn THEN <<>> ELSE <<SendTo(to, Text("FROM", {name[c]}))>>)
       PROVE  AnswersInv'
  <2>1. PICK j : j = SendTo(to, Text("FROM", {name[c]}))
    OBVIOUS
  <2>2. ~ IsAnswer(j)
    BY <1>5, <2>1 DEF IsAnswer, SendTo, Job, AnswerKinds
  <2>3. Becomes(c, <<>>) \/ Becomes(c, <<j>>)
    BY <1>11, <2>1
  <2> QED
    BY <1>8, <1>11, <2>2, <2>3, Nothing, OneJob
<1> QED
  BY <1>6, <1>7, <1>9, <1>10, <1>11 DEF Works

\* The loop ends, the thread leaves the table, the socket is closed: no answer.
LEMMA EndsAnswers ==
  ASSUME AnswersInv, NEW c \in Conns, Ends(c) \/ Leaves(c) \/ Closes(c)
  PROVE  AnswersInv'
<1>1. HubInv'
  BY LoopStep, LeavesStep DEF AnswersInv
<1>2. /\ UNCHANGED <<said, handled, answers, name>> /\ (peers' = peers \/ peers' = Left(c))
      /\ thread[c] # "none" /\ thread'[c] \in {"leave", "tell", "done"}
      /\ \A d \in Conns \ {c} : thread'[d] = thread[d]
  BY DEF Ends, Leaves, Closes, AnswersInv, HubInv, HubShapes
<1>3. /\ \A d \in Conns \ {c} : todo'[d] = todo[d]
      /\ todo'[c] = <<>> \/ todo'[c] = <<Job("roster", NoConn, NoText)>>
  BY DEF Ends, Leaves, Closes, AnswersInv, HubInv, HubShapes, IdleThreads
<1>4. IsSequence(todo'[c]) /\ OwesNothing(todo'[c])
  <2>1. ~ IsAnswer(Job("roster", NoConn, NoText))
    BY DEF IsAnswer, Job
  <2> QED
    BY <1>3, <2>1, Nothing, OneJob
<1>5. Answering(c)'
  <2>1. answers'[c] \in Seq(AnswerKinds)
    BY <1>2 DEF AnswersInv, Answering
  <2> QED
    BY <1>2, <1>4, <2>1, NoLineHandled
<1>6. IsFiniteSet(Roster)'
  <2>1. Roster' \in SUBSET Roster
    BY <1>2 DEF Roster, Left, AnswersInv, HubInv, HubShapes
  <2> QED
    BY <2>1, FS_Subset DEF AnswersInv
<1> QED
  BY <1>1, <1>2, <1>3, <1>5, <1>6, OnlyItsAnswers DEF AnswersInv

LEMMA AnswersStep == AnswersInv /\ [HubNext]_hubVars => AnswersInv'
<1> SUFFICES ASSUME AnswersInv, [HubNext]_hubVars PROVE AnswersInv'
  OBVIOUS
<1>1. CASE UNCHANGED hubVars
  <2>1. HubInv'
    BY <1>1, HubNextHolds DEF AnswersInv
  <2>2. UNCHANGED <<said, handled, answers, name, todo, thread, peers>>
    BY <1>1 DEF hubVars
  <2> QED
    BY <2>1, <2>2, StillAnswers
<1>2. ASSUME NEW c \in Conns,
             Connect(c) \/ (\E l \in Talks[c] : Say(c, l)) \/ HangUp(c) \/ ThreadStep(c)
      PROVE  AnswersInv'
  <2>1. CASE HangUp(c)
    <3>1. HubInv'
      BY <2>1, PeerStep DEF AnswersInv
    <3>2. UNCHANGED <<said, handled, answers, name, todo, thread, peers>>
      BY <2>1 DEF HangUp
    <3> QED
      BY <3>1, <3>2, StillAnswers
  <2> QED
    BY <1>2, <2>1, ConnectAnswers, SayAnswers, JoinsAnswers, HandlesAnswers, WorksAnswers,
       EndsAnswers DEF ThreadStep
<1> QED
  BY <1>1, <1>2 DEF HubNext

LEMMA AnswersInitHolds == HubInit => AnswersInv
<1> SUFFICES ASSUME HubInit PROVE AnswersInv
  OBVIOUS
<1>1. HubInv
  BY HubInitHolds
<1>2. Roster = {}
  BY DEF HubInit, Roster
<1>3. IsFiniteSet(Roster)
  BY <1>2, FS_EmptySet
<1>4. ASSUME NEW c \in Conns PROVE Answering(c)
  <2>1. /\ todo[c] = <<>> /\ said[c] = <<>> /\ handled[c] = 0 /\ answers[c] = <<>>
        /\ name[c] = "" /\ thread[c] = "none"
    BY DEF HubInit
  <2>2. Owing(todo[c], c, answers[c], <<>>)
    BY <2>1, Nothing DEF Owing
  <2>3. handled[c] \in 0 .. Len(said[c])
    <3>1. handled[c] = 0 /\ Len(said[c]) = 0
      BY <2>1, Nothing
    <3> QED
      BY <3>1
  <2> QED
    BY <2>1, <2>2, <2>3, Nothing DEF Answering
<1> QED
  BY <1>1, <1>3, <1>4 DEF AnswersInv, HubInit

\* What a thread has written and what it owes are the answers to what it handled.
THEOREM HubAnswers == HubSpec => []AnswersInv
BY AnswersInitHolds, AnswersStep, PTL DEF HubSpec

\* Table, threads and names of the hub keep their shapes.
THEOREM HubTypes == HubSpec => []HubTypeOK
<1>1. AnswersInv => HubTypeOK
  BY DEF AnswersInv, Answering, HubInv, HubShapes, IdleThreads, Threads, HubTypeOK
<1> QED
  BY <1>1, HubAnswers, PTL

\* The lines of a connection are answered one by one and in order, for any
\* connections and lines, until its thread is ended.
THEOREM AnsweredInOrder == HubSpec => []LinesAnsweredInOrder
<1>1. AnswersInv => LinesAnsweredInOrder
  <2> SUFFICES ASSUME AnswersInv, NEW c \in Conns, thread[c] = "run"
               PROVE  /\ Cardinality(Asked(c)) = Len(answers[c]) + Cardinality(Owed(c))
                      /\ \A i \in Asked(c) :
                           LET n == Cardinality({j \in Asked(c) : j <= i})
                           IN IF n <= Len(answers[c])
                                THEN Suits(answers[c][n], said[c][i])
                                ELSE \A j \in Owed(c) : Suits(todo[c][j].text.kind, said[c][i])
    BY DEF LinesAnsweredInOrder
  <2>1. PICK a : Owing(todo[c], c, answers[c], a) /\ Fits(Asked(c), said[c], a)
    BY DEF AnswersInv, Answering
  <2>2. PICK w, l : w = answers[c] /\ l = Len(w)
    OBVIOUS
  <2>3. w \in Seq(AnswerKinds) /\ l \in Nat
    <3>1. w \in Seq(AnswerKinds)
      BY <2>2 DEF AnswersInv, Answering
    <3> QED
      BY <2>2, <3>1
  <2>4. PICK S : S = Asked(c)
    OBVIOUS
  <2>5. ASSUME NEW i \in S
        PROVE  Cardinality({j \in S : j <= i}) \in 1 .. Cardinality(S)
    <3>1. handled[c] \in Nat /\ S \in SUBSET (1 .. handled[c])
      <4>1. PICK T : said[c] \in Seq(T)
        BY DEF AnswersInv, Answering, IsSequence
      <4>2. handled[c] \in 0 .. Len(said[c])
        BY DEF AnswersInv, Answering
      <4> QED
        BY <2>4, <4>1, <4>2 DEF Asked
    <3>2. IsFiniteSet(S)
      <4>1. S \in SUBSET Nat /\ \A s \in S : s <= handled[c]
        BY <3>1
      <4> QED
        BY <3>1, <4>1, FS_BoundedSetOfNaturals
    <3>3. PICK R : R = {j \in S : j <= i}
      OBVIOUS
    <3>4. IsFiniteSet(R) /\ Cardinality(R) <= Cardinality(S) /\ R # {}
      BY <2>5, <3>1, <3>2, <3>3, FS_Subset
    <3> QED
      BY <3>2, <3>3, <3>4, FS_EmptySet, FS_CardinalityType
  <2>6. CASE OwesNothing(todo[c]) /\ a = w
    <3>1. Owed(c) = {}
      BY <2>6 DEF Owed, OwesNothing
    <3>2. Cardinality(Owed(c)) = 0
      BY <3>1, FS_EmptySet
    <3> QED
      BY <2>1, <2>2, <2>3, <2>4, <2>5, <2>6, <3>2 DEF Fits
  <2>7. ASSUME NEW k \in AnswerKinds, Owes(todo[c], c, k), a = Append(w, k)
        PROVE  /\ Cardinality(Asked(c)) = Len(answers[c]) + Cardinality(Owed(c))
               /\ \A i \in Asked(c) :
                    LET n == Cardinality({j \in Asked(c) : j <= i})
                    IN IF n <= Len(answers[c])
                         THEN Suits(answers[c][n], said[c][i])
                         ELSE \A j \in Owed(c) : Suits(todo[c][j].text.kind, said[c][i])
    <3>1. PICK o \in DOMAIN todo[c] : Owed(c) = {o} /\ todo[c][o].text.kind = k
      BY <2>7 DEF Owed, Owes
    <3>2. Cardinality(Owed(c)) = 1
      BY <3>1, FS_Singleton
    <3>3. Len(a) = l + 1 /\ a[l + 1] = k /\ \A n \in 1 .. l : a[n] = w[n]
      BY <2>2, <2>3, <2>7
    <3>4. Cardinality(S) = l + 1
      BY <2>1, <2>4, <3>3 DEF Fits
    <3>5. ASSUME NEW i \in S
          PROVE  LET n == Cardinality({j \in S : j <= i})
                 IN IF n <= l THEN Suits(w[n], said[c][i])
                              ELSE \A j \in Owed(c) : Suits(todo[c][j].text.kind, said[c][i])
      <4>1. PICK n \in 1 .. l + 1 : n = Cardinality({j \in S : j <= i})
        BY <2>5, <3>4, <3>5
      <4>2. Suits(a[n], said[c][i])
        BY <2>1, <2>4, <4>1 DEF Fits
      <4>3. CASE n <= l
        BY <3>3, <4>1, <4>2, <4>3
      <4>4. CASE n = l + 1
        BY <2>3, <3>1, <3>3, <4>1, <4>2, <4>4
      <4> QED
        BY <2>3, <4>3, <4>4
    <3> QED
      BY <2>2, <2>4, <3>2, <3>4, <3>5
  <2> QED
    BY <2>1, <2>2, <2>6, <2>7 DEF Owing
<1> QED
  BY <1>1, HubAnswers, PTL

-----------------------------------------------------------------------------
(* The scan of a message.                                                  *)

\* A set of naturals that has 0 and, with a number below n, the next one, has
\* all up to n.
LEMMA UpTo ==
  ASSUME NEW n \in Nat, NEW S, 0 \in S,
         \A k \in 1 .. n : k - 1 \in S => k \in S
  PROVE  0 .. n \subseteq S
<1> DEFINE W == {k \in 0 .. n : k \notin S}
<1> SUFFICES ASSUME W # {} PROVE FALSE
  OBVIOUS
<1>1. W # {} /\ W \subseteq Nat
  OBVIOUS
<1>2. PICK k \in W : \A j \in W : <<j, k>> \notin OpToRel(<, Nat)
  BY <1>1, NatLessThanWellFounded, WFMin
<1>3. k \in 1 .. n /\ k - 1 \in 0 .. n /\ k - 1 < k /\ k \notin S
  OBVIOUS
<1>4. k - 1 \in S
  <2>1. <<k - 1, k>> \in OpToRel(<, Nat)
    BY <1>1, <1>3 DEF OpToRel
  <2> QED
    BY <1>2, <1>3, <2>1
<1> QED
  BY <1>3, <1>4

\* The states of the scan of message m.
ScanStates(r, m) ==
  r = [i \in 0 .. Len(m.pieces) |-> IF i = 0 THEN Booted ELSE Scanned(r[i - 1], m.pieces[i])]

LEMMA ScanRuns ==
  ASSUME NEW m, Len(m.pieces) \in Nat
  PROVE  \E r : ScanStates(r, m) /\ ScanOf(m) = r[Len(m.pieces)]
<1> DEFINE Upto(r, k) == r = [i \in 0 .. k |-> IF i = 0 THEN Booted ELSE Scanned(r[i - 1], m.pieces[i])]
           S == {k \in 0 .. Len(m.pieces) : \E r : Upto(r, k)}
<1>1. 0 \in S
  <2>1. PICK r : r = [i \in 0 .. 0 |-> Booted]
    OBVIOUS
  <2>2. \A i \in 0 .. 0 : i = 0 /\ r[i] = Booted
    BY <2>1
  <2>3. Upto(r, 0)
    BY <2>1, <2>2
  <2> QED
    BY <2>3
<1>2. ASSUME NEW k \in 1 .. Len(m.pieces), k - 1 \in S PROVE k \in S
  <2>1. PICK r : Upto(r, k - 1)
    BY <1>2
  <2>2. PICK s : s = [i \in 0 .. k |-> IF i = k THEN Scanned(r[k - 1], m.pieces[k]) ELSE r[i]]
    OBVIOUS
  <2>3. \A i \in 0 .. k : s[i] = IF i = 0 THEN Booted ELSE Scanned(s[i - 1], m.pieces[i])
    BY <2>1, <2>2
  <2>4. Upto(s, k)
    BY <2>2, <2>3
  <2> QED
    BY <2>4
<1>3. Len(m.pieces) \in S
  <2>1. Len(m.pieces) \in 0 .. Len(m.pieces)
    OBVIOUS
  <2> HIDE DEF S
  <2> QED
    BY <1>1, <1>2, <2>1, UpTo
<1>4. \E r : ScanStates(r, m)
  BY <1>3 DEF ScanStates
<1>5. PICK r : r = CHOOSE s : ScanStates(s, m)
  OBVIOUS
<1>6. ScanStates(r, m)
  BY <1>4, <1>5
<1>7. ScanOf(m) = r[Len(m.pieces)]
  BY <1>5 DEF ScanOf, ScanStates
<1> QED
  BY <1>6, <1>7

\* The lines counted when the first k pieces are scanned: those handed on, and the
\* vanished ones, which are among them.
Counted(count, gone, k) ==
  /\ IsFiniteSet(gone) /\ gone \subseteq 1 .. k \div 2
  /\ count + Cardinality(gone) = k \div 2

\* One more is handed on, or has vanished.
LEMMA OneMoreCounted ==
  ASSUME NEW k \in Nat \ {0}, NEW count \in Nat, NEW gone, Counted(count, gone, k - 1), IsEnd(k)
  PROVE  Counted(count + 1, gone, k) /\ Counted(count, gone \cup {LineOf(k)}, k)
<1>1. PICK h \in Nat : h = k \div 2 /\ h = (k - 1) \div 2 + 1 /\ LineOf(k) = h
  BY DEF IsEnd, LineOf
<1>2. /\ IsFiniteSet(gone) /\ gone \subseteq 1 .. (h - 1) /\ count + Cardinality(gone) = h - 1
      /\ Cardinality(gone) \in Nat
  BY <1>1, FS_CardinalityType DEF Counted
<1>3. h \notin gone /\ gone \subseteq 1 .. h /\ h \in 1 .. h
  BY <1>1, <1>2
<1>4. IsFiniteSet(gone \cup {h}) /\ Cardinality(gone \cup {h}) = Cardinality(gone) + 1
  BY <1>2, <1>3, FS_AddElement
<1>5. Counted(count + 1, gone, k)
  BY <1>1, <1>2, <1>3 DEF Counted
<1>6. Counted(count, gone \cup {h}, k)
  BY <1>1, <1>2, <1>3, <1>4 DEF Counted
<1> QED
  BY <1>1, <1>5, <1>6

LEMMA NoMoreCounted ==
  ASSUME NEW k \in Nat \ {0}, NEW count, NEW gone, Counted(count, gone, k - 1), ~ IsEnd(k)
  PROVE  Counted(count, gone, k)
<1>1. k \div 2 = (k - 1) \div 2
  BY DEF IsEnd
<1> QED
  BY <1>1 DEF Counted

\* A state of the scan after the first k pieces.
Scan(st, k) ==
  /\ st = [line |-> st.line, client |-> st.client, up |-> st.up, wait |-> st.wait,
           roster |-> st.roster, out |-> st.out, gone |-> st.gone]
  /\ \E T : st.out \in Seq(T)
  /\ Counted(handed + Len(st.out), st.gone, k)
  /\ st.client = IF st.out = <<>> THEN client ELSE NoCaller

LEMMA ScannedNext ==
  ASSUME handed \in Nat, NEW k \in Nat \ {0}, NEW st, Scan(st, k - 1)
  PROVE  Scan(Scanned(st, k), k)
<1>1. PICK T : st.out \in Seq(T)
  BY DEF Scan
<1>a. PICK count \in Nat : count = handed + Len(st.out)
  BY <1>1
<1>b. Counted(count, st.gone, k - 1)
  BY <1>a DEF Scan
<1>2. CASE ~ IsEnd(k)
  <2>1. Counted(count, st.gone, k)
    BY <1>2, <1>b, NoMoreCounted
  <2>2. Scanned(st, k) = [st EXCEPT !.line = Append(@, k)]
    BY <1>2 DEF Scanned
  <2> QED
    BY <1>1, <1>a, <2>1, <2>2 DEF Scan
<1>3. ASSUME IsEnd(k), st.client = NoCaller /\ st.line = <<>> /\ LineOf(k) \in bare
      PROVE  Scan(Scanned(st, k), k)
  <2>1. Scanned(st, k) = [st EXCEPT !.gone = @ \cup {LineOf(k)}]
    BY <1>3 DEF Scanned, Ended
  <2>2. Counted(count, st.gone \cup {LineOf(k)}, k)
    BY <1>3, <1>b, OneMoreCounted
  <2> QED
    BY <1>1, <1>a, <2>1, <2>2 DEF Scan
<1>4. ASSUME IsEnd(k), ~ (st.client = NoCaller /\ st.line = <<>> /\ LineOf(k) \in bare)
      PROVE  Scan(Scanned(st, k), k)
  <2>2. PICK new : new = Scanned(st, k)
    OBVIOUS
  <2>3. PICK t : new.out = Append(st.out, t)
    BY <1>4, <2>2 DEF Scanned, Ended, Scan
  <2>4. /\ new = [line |-> new.line, client |-> new.client, up |-> new.up, wait |-> new.wait,
                  roster |-> new.roster, out |-> new.out, gone |-> new.gone]
        /\ new.client = NoCaller /\ new.gone = st.gone
    BY <1>4, <2>2 DEF Scanned, Ended, Scan
  <2>5. st.out \in Seq(T \cup {t})
    BY <1>1
  <2>6. /\ new.out \in Seq(T \cup {t}) /\ new.out # <<>>
        /\ Len(new.out) = Len(st.out) + 1
    BY <2>3, <2>5
  <2>7. Counted(count + 1, st.gone, k)
    BY <1>4, <1>b, OneMoreCounted
  <2>8. handed + Len(new.out) = count + 1
    BY <1>a, <2>6, <1>1
  <2>9. Scan(new, k)
    BY <2>4, <2>6, <2>7, <2>8 DEF Scan
  <2> QED
    BY <2>2, <2>9
<1> QED
  BY <1>2, <1>3, <1>4

PieceByPiece(r, a, n) ==
  r[0] = Booted /\ \A k \in 1 .. n : r[k] = Scanned(r[k - 1], a + k)

\* The pieces behind piece a are scanned one by one.
LEMMA ScanSteps ==
  ASSUME NEW a \in Nat, NEW n \in Nat, NEW m, Len(m.pieces) = n,
         \A i \in 1 .. n : m.pieces[i] = a + i
  PROVE  \E r : PieceByPiece(r, a, n) /\ ScanOf(m) = r[n]
<1>1. PICK r : ScanStates(r, m) /\ ScanOf(m) = r[n]
  BY ScanRuns
<1>2. /\ r[0] = Booted
      /\ \A k \in 1 .. n : r[k] = Scanned(r[k - 1], a + k)
  <2>1. r = [i \in 0 .. n |-> IF i = 0 THEN Booted ELSE Scanned(r[i - 1], m.pieces[i])]
    BY <1>1 DEF ScanStates
  <2>2. r[0] = Booted
    BY <2>1
  <2>3. ASSUME NEW k \in 1 .. n PROVE r[k] = Scanned(r[k - 1], a + k)
    <3>1. k \in 0 .. n /\ k # 0 /\ m.pieces[k] = a + k
      OBVIOUS
    <3>2. r[k] = Scanned(r[k - 1], m.pieces[k])
      BY <2>1, <3>1
    <3> QED
      BY <3>1, <3>2
  <2> QED
    BY <2>2, <2>3
<1> QED
  BY <1>1, <1>2 DEF PieceByPiece

LEMMA BootedScans ==
  ASSUME handed \in Nat, NEW a \in Nat, Counted(handed, vanished, a)
  PROVE  Scan(Booted, a)
<1>1. /\ Booted.out = <<>> /\ Booted.client = client /\ Booted.gone = vanished
      /\ Booted = [line |-> Booted.line, client |-> Booted.client, up |-> Booted.up,
                   wait |-> Booted.wait, roster |-> Booted.roster, out |-> Booted.out,
                   gone |-> Booted.gone]
  BY DEF Booted
<1>2. Booted.out \in Seq({}) /\ handed + Len(Booted.out) = handed
  BY <1>1
<1> QED
  BY <1>1, <1>2 DEF Scan

LEMMA ScanEnds ==
  ASSUME handed \in Nat, NEW a \in Nat, NEW n \in Nat, NEW m, Len(m.pieces) = n,
         \A i \in 1 .. n : m.pieces[i] = a + i, Counted(handed, vanished, a)
  PROVE  Scan(ScanOf(m), a + n)
<1>1. PICK r : PieceByPiece(r, a, n) /\ ScanOf(m) = r[n]
  BY ScanSteps
<1> DEFINE S == {k \in 0 .. n : Scan(r[k], a + k)}
<1>2. 0 \in S
  <2>1. Scan(Booted, a) /\ a + 0 = a
    BY BootedScans
  <2> QED
    BY <1>1, <2>1 DEF PieceByPiece
<1>3. ASSUME NEW k \in 1 .. n, k - 1 \in S PROVE k \in S
  <2>1. Scan(r[k - 1], a + k - 1) /\ a + k \in Nat \ {0}
    <3>1. a + (k - 1) = a + k - 1
      OBVIOUS
    <3> QED
      BY <1>3, <3>1
  <2>2. Scan(Scanned(r[k - 1], a + k), a + k)
    BY <2>1, ScannedNext
  <2> QED
    BY <1>1, <2>2 DEF PieceByPiece
<1>4. n \in S
  <2>1. n \in 0 .. n
    OBVIOUS
  <2> HIDE DEF S
  <2> QED
    BY <1>2, <1>3, <2>1, UpTo
<1> QED
  BY <1>1, <1>4

-----------------------------------------------------------------------------
(* The queue of the link server.                                           *)

\* The link server under any hub.
LinkSpec == LinkInit /\ [][LinkStep \/ \E lineIn : HubWrites(lineIn)]_linkVars

LinkMessages ==
  [type : {"RX"}, pieces : Seq(Nat)] \cup [type : {"SEND"}, from : Callers, cmd : Commands]

LinkShapes ==
  /\ linkInbox \in Seq(LinkMessages)
  /\ client \in Callers \cup {NoCaller}
  /\ call \in [Callers -> Commands \cup {NoCall}]
  /\ got \in Nat /\ handed \in Nat

Asks(i, c) == linkInbox[i].type = "SEND" /\ linkInbox[i].from = c

\* A request in the queue is the only one of a call in progress, whose task is
\* not the client; the other tasks in a call are, or have a request.
CallsQueued ==
  /\ \A i \in DOMAIN linkInbox : \A c \in Callers :
       Asks(i, c) => call[c] # NoCall /\ client # c
  /\ \A i, j \in DOMAIN linkInbox : \A c \in Callers : Asks(i, c) /\ Asks(j, c) => i = j
  /\ \A c \in Callers : call[c] # NoCall => client = c \/ \E i \in DOMAIN linkInbox : Asks(i, c)
  /\ client # NoCaller => call[client] # NoCall

Brings(i) == linkInbox[i].type = "RX"

\* The pieces of a message are the last that were read.
LastRead(i) ==
  LET n == Len(linkInbox[i].pieces)
  IN /\ n <= got /\ linkInbox[i].pieces = [k \in 1 .. n |-> got - n + k]
     /\ Counted(handed, vanished, got - n)

\* The notifier has at most one message in the queue, and is in its Send.  What it
\* read before has been scanned.
PiecesQueued ==
  /\ \A i, j \in DOMAIN linkInbox : Brings(i) /\ Brings(j) => i = j
  /\ \A i \in DOMAIN linkInbox : Brings(i) => /\ rxNotifier \in {"sent", "sentNothing"}
                                              /\ LastRead(i)
  /\ (\A i \in DOMAIN linkInbox : ~ Brings(i)) => Counted(handed, vanished, got)

LinkInv == LinkShapes /\ CallsQueued /\ PiecesQueued

\* One more message.
LEMMA Arrived ==
  ASSUME linkInbox \in Seq(LinkMessages), NEW m \in LinkMessages, linkInbox' = Append(linkInbox, m)
  PROVE  /\ linkInbox' \in Seq(LinkMessages)
         /\ \E last : /\ DOMAIN linkInbox' = DOMAIN linkInbox \cup {last}
                      /\ last \notin DOMAIN linkInbox
                      /\ \A i \in DOMAIN linkInbox : linkInbox'[i] = linkInbox[i]
                      /\ linkInbox'[last] = m
<1>1. PICK last : last = Len(linkInbox) + 1
  OBVIOUS
<1>2. /\ DOMAIN linkInbox' = DOMAIN linkInbox \cup {last} /\ last \notin DOMAIN linkInbox
      /\ \A i \in DOMAIN linkInbox : linkInbox'[i] = linkInbox[i]
      /\ linkInbox'[last] = m
  BY <1>1
<1> QED
  BY <1>2

\* One message less.
LEMMA Received ==
  ASSUME linkInbox \in Seq(LinkMessages), linkInbox # <<>>, linkInbox' = Tail(linkInbox)
  PROVE  /\ linkInbox' \in Seq(LinkMessages) /\ Len(linkInbox) \in Nat
         /\ DOMAIN linkInbox = 1 .. Len(linkInbox) /\ 1 \in DOMAIN linkInbox
         /\ DOMAIN linkInbox' = 1 .. (Len(linkInbox) - 1)
         /\ \A i \in DOMAIN linkInbox' : /\ i + 1 \in DOMAIN linkInbox
                                         /\ linkInbox'[i] = linkInbox[i + 1]
         /\ \A i \in DOMAIN linkInbox : i # 1 => /\ i - 1 \in DOMAIN linkInbox'
                                                 /\ linkInbox'[i - 1] = linkInbox[i]
         /\ Head(linkInbox) = linkInbox[1] /\ linkInbox[1] \in LinkMessages
OBVIOUS

LEMMA LinkInitHolds == LinkInit => LinkInv
<1>1. Counted(0, {}, 0)
  <2>1. IsFiniteSet({}) /\ Cardinality({}) = 0 /\ 0 \div 2 = 0
    BY FS_EmptySet
  <2> QED
    BY <2>1 DEF Counted
<1> QED
  BY <1>1 DEF LinkInit, LinkInv, LinkShapes, CallsQueued, PiecesQueued

\* A step that leaves queue, calls and pieces alone.
LEMMA LinkQuiet ==
  ASSUME LinkInv, UNCHANGED <<linkInbox, client, call, got, handed, vanished>>,
         rxNotifier' = rxNotifier \/ rxNotifier = "delay"
  PROVE  LinkInv'
<1>1. LinkShapes' /\ CallsQueued'
  BY DEF LinkInv, LinkShapes, CallsQueued, Asks
<1>2. \A i \in DOMAIN linkInbox : (Brings(i)' <=> Brings(i)) /\ (LastRead(i)' <=> LastRead(i))
  BY DEF Brings, LastRead
<1>3. PiecesQueued'
  BY <1>2 DEF LinkInv, PiecesQueued
<1> QED
  BY <1>1, <1>3 DEF LinkInv

LEMMA LinkSendStep ==
  ASSUME LinkInv, NEW c \in Callers, NEW m \in Commands, LinkSend(c, m)
  PROVE  LinkInv'
<1>1. /\ call[c] = NoCall /\ call' = [call EXCEPT ![c] = m]
      /\ linkInbox' = Append(linkInbox, Request(c, m))
      /\ UNCHANGED <<client, got, handed, vanished, rxNotifier>>
  BY DEF LinkSend, lineFates
<1>2. Request(c, m) \in LinkMessages /\ Request(c, m).type = "SEND" /\ Request(c, m).from = c
  BY DEF Request, LinkMessages
<1>3. linkInbox \in Seq(LinkMessages) /\ call \in [Callers -> Commands \cup {NoCall}]
  BY DEF LinkInv, LinkShapes
<1>4. linkInbox' \in Seq(LinkMessages)
  BY <1>1, <1>2, <1>3, Arrived
<1>a. PICK last : /\ DOMAIN linkInbox' = DOMAIN linkInbox \cup {last}
                  /\ last \notin DOMAIN linkInbox
                  /\ \A i \in DOMAIN linkInbox : linkInbox'[i] = linkInbox[i]
                  /\ linkInbox'[last] = Request(c, m)
  BY <1>1, <1>2, <1>3, Arrived
<1>5. m # NoCall /\ call'[c] = m /\ \A d \in Callers : d # c => call'[d] = call[d]
  BY <1>1, <1>3, LinkAssumption DEF LinkAssumption
<1>6. \A i \in DOMAIN linkInbox : ~ Asks(i, c)
  BY <1>1 DEF LinkInv, CallsQueued
<1>7. client # c
  BY <1>1, LinkAssumption DEF LinkInv, CallsQueued, LinkAssumption
<1>8. /\ \A i \in DOMAIN linkInbox : \A d \in Callers : Asks(i, d)' <=> Asks(i, d)
      /\ \A d \in Callers : Asks(last, d)' <=> d = c
  BY <1>2, <1>a DEF Asks
<1>b. /\ \A i \in DOMAIN linkInbox : (Brings(i)' <=> Brings(i)) /\ (LastRead(i)' <=> LastRead(i))
      /\ ~ Brings(last)'
  BY <1>1, <1>2, <1>a DEF Brings, LastRead
<1>9. LinkShapes'
  BY <1>1, <1>4 DEF LinkInv, LinkShapes
<1>10. CallsQueued'
  <2>1. \A i \in DOMAIN linkInbox' : \A d \in Callers : Asks(i, d)' => call'[d] # NoCall /\ client' # d
    BY <1>1, <1>5, <1>7, <1>8, <1>a DEF LinkInv, CallsQueued
  <2>2. \A i, j \in DOMAIN linkInbox' : \A d \in Callers : Asks(i, d)' /\ Asks(j, d)' => i = j
    BY <1>6, <1>8, <1>a DEF LinkInv, CallsQueued
  <2>3. ASSUME NEW d \in Callers, call'[d] # NoCall
        PROVE  client' = d \/ \E i \in DOMAIN linkInbox' : Asks(i, d)'
    <3>1. CASE d = c
      BY <1>8, <1>a, <3>1
    <3>2. CASE d # c
      <4>1. client = d \/ \E i \in DOMAIN linkInbox : Asks(i, d)
        BY <1>5, <2>3, <3>2 DEF LinkInv, CallsQueued
      <4> QED
        BY <1>1, <1>8, <1>a, <4>1
    <3> QED
      BY <3>1, <3>2
  <2>4. client' # NoCaller => call'[client'] # NoCall
    BY <1>1, <1>5 DEF LinkInv, LinkShapes, CallsQueued
  <2> QED
    BY <2>1, <2>2, <2>3, <2>4 DEF CallsQueued
<1>11. PiecesQueued'
  BY <1>1, <1>a, <1>b DEF LinkInv, PiecesQueued
<1> QED
  BY <1>9, <1>10, <1>11 DEF LinkInv

LEMMA LinkReadsStep ==
  ASSUME LinkInv, LinkNotifierReads
  PROVE  LinkInv'
<1>1. PICK n \in 0 .. MaxPieces :
        /\ got' = got + n /\ rxNotifier = "read" /\ rxNotifier' \in {"sent", "sentNothing"}
        /\ linkInbox' = Append(linkInbox, Rx([i \in 1 .. n |-> got + i]))
        /\ UNCHANGED <<client, call, handed, vanished>>
  BY DEF LinkNotifierReads
<1>2. n \in Nat /\ got \in Nat /\ linkInbox \in Seq(LinkMessages)
  BY LinkAssumption DEF LinkAssumption, LinkInv, LinkShapes
<1>3. PICK p : p = [i \in 1 .. n |-> got + i]
  OBVIOUS
<1>4. p \in Seq(Nat) /\ Len(p) = n
  BY <1>2, <1>3
<1>5. Rx(p) \in LinkMessages /\ Rx(p).type = "RX" /\ Rx(p).pieces = p
  BY <1>4 DEF Rx, LinkMessages
<1>6. linkInbox' \in Seq(LinkMessages)
  BY <1>1, <1>2, <1>3, <1>5, Arrived
<1>a. PICK last : /\ DOMAIN linkInbox' = DOMAIN linkInbox \cup {last}
                  /\ last \notin DOMAIN linkInbox
                  /\ \A i \in DOMAIN linkInbox : linkInbox'[i] = linkInbox[i]
                  /\ linkInbox'[last] = Rx(p)
  BY <1>1, <1>2, <1>3, <1>5, Arrived
<1>7. (\A i \in DOMAIN linkInbox : ~ Brings(i)) /\ Counted(handed, vanished, got)
  BY <1>1 DEF LinkInv, PiecesQueued
<1>8. /\ \A i \in DOMAIN linkInbox : \A d \in Callers : Asks(i, d)' <=> Asks(i, d)
      /\ \A d \in Callers : ~ Asks(last, d)'
      /\ \A i \in DOMAIN linkInbox' : Brings(i)' => i = last
      /\ Brings(last)'
  BY <1>5, <1>7, <1>a DEF Asks, Brings
<1>9. LinkShapes'
  BY <1>1, <1>2, <1>6 DEF LinkInv, LinkShapes
<1>10. CallsQueued'
  BY <1>1, <1>8, <1>a DEF LinkInv, CallsQueued
<1>11. PiecesQueued'
  <2>1. LastRead(last)'
    <3>0. got' - n = got
      BY <1>1, <1>2
    <3>1. p = [k \in 1 .. n |-> got' - n + k] /\ n <= got' /\ Counted(handed, vanished, got' - n)
      BY <1>1, <1>2, <1>3, <1>7, <3>0
    <3>2. linkInbox'[last].pieces = p /\ Len(p) = n /\ handed' = handed /\ vanished' = vanished
      BY <1>1, <1>4, <1>5, <1>a
    <3>3. LastRead(last)' <=>
            LET n2 == Len(linkInbox'[last].pieces)
            IN /\ n2 <= got' /\ linkInbox'[last].pieces = [k \in 1 .. n2 |-> got' - n2 + k]
               /\ Counted(handed', vanished', got' - n2)
      BY DEF LastRead
    <3> QED
      BY <3>1, <3>2, <3>3
  <2> QED
    BY <1>1, <1>8, <1>a, <2>1 DEF PiecesQueued
<1> QED
  BY <1>9, <1>10, <1>11 DEF LinkInv

\* A request is refused, or makes its task the client.
LEMMA RequestServed ==
  ASSUME LinkInv, LinkServes, ServeLinkSend
  PROVE  LinkInv'
<1>1. linkInbox # <<>> /\ linkInbox' = Tail(linkInbox) /\ linkInbox \in Seq(LinkMessages)
      /\ UNCHANGED <<got, handed, vanished, rxNotifier>>
  BY DEF LinkServes, ServeLinkSend, LinkInv, LinkShapes
<1>2. /\ linkInbox' \in Seq(LinkMessages) /\ 1 \in DOMAIN linkInbox
      /\ \A i \in DOMAIN linkInbox' : /\ i + 1 \in DOMAIN linkInbox /\ i + 1 # 1
                                      /\ linkInbox'[i] = linkInbox[i + 1]
      /\ \A i \in DOMAIN linkInbox : i # 1 => /\ i - 1 \in DOMAIN linkInbox'
                                              /\ linkInbox'[i - 1] = linkInbox[i]
      /\ Head(linkInbox) = linkInbox[1] /\ linkInbox[1] \in LinkMessages
  BY <1>1, Received
<1>3. PICK c \in Callers : Head(linkInbox).from = c /\ Asks(1, c) /\ ~ Brings(1)
  <2>1. linkInbox[1].type = "SEND"
    BY <1>2 DEF ServeLinkSend
  <2> QED
    BY <1>2, <2>1 DEF LinkMessages, Asks, Brings
<1>4. /\ \A i \in DOMAIN linkInbox' :
           /\ \A d \in Callers : Asks(i, d)' <=> Asks(i + 1, d)
           /\ Brings(i)' <=> Brings(i + 1)
           /\ LastRead(i)' <=> LastRead(i + 1)
      /\ \A i \in DOMAIN linkInbox' : ~ Asks(i, c)'
      /\ \A i, j \in DOMAIN linkInbox' : i + 1 = j + 1 => i = j
  <2>1. \A i \in DOMAIN linkInbox' : \A d \in Callers : Asks(i, d)' <=> Asks(i + 1, d)
    BY <1>2 DEF Asks
  <2>2. \A i \in DOMAIN linkInbox' : ~ Asks(i, c)'
    BY <1>2, <1>3, <2>1 DEF LinkInv, CallsQueued
  <2>3. \A i \in DOMAIN linkInbox' : (Brings(i)' <=> Brings(i + 1)) /\ (LastRead(i)' <=> LastRead(i + 1))
    BY <1>1, <1>2 DEF Brings, LastRead
  <2>4. \A i, j \in DOMAIN linkInbox' : i + 1 = j + 1 => i = j
    BY <1>2
  <2> QED
    BY <2>1, <2>2, <2>3, <2>4
<1>5. /\ client' \in Callers \cup {NoCaller} /\ call' \in [Callers -> Commands \cup {NoCall}]
      /\ \A d \in Callers : d # c => call'[d] = call[d]
      /\ \/ client' = client /\ client # c /\ call'[c] = NoCall
         \/ client = NoCaller /\ client' = c /\ call'[c] # NoCall
  <2>1. call[c] # NoCall /\ client # c
    BY <1>2, <1>3 DEF LinkInv, CallsQueued
  <2> QED
    BY <1>3, <2>1 DEF ServeLinkSend, Refused, LinkInv, LinkShapes
<1>6. LinkShapes'
  BY <1>1, <1>2, <1>5 DEF LinkInv, LinkShapes
<1>7. CallsQueued'
  <2>1. ASSUME NEW i \in DOMAIN linkInbox', NEW d \in Callers, Asks(i, d)'
        PROVE  call'[d] # NoCall /\ client' # d
    <3>1. d # c /\ Asks(i + 1, d)
      BY <1>4, <2>1
    <3>2. call[d] # NoCall /\ client # d
      BY <1>2, <3>1 DEF LinkInv, CallsQueued
    <3> QED
      BY <1>5, <3>1, <3>2
  <2>2. \A i, j \in DOMAIN linkInbox' : \A d \in Callers : Asks(i, d)' /\ Asks(j, d)' => i = j
    BY <1>2, <1>4 DEF LinkInv, CallsQueued
  <2>3. ASSUME NEW d \in Callers, call'[d] # NoCall
        PROVE  client' = d \/ \E i \in DOMAIN linkInbox' : Asks(i, d)'
    <3>1. CASE d = c
      BY <1>5, <2>3, <3>1
    <3>2. CASE d # c
      <4>1. client = d \/ \E i \in DOMAIN linkInbox : Asks(i, d)
        BY <1>5, <2>3, <3>2 DEF LinkInv, CallsQueued
      <4>2. CASE client = d
        BY <1>5, <4>2, LinkAssumption DEF LinkAssumption
      <4>3. ASSUME NEW i \in DOMAIN linkInbox, Asks(i, d) PROVE \E j \in DOMAIN linkInbox' : Asks(j, d)'
        <5>1. i # 1
          BY <1>3, <3>2, <4>3 DEF Asks
        <5>2. i - 1 \in DOMAIN linkInbox' /\ linkInbox'[i - 1] = linkInbox[i]
          BY <1>2, <5>1
        <5> QED
          BY <4>3, <5>2 DEF Asks
      <4> QED
        BY <4>1, <4>2, <4>3
    <3> QED
      BY <3>1, <3>2
  <2>4. client' # NoCaller => call'[client'] # NoCall
    BY <1>5 DEF LinkInv, LinkShapes, CallsQueued
  <2> QED
    BY <2>1, <2>2, <2>3, <2>4 DEF CallsQueued
<1>8. PiecesQueued'
  <2>1. \A i, j \in DOMAIN linkInbox' : Brings(i)' /\ Brings(j)' => i = j
    BY <1>2, <1>4 DEF LinkInv, PiecesQueued
  <2>2. \A i \in DOMAIN linkInbox' : Brings(i)' => /\ rxNotifier' \in {"sent", "sentNothing"}
                                                   /\ LastRead(i)'
    BY <1>1, <1>2, <1>4 DEF LinkInv, PiecesQueued
  <2>3. ASSUME \A i \in DOMAIN linkInbox' : ~ Brings(i)' PROVE Counted(handed, vanished, got)'
    <3>1. \A i \in DOMAIN linkInbox : ~ Brings(i)
      <4> TAKE i \in DOMAIN linkInbox
      <4>1. CASE i = 1
        BY <1>3, <4>1
      <4>2. CASE i # 1
        BY <1>2, <2>3, <4>2 DEF Brings
      <4> QED
        BY <4>1, <4>2
    <3> QED
      BY <1>1, <3>1 DEF LinkInv, PiecesQueued
  <2> QED
    BY <2>1, <2>2, <2>3 DEF PiecesQueued
<1> QED
  BY <1>6, <1>7, <1>8 DEF LinkInv

\* What was read is scanned, and the client answered once at most.
LEMMA RxServed ==
  ASSUME LinkInv, LinkServes, ServeLinkRx
  PROVE  LinkInv'
<1>1. linkInbox # <<>> /\ linkInbox' = Tail(linkInbox) /\ linkInbox \in Seq(LinkMessages)
      /\ got' = got /\ got \in Nat /\ handed \in Nat
  BY DEF LinkServes, LinkInv, LinkShapes
<1>2. /\ linkInbox' \in Seq(LinkMessages) /\ 1 \in DOMAIN linkInbox
      /\ \A i \in DOMAIN linkInbox' : /\ i + 1 \in DOMAIN linkInbox /\ i + 1 # 1
                                      /\ linkInbox'[i] = linkInbox[i + 1]
      /\ \A i \in DOMAIN linkInbox : i # 1 => /\ i - 1 \in DOMAIN linkInbox'
                                              /\ linkInbox'[i - 1] = linkInbox[i]
      /\ Head(linkInbox) = linkInbox[1] /\ linkInbox[1] \in LinkMessages
  BY <1>1, Received
<1>a. PICK m : m = linkInbox[1]
  OBVIOUS
<1>b. PICK n : n = Len(m.pieces)
  OBVIOUS
<1>c. PICK st : st = ScanOf(m)
  OBVIOUS
<1>3. m.type = "RX" /\ Brings(1) /\ m.pieces \in Seq(Nat)
  BY <1>2, <1>a DEF ServeLinkRx, Brings, LinkMessages
<1>4. /\ n \in Nat /\ n <= got /\ m.pieces = [k \in 1 .. n |-> got - n + k]
      /\ Counted(handed, vanished, got - n)
  <2>1. LastRead(1)
    BY <1>2, <1>3 DEF LinkInv, PiecesQueued
  <2> QED
    BY <1>3, <1>a, <1>b, <2>1 DEF LastRead
<1>5. Scan(st, got)
  <2>1. PICK a \in Nat : a = got - n
    BY <1>1, <1>4
  <2>2. Len(m.pieces) = n /\ \A k \in 1 .. n : m.pieces[k] = a + k
    BY <1>4, <2>1
  <2>3. Scan(ScanOf(m), a + n)
    BY <1>1, <1>4, <2>1, <2>2, ScanEnds
  <2>4. a + n = got
    BY <1>1, <1>4, <2>1
  <2> QED
    BY <1>c, <2>3, <2>4
<1>6. Counted(handed', vanished', got') /\ handed' \in Nat
  <2>1. handed' = handed + Len(st.out) /\ vanished' = st.gone
    BY <1>2, <1>a, <1>c DEF ServeLinkRx
  <2>2. Len(st.out) \in Nat
    BY <1>5 DEF Scan
  <2> QED
    BY <1>1, <1>5, <2>1, <2>2 DEF Scan
<1>7. /\ call' \in [Callers -> Commands \cup {NoCall}]
      /\ \A d \in Callers : d # client => call'[d] = call[d]
      /\ \/ client' = client /\ call' = call
         \/ client' = NoCaller /\ (client \in Callers => call'[client] = NoCall)
  <2>1. st.client = IF st.out = <<>> THEN client ELSE NoCaller
    BY <1>5 DEF Scan
  <2>2. /\ client' = IF TimedOut(st) THEN NoCaller ELSE st.client
        /\ call' = [c \in Callers |->
                      IF c = client /\ (st.out # <<>> \/ TimedOut(st)) THEN NoCall ELSE call[c]]
    BY <1>2, <1>a, <1>c DEF ServeLinkRx
  <2>3. call \in [Callers -> Commands \cup {NoCall}]
    BY DEF LinkInv, LinkShapes
  <2>4. CASE st.out # <<>> \/ TimedOut(st)
    BY <2>1, <2>2, <2>3, <2>4
  <2>5. CASE ~ (st.out # <<>> \/ TimedOut(st))
    BY <2>1, <2>2, <2>3, <2>5
  <2> QED
    BY <2>4, <2>5
<1>8. LinkShapes'
  BY <1>1, <1>2, <1>6, <1>7 DEF LinkInv, LinkShapes
<1>9. CallsQueued'
  <2>1. \A i \in DOMAIN linkInbox' : \A d \in Callers : Asks(i, d)' <=> Asks(i + 1, d)
    BY <1>2 DEF Asks
  <2>2. ASSUME NEW i \in DOMAIN linkInbox', NEW d \in Callers, Asks(i, d)'
        PROVE  call'[d] # NoCall /\ client' # d
    <3>1. call[d] # NoCall /\ client # d
      BY <1>2, <2>1, <2>2 DEF LinkInv, CallsQueued
    <3> QED
      BY <1>7, <3>1, LinkAssumption DEF LinkAssumption
  <2>3. \A i, j \in DOMAIN linkInbox' : \A d \in Callers : Asks(i, d)' /\ Asks(j, d)' => i = j
    <3>1. \A i, j \in DOMAIN linkInbox' : i + 1 = j + 1 => i = j
      BY <1>2
    <3> QED
      BY <1>2, <2>1, <3>1 DEF LinkInv, CallsQueued
  <2>4. ASSUME NEW d \in Callers, call'[d] # NoCall
        PROVE  client' = d \/ \E i \in DOMAIN linkInbox' : Asks(i, d)'
    <3>1. CASE d = client
      BY <1>7, <2>4, <3>1
    <3>2. CASE d # client
      <4>1. PICK i \in DOMAIN linkInbox : Asks(i, d)
        BY <1>7, <2>4, <3>2 DEF LinkInv, CallsQueued
      <4>2. i # 1
        BY <1>3, <4>1 DEF Asks, Brings
      <4>3. i - 1 \in DOMAIN linkInbox' /\ linkInbox'[i - 1] = linkInbox[i]
        BY <1>2, <4>2
      <4> QED
        BY <4>1, <4>3 DEF Asks
    <3> QED
      BY <3>1, <3>2
  <2>5. client' # NoCaller => call'[client'] # NoCall
    BY <1>7 DEF LinkInv, CallsQueued
  <2> QED
    BY <2>2, <2>3, <2>4, <2>5 DEF CallsQueued
<1>10. PiecesQueued'
  <2>1. \A i \in DOMAIN linkInbox' : ~ Brings(i)'
    BY <1>2, <1>3 DEF LinkInv, PiecesQueued, Brings
  <2> QED
    BY <1>1, <1>6, <2>1 DEF PiecesQueued
<1> QED
  BY <1>8, <1>9, <1>10 DEF LinkInv

LEMMA LinkInvStep == LinkInv /\ [LinkStep \/ \E lineIn : HubWrites(lineIn)]_linkVars => LinkInv'
<1> SUFFICES ASSUME LinkInv, [LinkStep \/ \E lineIn : HubWrites(lineIn)]_linkVars PROVE LinkInv'
  OBVIOUS
<1>1. CASE LinkNotifierWakes \/ TimePasses \/ (\E lineIn : HubWrites(lineIn)) \/ UNCHANGED linkVars
  <2>1. UNCHANGED <<linkInbox, client, call, got, handed, vanished>>
    BY <1>1 DEF LinkNotifierWakes, TimePasses, HubWrites, linkVars, lineFates
  <2>2. rxNotifier' = rxNotifier \/ rxNotifier = "delay"
    BY <1>1 DEF LinkNotifierWakes, TimePasses, HubWrites, linkVars
  <2> QED
    BY <2>1, <2>2, LinkQuiet
<1>2. CASE LinkNotifierReads
  BY <1>2, LinkReadsStep
<1>3. CASE LinkServes
  BY <1>3, RequestServed, RxServed DEF LinkServes
<1>4. ASSUME NEW c \in Callers, NEW m \in Commands, LinkSend(c, m) PROVE LinkInv'
  BY <1>4, LinkSendStep
<1> QED
  BY <1>1, <1>2, <1>3, <1>4 DEF LinkStep, LinkNotifierMoves

\* The queue of the link server holds what LinkInv says.
THEOREM LinkInvariance == LinkSpec => []LinkInv
BY LinkInitHolds, LinkInvStep, PTL DEF LinkSpec

LEMMA InvAnswers == LinkInv => OneAnswerPerCall
<1> SUFFICES ASSUME LinkInv, NEW c \in Callers
             PROVE  Queued(c) + (IF client = c THEN 1 ELSE 0) = IF call[c] # NoCall THEN 1 ELSE 0
  BY DEF OneAnswerPerCall
<1>1. PICK Q : Q = {i \in DOMAIN linkInbox : Asks(i, c)}
  OBVIOUS
<1>2. Queued(c) = Cardinality(Q)
  BY <1>1 DEF Queued, Asks
<1>3. NoCaller \notin Callers
  BY LinkAssumption DEF LinkAssumption
<1>4. CASE Q = {}
  <2>1. Cardinality(Q) = 0
    BY <1>4, FS_EmptySet
  <2>2. call[c] # NoCall <=> client = c
    BY <1>1, <1>3, <1>4 DEF LinkInv, CallsQueued
  <2> QED
    BY <1>2, <2>1, <2>2
<1>5. ASSUME NEW i \in Q PROVE Queued(c) + (IF client = c THEN 1 ELSE 0) = IF call[c] # NoCall THEN 1 ELSE 0
  <2>1. Q = {i} /\ call[c] # NoCall /\ client # c
    BY <1>1, <1>5 DEF LinkInv, CallsQueued
  <2>2. Cardinality(Q) = 1
    BY <2>1, FS_Singleton
  <2> QED
    BY <1>2, <2>1, <2>2
<1> QED
  BY <1>4, <1>5

\* The even numbers of an interval.
LEMMA Evens ==
  ASSUME NEW a \in Nat, NEW b \in Nat, a <= b
  PROVE  Cardinality({p \in a + 1 .. b : IsEnd(p)}) = b \div 2 - a \div 2
<1>1. PICK l \in Nat, h \in Nat : l = a \div 2 /\ h = b \div 2 /\ l <= h
  OBVIOUS
<1> DEFINE E == {p \in a + 1 .. b : IsEnd(p)}
           f == [k \in l + 1 .. h |-> 2 * k]
<1>2. f \in Bijection(l + 1 .. h, E)
  <2>1. \A k \in l + 1 .. h : 2 * k \in E
    BY <1>1 DEF IsEnd
  <2>2. ASSUME NEW p \in E PROVE \E k \in l + 1 .. h : f[k] = p
    <3>1. PICK k \in Nat : k = p \div 2
      OBVIOUS
    <3>2. p = 2 * k
      BY <3>1 DEF IsEnd
    <3>3. k \in l + 1 .. h
      BY <1>1, <3>2
    <3> QED
      BY <3>2, <3>3
  <2>3. f \in [l + 1 .. h -> E] /\ \A j, k \in l + 1 .. h : f[j] = f[k] => j = k
    BY <2>1
  <2> HIDE DEF f, E
  <2> QED
    BY <2>2, <2>3, Fun_IsBij
<1>3. IsFiniteSet(l + 1 .. h) /\ Cardinality(l + 1 .. h) = h - l
  <2>1. l + 1 \in Int /\ h \in Int
    OBVIOUS
  <2>2. Cardinality(l + 1 .. h) = IF l + 1 > h THEN 0 ELSE h - (l + 1) + 1
    BY <2>1, FS_Interval
  <2>3. IsFiniteSet(l + 1 .. h)
    BY <2>1, FS_Interval
  <2> QED
    BY <1>1, <2>2, <2>3
<1>4. Cardinality(E) = Cardinality(l + 1 .. h)
  <2> HIDE DEF f, E
  <2> QED
    BY <1>2, <1>3, FS_Bijection DEF ExistsBijection
<1> QED
  BY <1>1, <1>3, <1>4

\* What is counted and what is underway are the lines whose end was read.
LEMMA LinesCounted ==
  ASSUME LinkInv
  PROVE  LET Underway(p) == \E i \in DOMAIN linkInbox :
                              linkInbox[i].type = "RX" /\ p \in ToSet(linkInbox[i].pieces)
         IN handed + Cardinality(vanished) + Cardinality({p \in 1 .. got : IsEnd(p) /\ Underway(p)})
              = got \div 2
<1> DEFINE Underway(p) == \E i \in DOMAIN linkInbox :
             linkInbox[i].type = "RX" /\ p \in ToSet(linkInbox[i].pieces)
           U == {p \in 1 .. got : IsEnd(p) /\ Underway(p)}
<1> SUFFICES handed + Cardinality(vanished) + Cardinality(U) = got \div 2
  OBVIOUS
<1>1. got \in Nat /\ handed \in Nat
  BY DEF LinkInv, LinkShapes
<1>2. CASE \A i \in DOMAIN linkInbox : ~ Brings(i)
  <2>1. U = {}
    BY <1>2 DEF Brings
  <2>2. Cardinality(U) = 0
    BY <2>1, FS_EmptySet
  <2>3. handed + Cardinality(vanished) = got \div 2
    BY <1>2 DEF LinkInv, PiecesQueued, Counted
  <2> HIDE DEF U
  <2> QED
    BY <1>1, <2>2, <2>3
<1>3. ASSUME NEW i \in DOMAIN linkInbox, Brings(i)
      PROVE  handed + Cardinality(vanished) + Cardinality(U) = got \div 2
  <2>1. PICK p : p = linkInbox[i].pieces
    OBVIOUS
  <2>2. PICK n \in Nat : n = Len(p)
    BY <1>3, <2>1 DEF LinkInv, LinkShapes, LinkMessages, Brings
  <2>3. n <= got /\ p = [k \in 1 .. n |-> got - n + k]
        /\ handed + Cardinality(vanished) = (got - n) \div 2
    BY <1>3, <2>1, <2>2 DEF LinkInv, PiecesQueued, LastRead, Counted
  <2>4. PICK a \in Nat : a = got - n
    BY <1>1, <2>3
  <2>5. \A q : Underway(q) <=> q \in ToSet(p)
    BY <1>3, <2>1 DEF LinkInv, PiecesQueued, Brings
  <2>6. \A q \in Nat : q \in ToSet(p) <=> q \in a + 1 .. got
    <3>1. ASSUME NEW q \in a + 1 .. got PROVE q \in ToSet(p)
      <4>1. q - a \in 1 .. n /\ p[q - a] = q
        BY <1>1, <2>3, <2>4
      <4> QED
        BY <2>3, <4>1 DEF ToSet
    <3>2. ASSUME NEW q \in ToSet(p) PROVE q \in a + 1 .. got
      <4>1. PICK k \in 1 .. n : q = p[k]
        BY <2>3 DEF ToSet
      <4>2. q = a + k
        BY <2>3, <2>4, <4>1
      <4> QED
        BY <1>1, <2>3, <2>4, <4>1, <4>2
    <3> QED
      BY <3>1, <3>2
  <2>7. U = {q \in a + 1 .. got : IsEnd(q)}
    <3>1. \A q : q \in a + 1 .. got => q \in 1 .. got
      BY <1>1, <2>4
    <3> HIDE DEF Underway
    <3> QED
      BY <1>1, <2>5, <2>6, <3>1
  <2>8. Cardinality(U) = got \div 2 - a \div 2
    <3>1. a <= got
      BY <1>1, <2>3, <2>4
    <3> QED
      BY <1>1, <2>7, <3>1, Evens
  <2> HIDE DEF U
  <2> QED
    BY <1>1, <2>3, <2>4, <2>8
<1> QED
  BY <1>2, <1>3 DEF Brings

\* Every LinkSend in progress has one answer coming, and only its own task gets
\* it, whatever the hub writes and however the deadlines fall.
THEOREM Answers == LinkSpec => []OneAnswerPerCall
BY LinkInvariance, InvAnswers, PTL

\* The hub program is one of the hubs these theorems are about.
THEOREM LanLink == LanSpec => LinkSpec
<1>1. LanInit => LinkInit
  BY DEF LanInit
<1>2. [HubStep \/ SystemStep]_lanVars => [LinkStep \/ \E lineIn : HubWrites(lineIn)]_linkVars
  BY DEF HubStep, SystemStep, lanVars
<1> QED
  BY <1>1, <1>2, PTL DEF LanSpec, LinkSpec

-----------------------------------------------------------------------------
(* The line buffer of the link server, and its deadlines.                  *)

\* The buffer holds the start of the line whose end comes next, if n pieces leave
\* one open, or else that line has been cut.
StartOf(buffer, n, torn) ==
  IF IsEnd(n) THEN buffer = <<>>
              ELSE buffer = <<n>> \/ (buffer = <<>> /\ LineOf(n) \in torn)

LineStarted ==
  /\ \A i \in DOMAIN linkInbox : Brings(i) => StartOf(line, got - Len(linkInbox[i].pieces), cut)
  /\ (\A i \in DOMAIN linkInbox : ~ Brings(i)) => StartOf(line, got, cut)

LinkTyped ==
  /\ LinkInv /\ LinkTypeOK /\ LineStarted
  /\ vanished \subseteq bare \cap cut
  /\ \E T : incoming \in Seq(T)

\* The same during a scan, after the first k pieces.
ScanTypes(st, k) ==
  /\ Scan(st, k) /\ StartOf(st.line, k, cut) /\ st.gone \subseteq bare \cap cut
  /\ st.up => ~ st.wait

LEMMA ScanTypesNext ==
  ASSUME handed \in Nat, NEW k \in Nat \ {0}, NEW st, ScanTypes(st, k - 1)
  PROVE  ScanTypes(Scanned(st, k), k)
<1>1. Scan(Scanned(st, k), k)
  BY ScannedNext DEF ScanTypes
<1>2. PICK new : new = Scanned(st, k)
  OBVIOUS
<1>3. CASE IsEnd(k)
  <2>1. new = Ended(st, LineOf(k))
    BY <1>2, <1>3 DEF Scanned
  <2>2. ~ IsEnd(k - 1) /\ LineOf(k - 1) = LineOf(k)
    BY <1>3 DEF IsEnd, LineOf
  <2>3. st.line = <<>> => LineOf(k) \in cut
    <3>1. <<k - 1>> # <<>>
      OBVIOUS
    <3> QED
      BY <2>2, <3>1 DEF ScanTypes, StartOf
  <2>4. new.line = <<>> /\ (new.up => ~ new.wait) /\ new.gone \subseteq bare \cap cut
    BY <2>1, <2>3 DEF Ended, ScanTypes, Scan
  <2> QED
    BY <1>1, <1>2, <1>3, <2>4 DEF ScanTypes, StartOf
<1>4. CASE ~ IsEnd(k)
  <2>1. IsEnd(k - 1)
    BY <1>4 DEF IsEnd
  <2>2. st.line = <<>>
    BY <2>1 DEF ScanTypes, StartOf
  <2>3. new = [st EXCEPT !.line = Append(st.line, k)]
    BY <1>2, <1>4 DEF Scanned
  <2>4. /\ new.line = Append(st.line, k) /\ new.up = st.up /\ new.wait = st.wait
        /\ new.gone = st.gone
    BY <2>3 DEF ScanTypes, Scan
  <2>5. new.line = <<k>>
    BY <2>2, <2>4
  <2> QED
    BY <1>1, <1>2, <1>4, <2>4, <2>5 DEF ScanTypes, StartOf
<1> QED
  BY <1>3, <1>4

LEMMA ScanTypesEnd ==
  ASSUME handed \in Nat, NEW a \in Nat, NEW n \in Nat, NEW m, Len(m.pieces) = n,
         \A i \in 1 .. n : m.pieces[i] = a + i, Counted(handed, vanished, a),
         StartOf(line, a, cut), vanished \subseteq bare \cap cut, hub_up => ~ boot_wait
  PROVE  ScanTypes(ScanOf(m), a + n)
<1>1. PICK r : PieceByPiece(r, a, n) /\ ScanOf(m) = r[n]
  BY ScanSteps
<1> DEFINE S == {k \in 0 .. n : ScanTypes(r[k], a + k)}
<1>2. 0 \in S
  <2>1. Scan(Booted, a)
    BY BootedScans
  <2>2. Booted.line = line /\ Booted.gone = vanished /\ (Booted.up => ~ Booted.wait)
    BY DEF Booted
  <2>3. a + 0 = a
    OBVIOUS
  <2>4. ScanTypes(Booted, a)
    BY <2>1, <2>2 DEF ScanTypes
  <2> QED
    BY <1>1, <2>3, <2>4 DEF PieceByPiece
<1>3. ASSUME NEW k \in 1 .. n, k - 1 \in S PROVE k \in S
  <2>1. ScanTypes(r[k - 1], a + k - 1) /\ a + k \in Nat \ {0}
    <3>1. a + (k - 1) = a + k - 1
      OBVIOUS
    <3> QED
      BY <1>3, <3>1
  <2>2. ScanTypes(Scanned(r[k - 1], a + k), a + k)
    BY <2>1, ScanTypesNext
  <2> QED
    BY <1>1, <2>2 DEF PieceByPiece
<1>4. n \in S
  <2>1. n \in 0 .. n
    OBVIOUS
  <2> HIDE DEF S
  <2> QED
    BY <1>2, <1>3, <2>1, UpTo
<1> QED
  BY <1>1, <1>4

\* Emptying the buffer cuts the line whose start it held.
LEMMA Emptied == ASSUME NEW b, NEW n, StartOf(b, n, cut) PROVE StartOf(<<>>, n, Cut(b))
<1>1. ASSUME b = <<n>> PROVE LineOf(n) \in Cut(b)
  <2>1. 1 \in DOMAIN <<n>> /\ <<n>>[1] = n
    OBVIOUS
  <2>2. n \in ToSet(b)
    BY <1>1, <2>1 DEF ToSet
  <2> QED
    BY <2>2 DEF Cut
<1> QED
  BY <1>1 DEF StartOf, Cut

\* A step that leaves queue, line buffer and pieces alone.
LEMMA LineStays ==
  ASSUME LinkTyped, UNCHANGED <<linkInbox, line, got, cut>>
  PROVE  LineStarted'
BY DEF LinkTyped, LineStarted, Brings

\* The types but for those a step does not touch.
LEMMA TypesStay ==
  ASSUME LinkTyped, LinkInv', LineStarted', UNCHANGED <<got, incoming, hub_up, boot_wait>>,
         rxNotifier' \in {"read", "sent", "sentNothing", "delay"}, Len(line') <= 1,
         late' => client' # NoCaller, vanished' = vanished, bare \subseteq bare', cut \subseteq cut'
  PROVE  LinkTyped'
BY DEF LinkTyped, LinkTypeOK, LinkInv, LinkShapes

LEMMA StartIsShort == ASSUME NEW b, NEW n, NEW torn, StartOf(b, n, torn) PROVE Len(b) <= 1
<1>1. Len(<<>>) = 0 /\ Len(<<n>>) = 1
  OBVIOUS
<1>2. CASE b = <<>>
  <2>1. Len(b) = 0
    BY <1>1, <1>2
  <2> QED
    BY <2>1
<1>3. CASE b = <<n>>
  <2>1. Len(b) = 1
    BY <1>1, <1>3
  <2> QED
    BY <2>1
<1> QED
  BY <1>2, <1>3 DEF StartOf

LEMMA WritesTypes == ASSUME LinkTyped, NEW lineIn, HubWrites(lineIn), LinkInv' PROVE LinkTyped'
<1>1. /\ incoming' = Append(incoming, lineIn)
      /\ UNCHANGED <<linkInbox, line, got, client, late, rxNotifier, hub_up, boot_wait,
                     vanished, bare, cut>>
  BY DEF HubWrites, hubView, linkTimers, lineFates
<1>2. PICK T : incoming \in Seq(T)
  BY DEF LinkTyped
<1>3. incoming' \in Seq(T \cup {lineIn}) /\ Len(incoming') = Len(incoming) + 1
  <2>1. incoming \in Seq(T \cup {lineIn})
    BY <1>2
  <2> QED
    BY <1>1, <2>1
<1>4. got' \in 0 .. 2 * Len(incoming')
  <2>1. PICK n \in Nat : n = Len(incoming)
    BY <1>2
  <2>2. got \in 0 .. 2 * n
    BY <2>1 DEF LinkTyped, LinkTypeOK
  <2>3. got \in 0 .. 2 * (n + 1)
    BY <2>1, <2>2
  <2> QED
    BY <1>1, <1>3, <2>1, <2>3
<1>5. LineStarted'
  BY <1>1, LineStays
<1> QED
  BY <1>1, <1>3, <1>4, <1>5 DEF LinkTyped, LinkTypeOK

LEMMA ReadsTypes == ASSUME LinkTyped, LinkNotifierReads, LinkInv' PROVE LinkTyped'
<1>1. PICK n \in 0 .. MaxPieces :
        /\ got + n <= 2 * Len(incoming) /\ got' = got + n
        /\ linkInbox' = Append(linkInbox, Rx([i \in 1 .. n |-> got + i]))
        /\ rxNotifier' = IF n = 0 THEN "sentNothing" ELSE "sent"
  BY DEF LinkNotifierReads
<1>2. /\ rxNotifier = "read" /\ bare \subseteq bare'
      /\ UNCHANGED <<incoming, line, client, late, hub_up, boot_wait, vanished, cut>>
  BY DEF LinkNotifierReads, hubView, linkTimers
<1>3. n \in Nat /\ got \in Nat /\ linkInbox \in Seq(LinkMessages)
  BY LinkAssumption DEF LinkAssumption, LinkTyped, LinkInv, LinkShapes
<1>4. PICK m : m = Rx([i \in 1 .. n |-> got + i])
  OBVIOUS
<1>5. m \in LinkMessages /\ m.type = "RX" /\ Len(m.pieces) = n
  BY <1>3, <1>4 DEF Rx, LinkMessages
<1>6. PICK last : /\ DOMAIN linkInbox' = DOMAIN linkInbox \cup {last}
                  /\ last \notin DOMAIN linkInbox
                  /\ \A i \in DOMAIN linkInbox : linkInbox'[i] = linkInbox[i]
                  /\ linkInbox'[last] = m
  BY <1>1, <1>3, <1>4, <1>5, Arrived
<1>7. \A i \in DOMAIN linkInbox : ~ Brings(i)
  BY <1>2 DEF LinkTyped, LinkInv, PiecesQueued
<1>8. LineStarted'
  <2>1. \A i \in DOMAIN linkInbox : ~ Brings(i)'
    BY <1>6, <1>7 DEF Brings
  <2>2. got' - n = got
    BY <1>1, <1>3
  <2>3. StartOf(line', got' - Len(linkInbox'[last].pieces), cut')
    BY <1>2, <1>5, <1>6, <1>7, <2>2 DEF LinkTyped, LineStarted
  <2>4. Brings(last)'
    BY <1>5, <1>6 DEF Brings
  <2> QED
    BY <1>6, <2>1, <2>3, <2>4 DEF LineStarted
<1>9. got' \in 0 .. 2 * Len(incoming')
  <2>1. Len(incoming) \in Nat
    BY DEF LinkTyped
  <2> QED
    BY <1>1, <1>2, <1>3, <2>1
<1> QED
  BY <1>1, <1>2, <1>8, <1>9 DEF LinkTyped, LinkTypeOK

LEMMA RequestTypes ==
  ASSUME LinkTyped, NEW c \in Callers, NEW m \in Commands, LinkSend(c, m), LinkInv'
  PROVE  LinkTyped'
<1>1. /\ linkInbox' = Append(linkInbox, Request(c, m))
      /\ UNCHANGED <<incoming, got, rxNotifier, client, line, late, hub_up, boot_wait,
                     vanished, bare, cut>>
  BY DEF LinkSend, hubView, linkTimers, lineFates
<1>2. Request(c, m) \in LinkMessages /\ Request(c, m).type = "SEND"
  BY DEF Request, LinkMessages
<1>3. PICK last : /\ DOMAIN linkInbox' = DOMAIN linkInbox \cup {last}
                  /\ last \notin DOMAIN linkInbox
                  /\ \A i \in DOMAIN linkInbox : linkInbox'[i] = linkInbox[i]
                  /\ linkInbox'[last] = Request(c, m)
  BY <1>1, <1>2, Arrived DEF LinkTyped, LinkInv, LinkShapes
<1>4. LineStarted'
  <2>1. ~ Brings(last)'
    BY <1>2, <1>3 DEF Brings
  <2>2. \A i \in DOMAIN linkInbox : Brings(i)' <=> Brings(i)
    BY <1>3 DEF Brings
  <2> QED
    BY <1>1, <1>3, <2>1, <2>2 DEF LinkTyped, LineStarted
<1> QED
  BY <1>1, <1>4, TypesStay DEF LinkTyped, LinkTypeOK

LEMMA SendTypes == ASSUME LinkTyped, LinkServes, ServeLinkSend, LinkInv' PROVE LinkTyped'
<1>1. /\ linkInbox # <<>> /\ linkInbox' = Tail(linkInbox)
      /\ UNCHANGED <<incoming, got, rxNotifier, hub_up, boot_wait, vanished, bare>>
  BY DEF LinkServes, ServeLinkSend, hubView
<1>2. /\ 1 \in DOMAIN linkInbox /\ Head(linkInbox) = linkInbox[1] /\ linkInbox[1] \in LinkMessages
      /\ \A i \in DOMAIN linkInbox' : i + 1 \in DOMAIN linkInbox /\ linkInbox'[i] = linkInbox[i + 1]
      /\ \A i \in DOMAIN linkInbox : i # 1 => /\ i - 1 \in DOMAIN linkInbox'
                                              /\ linkInbox'[i - 1] = linkInbox[i]
  BY <1>1, Received DEF LinkTyped, LinkInv, LinkShapes
<1>3. ~ Brings(1) /\ Head(linkInbox).from \in Callers
  BY <1>2 DEF ServeLinkSend, Brings, LinkMessages
<1>4. \/ UNCHANGED <<client, late, line, cut>>
      \/ client' \in Callers /\ line' = <<>> /\ cut' = Cut(line) /\ late' = FALSE
  BY <1>3 DEF ServeLinkSend
<1>a. \A n : StartOf(line, n, cut) => StartOf(line', n, cut')
  BY <1>4, Emptied
<1>5. LineStarted'
  <2>1. ASSUME NEW i \in DOMAIN linkInbox', Brings(i)'
        PROVE  StartOf(line', got' - Len(linkInbox'[i].pieces), cut')
    <3>1. Brings(i + 1) /\ i + 1 \in DOMAIN linkInbox /\ linkInbox'[i] = linkInbox[i + 1]
      BY <1>2, <2>1 DEF Brings
    <3> QED
      BY <1>1, <1>a, <3>1 DEF LinkTyped, LineStarted
  <2>2. ASSUME \A i \in DOMAIN linkInbox' : ~ Brings(i)' PROVE StartOf(line', got', cut')
    <3>1. \A i \in DOMAIN linkInbox : ~ Brings(i)
      BY <1>2, <1>3, <2>2 DEF Brings
    <3> QED
      BY <1>1, <1>a, <3>1 DEF LinkTyped, LineStarted
  <2> QED
    BY <2>1, <2>2 DEF LineStarted
<1>6. Len(line') <= 1
  <2>1. Len(<<>>) <= 1
    OBVIOUS
  <2> QED
    BY <1>4, <2>1 DEF LinkTyped, LinkTypeOK
<1>b. cut \subseteq cut'
  BY <1>4 DEF Cut
<1>7. late' => client' # NoCaller
  BY <1>4 DEF LinkTyped, LinkTypeOK
<1> QED
  BY <1>1, <1>5, <1>6, <1>7, <1>b, TypesStay DEF LinkTyped, LinkTypeOK

LEMMA RxTypes == ASSUME LinkTyped, LinkServes, ServeLinkRx, LinkInv' PROVE LinkTyped'
<1>1. /\ linkInbox # <<>> /\ linkInbox' = Tail(linkInbox) /\ UNCHANGED <<incoming, got, bare>>
      /\ linkInbox \in Seq(LinkMessages) /\ got \in Nat /\ handed \in Nat
  BY DEF LinkServes, LinkTyped, LinkInv, LinkShapes
<1>2. /\ 1 \in DOMAIN linkInbox /\ Head(linkInbox) = linkInbox[1] /\ linkInbox[1] \in LinkMessages
      /\ \A i \in DOMAIN linkInbox' : /\ i + 1 \in DOMAIN linkInbox /\ i + 1 # 1
                                      /\ linkInbox'[i] = linkInbox[i + 1]
  BY <1>1, Received
<1>3. PICK m, n, st : m = linkInbox[1] /\ n = Len(m.pieces) /\ st = ScanOf(m)
  OBVIOUS
<1>4. Brings(1) /\ m.pieces \in Seq(Nat)
  BY <1>2, <1>3 DEF ServeLinkRx, Brings, LinkMessages
<1>5. n \in Nat /\ n <= got /\ m.pieces = [k \in 1 .. n |-> got - n + k]
      /\ Counted(handed, vanished, got - n)
  <2>1. LastRead(1)
    BY <1>2, <1>4 DEF LinkTyped, LinkInv, PiecesQueued
  <2> QED
    BY <1>3, <1>4, <2>1 DEF LastRead
<1>6. ScanTypes(st, got)
  <2>1. PICK a \in Nat : a = got - n
    BY <1>1, <1>5
  <2>2. Len(m.pieces) = n /\ \A k \in 1 .. n : m.pieces[k] = a + k
    BY <1>5, <2>1
  <2>3. StartOf(line, a, cut) /\ vanished \subseteq bare \cap cut
    BY <1>2, <1>3, <1>4, <2>1 DEF LinkTyped, LineStarted
  <2>4. hub_up => ~ boot_wait
    BY DEF LinkTyped, LinkTypeOK
  <2>5. ScanTypes(ScanOf(m), a + n)
    BY <1>1, <1>5, <2>1, <2>2, <2>3, <2>4, ScanTypesEnd
  <2>6. a + n = got
    BY <1>1, <1>5, <2>1
  <2> QED
    BY <1>3, <2>5, <2>6
<1>7. /\ StartOf(st.line, got, cut) /\ st.gone \subseteq bare \cap cut
      /\ st.up => ~ st.wait
  BY <1>6 DEF ScanTypes
<1>8. /\ (line' = st.line /\ cut' = cut) \/ (line' = <<>> /\ cut' = Cut(st.line))
      /\ vanished' = st.gone
      /\ hub_up' => ~ boot_wait'
      /\ late' => client' # NoCaller
      /\ rxNotifier' \in {"read", "delay"}
  BY <1>2, <1>3, <1>7 DEF ServeLinkRx
<1>9. StartOf(line', got', cut')
  BY <1>1, <1>7, <1>8, Emptied
<1>10. LineStarted' /\ vanished' \subseteq bare' \cap cut'
  <2>1. \A i \in DOMAIN linkInbox' : ~ Brings(i)'
    BY <1>2, <1>4 DEF LinkTyped, LinkInv, PiecesQueued, Brings
  <2>2. LineStarted'
    BY <1>9, <2>1 DEF LineStarted
  <2>3. cut \subseteq cut'
    BY <1>8 DEF Cut
  <2> QED
    BY <1>1, <1>7, <1>8, <2>2, <2>3
<1>11. Len(line') <= 1
  BY <1>9, StartIsShort
<1> QED
  BY <1>1, <1>8, <1>10, <1>11 DEF LinkTyped, LinkTypeOK, LinkInv, LinkShapes

LEMMA LinkTypedStep ==
  LinkTyped /\ LinkInv' /\ [LinkStep \/ \E lineIn : HubWrites(lineIn)]_linkVars => LinkTyped'
<1> SUFFICES ASSUME LinkTyped, LinkInv', [LinkStep \/ \E lineIn : HubWrites(lineIn)]_linkVars
             PROVE  LinkTyped'
  OBVIOUS
<1>1. CASE LinkNotifierWakes \/ TimePasses \/ UNCHANGED linkVars
  <2>1. UNCHANGED <<linkInbox, line, got, incoming, client, hub_up, boot_wait, vanished, bare, cut>>
    BY <1>1 DEF LinkNotifierWakes, TimePasses, linkVars, hubView, linkTimers, lineFates
  <2>2. /\ rxNotifier' = rxNotifier \/ rxNotifier' = "read"
        /\ late' = late \/ late' = (client # NoCaller)
    BY <1>1 DEF LinkNotifierWakes, TimePasses, linkVars, linkTimers
  <2>3. LineStarted'
    BY <2>1, LineStays
  <2>4. late' => client' # NoCaller
    BY <2>1, <2>2 DEF LinkTyped, LinkTypeOK
  <2>5. rxNotifier' \in {"read", "sent", "sentNothing", "delay"} /\ Len(line') <= 1
    BY <2>1, <2>2 DEF LinkTyped, LinkTypeOK
  <2> QED
    BY <2>1, <2>3, <2>4, <2>5, TypesStay
<1>2. CASE LinkServes
  BY <1>2, SendTypes, RxTypes DEF LinkServes
<1> QED
  BY <1>1, <1>2, WritesTypes, ReadsTypes, RequestTypes DEF LinkStep, LinkNotifierMoves

LEMMA LinkTypedAlways == LinkSpec => []LinkTyped
<1>1. LinkInit => LinkTyped
  <2> SUFFICES ASSUME LinkInit PROVE LinkTyped
    OBVIOUS
  <2>1. LinkInv
    BY LinkInitHolds
  <2>2. /\ incoming \in Seq({}) /\ Len(incoming) = 0 /\ got = 0 /\ line = <<>> /\ linkInbox = <<>>
        /\ vanished = {}
    BY DEF LinkInit
  <2>3. StartOf(line, got, cut)
    <3>1. 0 % 2 = 0
      OBVIOUS
    <3> QED
      BY <2>2, <3>1 DEF StartOf, IsEnd
  <2>4. LineStarted
    BY <2>2, <2>3 DEF LineStarted
  <2>5. Len(line) <= 1
    BY <2>3, StartIsShort
  <2>6. got \in 0 .. 2 * Len(incoming)
    BY <2>2
  <2> QED
    BY <2>1, <2>2, <2>4, <2>5, <2>6 DEF LinkTyped, LinkTypeOK, LinkInit
<1>2. LinkTyped /\ LinkInv' /\ [LinkStep \/ \E lineIn : HubWrites(lineIn)]_linkVars => LinkTyped'
  BY LinkTypedStep
<1> QED
  BY <1>1, <1>2, LinkInvariance, PTL DEF LinkSpec

\* The link server's buffer holds the start of one line at most, and a deadline is
\* set only for a client.
THEOREM LinkTypes == LinkSpec => []LinkTypeOK
<1>1. LinkTyped => LinkTypeOK
  BY DEF LinkTyped
<1> QED
  BY <1>1, LinkTypedAlways, PTL

\* A line of the hub disappears in the server only where a request or a timeout
\* emptied the line buffer when the whole line but its newline was in it.
THEOREM Lines == LinkSpec => []EveryLineHandedOn
<1>1. LinkTyped => EveryLineHandedOn
  BY LinesCounted DEF LinkTyped, EveryLineHandedOn
<1> QED
  BY <1>1, LinkTypedAlways, PTL

=============================================================================
