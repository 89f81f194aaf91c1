---------------------------- MODULE TrainsProofs ----------------------------
(***************************************************************************)
(* Train control, for any commands of any number of tasks, any trains,     *)
(* switches and sensors.                                                   *)
(***************************************************************************)
EXTENDS Trains, FiniteSetTheorems, FunctionTheorems, TLAPS

-----------------------------------------------------------------------------
(* The order of the reports of a reading.                                  *)

Reports == [sensor : 0 .. 79, released : BOOLEAN]

LEMMA RankBounds == ASSUME NEW r \in Reports PROVE Rank(r) \in 0 .. 159
<1>1. PICK s \in 0 .. 79 : s = r.sensor
  BY DEF Reports
<1>2. PICK m \in 0 .. 4, h \in 0 .. 1, l \in 0 .. 7 :
        s \div 16 = m /\ (s % 16) \div 8 = h /\ s % 8 = l
  OBVIOUS
<1>3. PICK a \in 0 .. 16 : a = (IF r.released THEN 16 ELSE 0)
  OBVIOUS
<1>4. Rank(r) = 32 * m + a + 8 * h + (7 - l)
  BY <1>1, <1>2, <1>3 DEF Rank
<1> QED
  BY <1>4

\* No two reports have the same place.
LEMMA RankTells ==
  ASSUME NEW r \in Reports, NEW q \in Reports, Rank(r) = Rank(q)
  PROVE  r = q
<1>1. PICK s \in 0 .. 79, t \in 0 .. 79 : s = r.sensor /\ t = q.sensor
  BY DEF Reports
<1>2. PICK m \in 0 .. 4, h \in 0 .. 1, l \in 0 .. 7 :
        s \div 16 = m /\ (s % 16) \div 8 = h /\ s % 8 = l /\ s = 16 * m + 8 * h + l
  OBVIOUS
<1>3. PICK n \in 0 .. 4, i \in 0 .. 1, k \in 0 .. 7 :
        t \div 16 = n /\ (t % 16) \div 8 = i /\ t % 8 = k /\ t = 16 * n + 8 * i + k
  OBVIOUS
<1>4. PICK a \in 0 .. 1, b \in 0 .. 1 :
        a = (IF r.released THEN 1 ELSE 0) /\ b = (IF q.released THEN 1 ELSE 0)
  OBVIOUS
<1>5. 32 * m + 16 * a + 8 * h + (7 - l) = 32 * n + 16 * b + 8 * i + (7 - k)
  BY <1>1, <1>2, <1>3, <1>4 DEF Rank
<1>6. m = n /\ a = b /\ h = i /\ l = k
  BY <1>5
<1>7. s = t /\ (r.released <=> q.released)
  BY <1>2, <1>3, <1>4, <1>6
<1>8. r.released \in BOOLEAN /\ q.released \in BOOLEAN
  BY DEF Reports
<1>9. r.sensor = q.sensor /\ r.released = q.released
  BY <1>1, <1>7, <1>8, Zenon
<1> QED
  BY <1>9 DEF Reports

LEMMA ReportsFinite ==
  ASSUME NEW S \in SUBSET Reports
  PROVE  IsFiniteSet(S)
<1> DEFINE f == [r \in S |-> Rank(r)]
<1>1. f \in Injection(S, 0 .. 159)
  BY RankBounds, RankTells DEF Injection, IsInjective
<1>2. IsFiniteSet(0 .. 159)
  <2>1. 0 \in Int /\ 159 \in Int
    OBVIOUS
  <2> QED
    BY <2>1, FS_Interval
<1> QED
  BY <1>1, <1>2, FS_Injection

\* How many reports of S come up to r.
Place(S, r) == Cardinality({q \in S : Rank(q) <= Rank(r)})

LEMMA PlaceGrows ==
  ASSUME NEW S \in SUBSET Reports, NEW r \in S, NEW q \in S
  PROVE  /\ Place(S, r) \in 1 .. Cardinality(S)
         /\ Rank(r) < Rank(q) => Place(S, r) < Place(S, q)
<1> DEFINE Upto(p) == {o \in S : Rank(o) <= Rank(p)}
<1>0. IsFiniteSet(S) /\ \A o \in S : Rank(o) \in 0 .. 159
  BY ReportsFinite, RankBounds
<1>1. /\ IsFiniteSet(Upto(r)) /\ Cardinality(Upto(r)) \in Nat
      /\ Cardinality(Upto(r)) <= Cardinality(S) /\ Cardinality(S) \in Nat
  BY <1>0, FS_Subset, FS_CardinalityType
<1>2. r \in Upto(r)
  BY <1>0
<1>3. Cardinality(Upto(r)) # 0
  BY <1>1, <1>2, FS_EmptySet
<1>4. ASSUME Rank(r) < Rank(q) PROVE Cardinality(Upto(r)) < Cardinality(Upto(q))
  <2>1. Upto(r) \subseteq Upto(q)
    <3>1. \A o \in S : Rank(o) \in Int
      BY <1>0
    <3>2. ASSUME NEW o \in S, Rank(o) <= Rank(r) PROVE Rank(o) <= Rank(q)
      <4>1. Rank(o) \in Int /\ Rank(r) \in Int /\ Rank(q) \in Int
        BY <3>1
      <4> QED
        BY <1>4, <3>2, <4>1
    <3> QED
      BY <3>2
  <2>2. q \in Upto(q) /\ q \notin Upto(r)
    BY <1>0, <1>4
  <2>3. IsFiniteSet(Upto(q)) /\ Cardinality(Upto(q)) \in Nat
    BY <1>0, FS_Subset, FS_CardinalityType
  <2>4. Cardinality(Upto(r)) <= Cardinality(Upto(q)) /\ Cardinality(Upto(r)) # Cardinality(Upto(q))
    <3>1. Upto(r) # Upto(q)
      BY <2>2
    <3> HIDE DEF Upto
    <3> QED
      BY <2>1, <2>3, <3>1, FS_Subset
  <2> QED
    BY <1>1, <2>3, <2>4
<1> QED
  BY <1>1, <1>3, <1>4 DEF Place

\* The reports can be put in order.
LEMMA CanBeOrdered ==
  ASSUME NEW S \in SUBSET Reports
  PROVE  \E s \in [1 .. Cardinality(S) -> S] : \A i, j \in DOMAIN s : i < j => Rank(s[i]) < Rank(s[j])
<1>1. PICK n \in Nat : n = Cardinality(S)
  BY ReportsFinite, FS_CardinalityType
<1>2. PICK f : f = [r \in S |-> Place(S, r)]
  OBVIOUS
<1>3. f \in Injection(S, 1 .. n)
  <2>1. f \in [S -> 1 .. n]
    BY <1>1, <1>2, PlaceGrows
  <2>2. ASSUME NEW r \in S, NEW q \in S, f[r] = f[q] PROVE r = q
    <3>1. Place(S, r) = Place(S, q) /\ Place(S, r) \in Nat /\ Rank(r) \in Nat /\ Rank(q) \in Nat
      BY <1>2, <2>2, PlaceGrows, RankBounds
    <3>2. ~ (Rank(r) < Rank(q)) /\ ~ (Rank(q) < Rank(r))
      BY <3>1, PlaceGrows
    <3> QED
      BY <3>1, <3>2, RankTells
  <2> QED
    BY <2>1, <2>2, Fun_IsInj
<1>4. f \in Bijection(S, 1 .. n)
  <2>1. IsFiniteSet(1 .. n) /\ Cardinality(1 .. n) = n
    BY FS_Interval
  <2> QED
    BY <1>1, <1>3, <2>1, FS_Injection DEF Bijection
<1>5. PICK s : s = Inverse(f, S, 1 .. n)
  OBVIOUS
<1>6. s \in Bijection(1 .. n, S)
  BY <1>4, <1>5, Fun_BijInverse
<1>7. s \in [1 .. n -> S]
  BY <1>6, Fun_BijectionProperties
<1>8. \A i \in 1 .. n : f[s[i]] = i
  BY <1>4, <1>5, <1>7, Fun_BijInverse, Fun_BijectionProperties
<1>9. ASSUME NEW i \in 1 .. n, NEW j \in 1 .. n, i < j PROVE Rank(s[i]) < Rank(s[j])
  <2>1. s[i] \in S /\ s[j] \in S /\ Place(S, s[i]) = i /\ Place(S, s[j]) = j
    BY <1>2, <1>7, <1>8
  <2>2. Rank(s[i]) \in Nat /\ Rank(s[j]) \in Nat
    BY <2>1, RankBounds
  <2>3. Rank(s[i]) # Rank(s[j])
    BY <1>9, <2>1, RankTells
  <2>4. ~ (Rank(s[j]) < Rank(s[i]))
    BY <1>9, <2>1, PlaceGrows
  <2> QED
    BY <2>2, <2>3, <2>4
<1> QED
  BY <1>1, <1>7, <1>9

\* The ordered reports are all of them, each once.
LEMMA OrderedIs ==
  ASSUME NEW S \in SUBSET Reports
  PROVE  /\ Ordered(S) \in Seq(S) /\ ToSet(Ordered(S)) = S
         /\ \A i, j \in DOMAIN Ordered(S) : Ordered(S)[i] = Ordered(S)[j] => i = j
<1>1. PICK n \in Nat : n = Cardinality(S)
  BY ReportsFinite, FS_CardinalityType
<1>2. PICK s : s = Ordered(S)
  OBVIOUS
<1>3. s \in [1 .. n -> S] /\ \A i, j \in 1 .. n : i < j => Rank(s[i]) < Rank(s[j])
  BY <1>1, <1>2, CanBeOrdered DEF Ordered
<1>4. ASSUME NEW i \in 1 .. n, NEW j \in 1 .. n, s[i] = s[j] PROVE i = j
  <2>1. s[i] \in Reports
    BY <1>3
  <2>2. Rank(s[i]) \in 0 .. 159
    BY <2>1, RankBounds
  <2>3. ~ (Rank(s[i]) < Rank(s[i]))
    BY <2>2
  <2> QED
    BY <1>3, <1>4, <2>3
<1>5. s \in Injection(1 .. n, S)
  BY <1>3, <1>4, Fun_IsInj
<1>6. s \in Surjection(1 .. n, S)
  <2>1. Cardinality(1 .. n) = n
    BY FS_Interval
  <2>2. IsFiniteSet(S)
    BY ReportsFinite
  <2> QED
    BY <1>1, <1>5, <2>1, <2>2, FS_Injection
<1>7. \A x \in S : \E i \in 1 .. n : s[i] = x
  BY <1>6, Fun_SurjectionProperties
<1>8. ToSet(s) = S
  BY <1>3, <1>7 DEF ToSet
<1> QED
  BY <1>2, <1>3, <1>4, <1>8

-----------------------------------------------------------------------------
(* What the queues hold.                                                   *)

LEMMA TailIs ==
  ASSUME NEW X, NEW q \in Seq(X), q # <<>>
  PROVE  /\ Tail(q) \in Seq(X) /\ Head(q) \in X /\ Head(q) = q[1] /\ 1 \in DOMAIN q
         /\ \A i \in DOMAIN Tail(q) : i + 1 \in DOMAIN q /\ Tail(q)[i] = q[i + 1] /\ i + 1 # 1
         /\ \A i \in DOMAIN q : i # 1 => i - 1 \in DOMAIN Tail(q) /\ Tail(q)[i - 1] = q[i]
         /\ \A i, j \in DOMAIN Tail(q) : i + 1 = j + 1 => i = j
OBVIOUS

LEMMA MessageIs == \A f, m : Message(f, m).from = f /\ Message(f, m).msg = m
BY DEF Message

LEMMA NoEntries ==
  ASSUME NEW X
  PROVE  <<>> \in Seq(X) /\ DOMAIN <<>> = {}
<1>1. <<>> \in Seq(X) /\ Len(<<>>) = 0
  OBVIOUS
<1>2. DOMAIN <<>> = 1 .. 0
  BY <1>1
<1> QED
  BY <1>1, <1>2

LEMMA EntriesWithin ==
  ASSUME NEW X, NEW Y, X \subseteq Y, NEW q \in Seq(X)
  PROVE  q \in Seq(Y)
OBVIOUS

LEMMA OneEntry ==
  ASSUME NEW X, NEW x \in X
  PROVE  <<x>> \in Seq(X)
OBVIOUS

LEMMA EntriesIn ==
  ASSUME NEW X, NEW q \in Seq(X)
  PROVE  (\A i \in DOMAIN q : q[i] \in X) /\ ToSet(q) \subseteq X
BY DEF ToSet

LEMMA AppendIs ==
  ASSUME NEW X, NEW q \in Seq(X), NEW x \in X
  PROVE  /\ Append(q, x) \in Seq(X)
         /\ DOMAIN q \subseteq DOMAIN Append(q, x) /\ \A i \in DOMAIN q : Append(q, x)[i] = q[i]
         /\ Len(q) + 1 \in DOMAIN Append(q, x) /\ Append(q, x)[Len(q) + 1] = x
         /\ \A i \in DOMAIN Append(q, x) : i \in DOMAIN q \/ i = Len(q) + 1
OBVIOUS

\* What the calls of a kind are.
LEMMA Kinds ==
  ASSUME NEW m \in AllCalls
  PROVE  /\ m.op = "TRAIN" => m.id \in TrainIds /\ m.state \in Speeds /\ m = Set(m.id, m.state)
         /\ m.op = "SWITCH" => m.id \in SwitchIds /\ m.state \in {"S", "C"}
         /\ m.op = "SENSOR" => m = Read
         /\ m \notin ReportCalls
BY TrainsAssumption DEF AllCalls, Read, Pause, Ask, Await, Set, Solonoid, ReportCalls

\* A message of the worker tells the track server of what it did, one at a time.
WorkerTells ==
  /\ \A i \in DOMAIN trackQ :
       /\ trackQ[i].from = Worker <=> trackQ[i].msg.op \in ToWorker
       /\ trackQ[i].from = Worker => workAt = "telling"
       /\ trackQ[i].from # Worker => trackQ[i].from \in Slots /\ trackQ[i].msg.op \in ToTrack
       /\ trackQ[i].msg.op = "SENSOR" => trackQ[i].msg \in ReportCalls
       /\ trackQ[i].msg.op = "TRAIN" => trackQ[i].msg.state = rail[trackQ[i].msg.id]
  /\ \A i, j \in DOMAIN trackQ : trackQ[i].from = Worker /\ trackQ[j].from = Worker => i = j

\* A report is made once.
ReportsOnce ==
  /\ workAt \notin {"telling", "report"} => reports = <<>>
  /\ \A i, j \in DOMAIN reports : reports[i] = reports[j] => i = j
  /\ \A i \in DOMAIN trackQ : trackQ[i].msg.op = "SENSOR" =>
       Report(trackQ[i].msg.id, trackQ[i].msg.state) \notin ToSet(reports)

\* A command whose last byte the worker puts is the last of its train.
JobInHand ==
  workAt = "sent" => job.op \in {"TRAIN", "SWITCH"} /\ (job.op = "TRAIN" => job.state = rail[job.id])

CallersBusy == \A t \in Callers : asleep[t] # "" => todo[t] # <<>>

\* Whoever the worker works for or has a message of sleeps in a call to it.
WorkerSleepers ==
  /\ workAt # "recv" => asleep[client] = "worker"
  /\ \A i \in DOMAIN workQ :
       asleep[workQ[i].from] = "worker" /\ (workAt # "recv" => workQ[i].from # client)
  /\ \A i, j \in DOMAIN workQ : workQ[i].from = workQ[j].from => i = j

\* The same of the track server, and of those who await a sensor.
TrackSleepers ==
  /\ \A i \in DOMAIN trackQ : trackQ[i].from # Worker =>
       /\ asleep[trackQ[i].from] = "track" /\ trackQ[i].msg = Head(todo[trackQ[i].from])
       /\ trackQ[i].from \notin ToSet(awaiting)
  /\ \A i, j \in DOMAIN trackQ : trackQ[i].from = trackQ[j].from => i = j
  /\ \A t \in ToSet(awaiting) : asleep[t] = "track" /\ Head(todo[t]).op = "AWAIT"

\* Until switch states are asked for, a sleeper waits for the server it called.
SleepersPlaced == ~ askedSwitches => again = <<>> /\ WorkerSleepers /\ TrackSleepers

TrainsInv ==
  /\ TrainsTypeOK /\ WorkerTells /\ SpeedsAgree /\ ReportsOnce /\ ReportsComplete
  /\ JobInHand /\ CallersBusy /\ SleepersPlaced

LEMMA QueueTypes ==
  ASSUME TrainsTypeOK
  PROVE  /\ \A i \in DOMAIN trackQ :
              /\ trackQ[i].from \in Callers \cup {Worker} /\ trackQ[i].msg \in AllCalls \cup ReportCalls
              /\ trackQ[i] = Message(trackQ[i].from, trackQ[i].msg)
         /\ \A i \in DOMAIN workQ : workQ[i].from \in Callers /\ workQ[i].msg \in AllCalls
         /\ ToSet(awaiting) \subseteq Slots /\ \A t \in Slots : t \in Callers /\ t # Worker
         /\ Worker \notin Callers
<1>1. ASSUME NEW i \in DOMAIN trackQ
      PROVE  /\ trackQ[i].from \in Callers \cup {Worker} /\ trackQ[i].msg \in AllCalls \cup ReportCalls
             /\ trackQ[i] = Message(trackQ[i].from, trackQ[i].msg)
  <2>1. trackQ[i] \in [from : Callers \cup {Worker}, msg : AllCalls \cup ReportCalls]
    BY EntriesIn DEF TrainsTypeOK
  <2> QED
    BY <2>1 DEF Message
<1>2. ASSUME NEW i \in DOMAIN workQ
      PROVE  workQ[i].from \in Callers /\ workQ[i].msg \in AllCalls
  <2>1. workQ[i] \in [from : Callers, msg : AllCalls]
    BY EntriesIn DEF TrainsTypeOK
  <2> QED
    BY <2>1
<1>3. ToSet(awaiting) \subseteq Slots
  BY EntriesIn DEF TrainsTypeOK
<1> QED
  BY <1>1, <1>2, <1>3, CommandsAssumption DEF Callers, Reader, Worker

-----------------------------------------------------------------------------
(* What the parts of a step do.                                            *)

\* After a reply to S none of S sleeps, and no one else notices.
LEMMA AnsweredIs ==
  ASSUME TrainsTypeOK, CallersBusy, NEW S \in SUBSET Callers, NEW released, Answered(S, released)
  PROVE  /\ todo' \in [Callers -> Seq(AllCalls)] /\ asleep' \in [Callers -> {"", "worker", "track"}]
         /\ \A t \in S : asleep'[t] = ""
         /\ \A t \in Callers \ S : asleep'[t] = asleep[t] /\ todo'[t] = todo[t]
         /\ CallersBusy'
<1>1. /\ \A t \in Callers : asleep'[t] = IF t \in S /\ asleep[t] # "" THEN "" ELSE asleep[t]
      /\ asleep' \in [Callers -> {"", "worker", "track"}]
  BY DEF Answered, TrainsTypeOK
<1>2. \A t \in Callers :
        /\ todo'[t] = todo[t] \/ (t \in S /\ asleep[t] # "" /\ todo'[t] = Tail(todo[t]))
        /\ todo'[t] = todo[t] \/ (t \in S /\ asleep'[t] = "")
  BY <1>1 DEF Answered
<1>3. todo' = [t \in Callers |-> todo'[t]]
  BY DEF Answered
<1>4. ASSUME NEW t \in Callers PROVE todo'[t] \in Seq(AllCalls)
  <2>1. todo[t] \in Seq(AllCalls)
    BY DEF TrainsTypeOK
  <2>2. CASE todo'[t] = todo[t]
    BY <2>1, <2>2
  <2>3. CASE todo'[t] # todo[t]
    <3>1. todo[t] # <<>> /\ todo'[t] = Tail(todo[t])
      BY <1>2, <2>3 DEF CallersBusy
    <3> QED
      BY <2>1, <3>1, TailIs
  <2> QED
    BY <2>2, <2>3
<1>5. todo' \in [Callers -> Seq(AllCalls)]
  BY <1>3, <1>4
<1>6. CallersBusy'
  BY <1>1, <1>2 DEF CallersBusy
<1> QED
  BY <1>1, <1>2, <1>5, <1>6

\* The queue of the track server without its first message.
LEMMA TakenTells ==
  ASSUME TrainsTypeOK, WorkerTells, trackQ # <<>>, Taken, rail' = rail,
         Head(trackQ).msg.op \in ToWorker \/ workAt' = workAt
  PROVE  WorkerTells'
<1> DEFINE X == [from : Callers \cup {Worker}, msg : AllCalls \cup ReportCalls]
<1>1. trackQ \in Seq(X)
  BY DEF TrainsTypeOK
<1>2. PICK q : q = Tail(trackQ)
  OBVIOUS
<1> HIDE DEF X
<1>3. /\ trackQ' = q /\ Head(trackQ) = trackQ[1] /\ 1 \in DOMAIN trackQ
      /\ \A i \in DOMAIN q : i + 1 \in DOMAIN trackQ /\ q[i] = trackQ[i + 1] /\ i + 1 # 1
      /\ \A i, j \in DOMAIN q : i + 1 = j + 1 => i = j
  BY <1>1, <1>2, TailIs DEF Taken
<1>4. ASSUME NEW i \in DOMAIN q, q[i].from = Worker PROVE workAt' = "telling"
  BY <1>3, <1>4 DEF WorkerTells
<1>5. \A i, j \in DOMAIN q : q[i].from = Worker /\ q[j].from = Worker => i = j
  BY <1>3 DEF WorkerTells
<1>6. ASSUME NEW i \in DOMAIN q
      PROVE  /\ q[i].from = Worker <=> q[i].msg.op \in ToWorker
             /\ q[i].from # Worker => q[i].from \in Slots /\ q[i].msg.op \in ToTrack
             /\ q[i].msg.op = "SENSOR" => q[i].msg \in ReportCalls
             /\ q[i].msg.op = "TRAIN" => q[i].msg.state = rail[q[i].msg.id]
  BY <1>3 DEF WorkerTells
<1> QED
  BY <1>3, <1>4, <1>5, <1>6 DEF WorkerTells

LEMMA TakenOnce ==
  ASSUME TrainsTypeOK, ReportsOnce, trackQ # <<>>, Taken, reports' = reports,
         workAt' \in {"telling", "report"} \/ workAt' = workAt
  PROVE  ReportsOnce'
<1>1. PICK q : q = Tail(trackQ)
  OBVIOUS
<1>2. trackQ' = q /\ \A i \in DOMAIN q : i + 1 \in DOMAIN trackQ /\ q[i] = trackQ[i + 1]
  <2> DEFINE X == [from : Callers \cup {Worker}, msg : AllCalls \cup ReportCalls]
  <2>1. trackQ \in Seq(X) /\ trackQ' = q
    BY <1>1 DEF TrainsTypeOK, Taken
  <2> HIDE DEF X
  <2> QED
    BY <1>1, <2>1, TailIs
<1> QED
  BY <1>2 DEF ReportsOnce

LEMMA TakenSpeeds ==
  ASSUME TrainsTypeOK, SpeedsAgree, trackQ # <<>>, Taken, Head(trackQ).msg.op # "TRAIN",
         rail' = rail, train_speed' = train_speed,
         workAt = "sent" => workAt' = "sent" /\ job' = job
  PROVE  SpeedsAgree'
<1>1. PICK q : q = Tail(trackQ)
  OBVIOUS
<1>2. /\ trackQ' = q /\ Head(trackQ) = trackQ[1]
      /\ \A i \in DOMAIN trackQ : i # 1 => i - 1 \in DOMAIN q /\ q[i - 1] = trackQ[i]
  <2> DEFINE X == [from : Callers \cup {Worker}, msg : AllCalls \cup ReportCalls]
  <2>1. trackQ \in Seq(X)
    BY DEF TrainsTypeOK
  <2> HIDE DEF X
  <2> QED
    BY <1>1, <2>1, TailIs DEF Taken
<1>3. ASSUME NEW t \in TrainIds, train_speed[t] # rail[t]
      PROVE  \/ workAt = "sent" /\ job = Set(t, rail[t])
             \/ \E i \in DOMAIN q : q[i] = Message(Worker, Set(t, rail[t]))
  <2> SUFFICES ASSUME ~ (workAt = "sent" /\ job = Set(t, rail[t]))
               PROVE  \E i \in DOMAIN q : q[i] = Message(Worker, Set(t, rail[t]))
    OBVIOUS
  <2>1. PICK i \in DOMAIN trackQ : trackQ[i] = Message(Worker, Set(t, rail[t]))
    BY <1>3 DEF SpeedsAgree
  <2>2. i # 1
    BY <1>2, <2>1 DEF Message, Set
  <2> QED
    BY <1>2, <2>1, <2>2
<1> QED
  BY <1>2, <1>3 DEF SpeedsAgree

LEMMA TakenComplete ==
  ASSUME TrainsTypeOK, ReportsComplete, trackQ # <<>>, Taken, Head(trackQ).msg.op # "SENSOR",
         reports' = reports, told' = told, seen' = seen
  PROVE  ReportsComplete'
<1>1. PICK q : q = Tail(trackQ)
  OBVIOUS
<1>2. /\ trackQ' = q /\ Head(trackQ) = trackQ[1]
      /\ \A i \in DOMAIN q : i + 1 \in DOMAIN trackQ /\ q[i] = trackQ[i + 1]
      /\ \A i \in DOMAIN trackQ : i # 1 => i - 1 \in DOMAIN q /\ q[i - 1] = trackQ[i]
  <2> DEFINE X == [from : Callers \cup {Worker}, msg : AllCalls \cup ReportCalls]
  <2>1. trackQ \in Seq(X)
    BY DEF TrainsTypeOK
  <2> HIDE DEF X
  <2> QED
    BY <1>1, <2>1, TailIs DEF Taken
<1>3. trackQ[1].msg \notin ReportCalls
  BY <1>2 DEF ReportCalls
<1>4. {q[i].msg : i \in DOMAIN q} \cap ReportCalls
        = {trackQ[i].msg : i \in DOMAIN trackQ} \cap ReportCalls
  BY <1>2, <1>3
<1> QED
  BY <1>2, <1>4 DEF ReportsComplete, Untold

LEMMA TakenSleepers ==
  ASSUME TrainsTypeOK, TrackSleepers, trackQ # <<>>, Taken,
         UNCHANGED <<asleep, todo, awaiting>>
  PROVE  TrackSleepers'
<1>1. PICK q : q = Tail(trackQ)
  OBVIOUS
<1>2. /\ trackQ' = q
      /\ \A i \in DOMAIN q : i + 1 \in DOMAIN trackQ /\ q[i] = trackQ[i + 1]
      /\ \A i, j \in DOMAIN q : i + 1 = j + 1 => i = j
  <2> DEFINE X == [from : Callers \cup {Worker}, msg : AllCalls \cup ReportCalls]
  <2>1. trackQ \in Seq(X) /\ trackQ' = q
    BY <1>1 DEF TrainsTypeOK, Taken
  <2> HIDE DEF X
  <2> QED
    BY <1>1, <2>1, TailIs
<1> QED
  BY <1>2 DEF TrackSleepers

\* A message more for the track server.
LEMMA SentIs ==
  ASSUME TrainsTypeOK, NEW f \in Callers \cup {Worker}, NEW m \in AllCalls \cup ReportCalls,
         trackQ' = Append(trackQ, Message(f, m))
  PROVE  /\ trackQ' \in Seq([from : Callers \cup {Worker}, msg : AllCalls \cup ReportCalls])
         /\ \A i \in DOMAIN trackQ : i \in DOMAIN trackQ' /\ trackQ'[i] = trackQ[i]
         /\ \E n \in DOMAIN trackQ' :
              /\ trackQ'[n] = Message(f, m)
              /\ \A i \in DOMAIN trackQ' : i # n => i \in DOMAIN trackQ
<1> DEFINE X == [from : Callers \cup {Worker}, msg : AllCalls \cup ReportCalls]
<1>1. trackQ \in Seq(X) /\ Message(f, m) \in X
  BY DEF TrainsTypeOK, Message
<1>2. Message(f, m).from = f /\ Message(f, m).msg = m
  BY DEF Message
<1> HIDE DEF X
<1>3. /\ trackQ' \in Seq(X)
      /\ \A i \in DOMAIN trackQ : i \in DOMAIN trackQ' /\ trackQ'[i] = trackQ[i]
      /\ Len(trackQ) + 1 \in DOMAIN trackQ' /\ trackQ'[Len(trackQ) + 1] = Message(f, m)
      /\ \A i \in DOMAIN trackQ' : i \in DOMAIN trackQ \/ i = Len(trackQ) + 1
  BY <1>1, AppendIs
<1> QED
  BY <1>2, <1>3 DEF X

LEMMA SentLast ==
  ASSUME TrainsTypeOK, NEW f \in Callers \cup {Worker}, NEW m \in AllCalls \cup ReportCalls,
         trackQ' = Append(trackQ, Message(f, m))
  PROVE  \E n \in DOMAIN trackQ' :
           /\ trackQ'[n].from = f /\ trackQ'[n].msg = m
           /\ \A i \in DOMAIN trackQ' : i # n => i \in DOMAIN trackQ /\ trackQ'[i] = trackQ[i]
<1>1. PICK n \in DOMAIN trackQ' :
        /\ trackQ'[n] = Message(f, m)
        /\ \A i \in DOMAIN trackQ' : i # n => i \in DOMAIN trackQ
  BY SentIs
<1>2. \A i \in DOMAIN trackQ : trackQ'[i] = trackQ[i]
  BY SentIs
<1>3. Message(f, m).from = f /\ Message(f, m).msg = m
  BY MessageIs
<1>4. trackQ'[n].from = f /\ trackQ'[n].msg = m
  BY <1>1, <1>3
<1> QED
  BY <1>1, <1>2, <1>4

LEMMA SentSpeeds ==
  ASSUME TrainsTypeOK, SpeedsAgree, NEW f \in Callers \cup {Worker}, NEW m \in AllCalls \cup ReportCalls,
         trackQ' = Append(trackQ, Message(f, m)), rail' = rail, train_speed' = train_speed,
         workAt = "sent" => workAt' = "sent" /\ job' = job
  PROVE  SpeedsAgree'
<1>1. \A i \in DOMAIN trackQ : i \in DOMAIN trackQ' /\ trackQ'[i] = trackQ[i]
  BY SentIs
<1> QED
  BY <1>1 DEF SpeedsAgree

LEMMA SentComplete ==
  ASSUME TrainsTypeOK, ReportsComplete, NEW f \in Callers \cup {Worker}, NEW m \in AllCalls,
         trackQ' = Append(trackQ, Message(f, m)),
         reports' = reports, told' = told, seen' = seen
  PROVE  ReportsComplete'
<1>1. m \notin ReportCalls
  BY Kinds
<1>2. PICK q : q = trackQ'
  OBVIOUS
<1>3. {q[i].msg : i \in DOMAIN q} \cap ReportCalls
        = {trackQ[i].msg : i \in DOMAIN trackQ} \cap ReportCalls
  <2>1. \A i \in DOMAIN trackQ : i \in DOMAIN q /\ q[i] = trackQ[i]
    BY <1>2, SentIs
  <2>2. \A i \in DOMAIN q : q[i].msg = m \/ (i \in DOMAIN trackQ /\ q[i] = trackQ[i])
    <3>1. PICK n \in DOMAIN q :
            q[n] = Message(f, m) /\ \A i \in DOMAIN q : i # n => i \in DOMAIN trackQ
      BY <1>2, SentIs
    <3>2. q[n].msg = m
      BY <3>1 DEF Message
    <3> QED
      BY <2>1, <3>1, <3>2
  <2> QED
    BY <1>1, <2>1, <2>2
<1> QED
  BY <1>2, <1>3 DEF ReportsComplete, Untold

\* What a step leaves alone stays true.
LEMMA TellsUntouched ==
  ASSUME WorkerTells, UNCHANGED <<trackQ, workAt, rail>> PROVE WorkerTells'
BY DEF WorkerTells

LEMMA SpeedsUntouched ==
  ASSUME SpeedsAgree, UNCHANGED <<trackQ, rail, train_speed>>,
         workAt = "sent" => workAt' = "sent" /\ job' = job
  PROVE  SpeedsAgree'
BY DEF SpeedsAgree

LEMMA JobUntouched ==
  ASSUME JobInHand, rail' = rail, workAt' = "sent" => workAt = "sent" /\ job' = job
  PROVE  JobInHand'
BY DEF JobInHand

LEMMA OnceUntouched ==
  ASSUME ReportsOnce, UNCHANGED <<trackQ, workAt, reports>> PROVE ReportsOnce'
BY DEF ReportsOnce

LEMMA CompleteUntouched ==
  ASSUME ReportsComplete, UNCHANGED <<trackQ, reports, told, seen>> PROVE ReportsComplete'
BY DEF ReportsComplete, Untold

-----------------------------------------------------------------------------
(* The steps.                                                              *)

LEMMA TrainsInitHolds == TrainsInit => TrainsInv
<1> SUFFICES ASSUME TrainsInit PROVE TrainsInv
  OBVIOUS
<1>1. TrainsTypeOK
  <2>1. /\ todo \in [Callers -> Seq(AllCalls)]
        /\ workQ \in Seq([from : Callers, msg : AllCalls])
        /\ reports \in Seq([sensor : Sensors, released : BOOLEAN])
        /\ trackQ \in Seq([from : Callers \cup {Worker}, msg : AllCalls \cup ReportCalls])
        /\ again \in Seq(Slots) /\ awaiting \in Seq(Slots)
    BY NoEntries DEF TrainsInit
  <2>2. Read \in AllCalls
    BY DEF AllCalls
  <2> QED
    BY <2>1, <2>2 DEF TrainsInit, TrainsTypeOK, Callers
<1>2. DOMAIN trackQ = {} /\ DOMAIN workQ = {} /\ DOMAIN reports = {} /\ DOMAIN awaiting = {}
  BY NoEntries DEF TrainsInit
<1>3. WorkerTells
  BY <1>2 DEF WorkerTells
<1>4. SpeedsAgree
  BY DEF TrainsInit, SpeedsAgree
<1>5. ReportsOnce /\ JobInHand
  BY <1>2 DEF TrainsInit, ReportsOnce, JobInHand
<1>6. CallersBusy
  BY DEF TrainsInit, CallersBusy
<1>7. ReportsComplete
  <2>1. Changes(told, seen) = {}
    BY DEF TrainsInit, Changes
  <2>2. {trackQ[i].msg : i \in DOMAIN trackQ} = {} /\ ToSet(reports) = {}
    BY <1>2 DEF ToSet
  <2> QED
    BY <2>1, <2>2 DEF ReportsComplete, Untold
<1>8. SleepersPlaced
  <2>1. ToSet(awaiting) = {}
    BY <1>2 DEF ToSet
  <2>2. WorkerSleepers
    BY <1>2 DEF TrainsInit, WorkerSleepers
  <2>3. TrackSleepers
    BY <1>2, <2>1 DEF TrackSleepers
  <2> QED
    BY <2>2, <2>3 DEF TrainsInit, SleepersPlaced
<1> QED
  BY <1>1, <1>3, <1>4, <1>5, <1>6, <1>7, <1>8 DEF TrainsInv

\* A task that is awake goes on with other calls.
LEMMA MovesHolds ==
  ASSUME TrainsInv, NEW t \in Slots, asleep[t] = "", NEW p \in Seq(AllCalls),
         todo' = [todo EXCEPT ![t] = p],
         UNCHANGED <<asleep, workQ, workAt, client, job, seen, reports, trackQ, again, awaiting,
                     train_speed, sw_states, rail, told, askedSwitches>>
  PROVE  TrainsInv'
<1>1. TrainsTypeOK /\ CallersBusy /\ SleepersPlaced /\ t \in Callers
  BY DEF TrainsInv, Callers
<1>2. TrainsTypeOK'
  BY <1>1 DEF TrainsTypeOK
<1>3. \A u \in Callers : asleep[u] # "" => todo'[u] = todo[u]
  BY <1>1 DEF TrainsTypeOK
<1>4. CallersBusy'
  BY <1>1, <1>3 DEF CallersBusy
<1>5. ASSUME ~ askedSwitches PROVE TrackSleepers'
  <2>1. ASSUME NEW i \in DOMAIN trackQ, trackQ[i].from # Worker
        PROVE  todo'[trackQ[i].from] = todo[trackQ[i].from]
    BY <1>1, <1>3, <1>5, <2>1, QueueTypes DEF SleepersPlaced, TrackSleepers
  <2>2. \A u \in ToSet(awaiting) : todo'[u] = todo[u]
    BY <1>1, <1>3, <1>5, QueueTypes DEF SleepersPlaced, TrackSleepers
  <2>3. TrackSleepers
    BY <1>1, <1>5 DEF SleepersPlaced
  <2>4. \A i \in DOMAIN trackQ : trackQ[i].from # Worker =>
          /\ asleep[trackQ[i].from] = "track" /\ trackQ[i].msg = Head(todo'[trackQ[i].from])
          /\ trackQ[i].from \notin ToSet(awaiting)
    BY <2>1, <2>3 DEF TrackSleepers
  <2>5. \A u \in ToSet(awaiting) : asleep[u] = "track" /\ Head(todo'[u]).op = "AWAIT"
    BY <2>2, <2>3 DEF TrackSleepers
  <2> QED
    BY <2>3, <2>4, <2>5 DEF TrackSleepers
<1>6. SleepersPlaced'
  BY <1>1, <1>5 DEF SleepersPlaced, WorkerSleepers
<1> QED
  BY <1>2, <1>4, <1>6, TellsUntouched, SpeedsUntouched, JobUntouched, OnceUntouched, CompleteUntouched
  DEF TrainsInv

LEMMA CommandHolds ==
  ASSUME TrainsInv, NEW t \in Slots, Command(t)
  PROVE  TrainsInv'
<1>1. PICK p \in Seq(AllCalls) : todo' = [todo EXCEPT ![t] = p]
  BY CommandsAssumption DEF Command
<1>2. asleep[t] = ""
  BY DEF TrainsInv, CallersBusy, Callers, Command
<1> QED
  BY <1>1, <1>2, MovesHolds DEF Command

\* A message more for the worker.
LEMMA AskedIs ==
  ASSUME TrainsTypeOK, NEW f \in Callers, NEW m \in AllCalls, workQ' = Append(workQ, Message(f, m))
  PROVE  /\ workQ' \in Seq([from : Callers, msg : AllCalls])
         /\ \A i \in DOMAIN workQ : i \in DOMAIN workQ' /\ workQ'[i] = workQ[i]
         /\ \E n \in DOMAIN workQ' :
              /\ workQ'[n].from = f /\ workQ'[n].msg = m
              /\ \A i \in DOMAIN workQ' : i # n => i \in DOMAIN workQ
<1> DEFINE X == [from : Callers, msg : AllCalls]
<1>1. workQ \in Seq(X) /\ Message(f, m) \in X
  BY DEF TrainsTypeOK, Message
<1>2. Message(f, m).from = f /\ Message(f, m).msg = m
  BY DEF Message
<1> HIDE DEF X
<1>3. /\ workQ' \in Seq(X)
      /\ \A i \in DOMAIN workQ : i \in DOMAIN workQ' /\ workQ'[i] = workQ[i]
      /\ Len(workQ) + 1 \in DOMAIN workQ' /\ workQ'[Len(workQ) + 1] = Message(f, m)
      /\ \A i \in DOMAIN workQ' : i \in DOMAIN workQ \/ i = Len(workQ) + 1
  BY <1>1, AppendIs
<1> QED
  BY <1>2, <1>3 DEF X

\* A task that was awake calls the worker.
LEMMA AskedPlaced ==
  ASSUME TrainsTypeOK, SleepersPlaced, NEW f \in Callers, NEW m \in AllCalls, asleep[f] = "",
         workQ' = Append(workQ, Message(f, m)), asleep' = [asleep EXCEPT ![f] = "worker"],
         \A u \in Callers \ {f} : todo'[u] = todo[u],
         UNCHANGED <<workAt, client, trackQ, again, awaiting, askedSwitches>>
  PROVE  SleepersPlaced'
<1> SUFFICES ASSUME ~ askedSwitches PROVE WorkerSleepers' /\ TrackSleepers'
  BY DEF SleepersPlaced
<1>1. again = <<>> /\ WorkerSleepers /\ TrackSleepers
  BY DEF SleepersPlaced
<1>2. asleep'[f] = "worker" /\ \A u \in Callers : u # f => asleep'[u] = asleep[u]
  BY DEF TrainsTypeOK
<1>3. WorkerSleepers'
  <2>1. PICK n \in DOMAIN workQ' :
          /\ workQ'[n].from = f
          /\ \A i \in DOMAIN workQ' : i # n => i \in DOMAIN workQ /\ workQ'[i] = workQ[i]
    <3>1. PICK n \in DOMAIN workQ' :
            workQ'[n].from = f /\ \A i \in DOMAIN workQ' : i # n => i \in DOMAIN workQ
      BY AskedIs
    <3>2. \A i \in DOMAIN workQ : workQ'[i] = workQ[i]
      BY AskedIs
    <3> QED
      BY <3>1, <3>2
  <2>2. \A i \in DOMAIN workQ : workQ[i].from \in Callers /\ workQ[i].from # f
    BY <1>1, QueueTypes DEF WorkerSleepers
  <2>3. client \in Callers /\ (workAt # "recv" => client # f)
    BY <1>1 DEF WorkerSleepers, TrainsTypeOK
  <2>4. ASSUME NEW i \in DOMAIN workQ', i # n
        PROVE  /\ workQ'[i].from # f /\ asleep'[workQ'[i].from] = "worker"
               /\ workAt # "recv" => workQ'[i].from # client
    <3>1. i \in DOMAIN workQ /\ workQ'[i] = workQ[i]
      BY <2>1, <2>4
    <3>2. /\ asleep[workQ[i].from] = "worker"
          /\ workAt # "recv" => workQ[i].from # client
      BY <1>1, <3>1 DEF WorkerSleepers
    <3> QED
      BY <1>2, <2>2, <3>1, <3>2
  <2>5. ASSUME NEW i \in DOMAIN workQ', NEW j \in DOMAIN workQ', workQ'[i].from = workQ'[j].from
        PROVE  i = j
    <3>1. CASE i # n /\ j # n
      <4>1. i \in DOMAIN workQ /\ workQ'[i] = workQ[i] /\ j \in DOMAIN workQ /\ workQ'[j] = workQ[j]
        BY <2>1, <3>1
      <4>2. \A k, l \in DOMAIN workQ : workQ[k].from = workQ[l].from => k = l
        BY <1>1 DEF WorkerSleepers
      <4> QED
        BY <2>5, <4>1, <4>2
    <3>2. CASE i = n \/ j = n
      <4>1. \A k \in DOMAIN workQ' : k # n => workQ'[k].from # f
        BY <2>4
      <4>2. workQ'[n].from = f
        BY <2>1
      <4> QED
        BY <2>5, <3>2, <4>1, <4>2
    <3> QED
      BY <3>1, <3>2
  <2>6. \A i \in DOMAIN workQ' :
          asleep'[workQ'[i].from] = "worker" /\ (workAt # "recv" => workQ'[i].from # client)
    BY <1>2, <2>1, <2>3, <2>4
  <2>7. workAt # "recv" => asleep'[client] = "worker"
    BY <1>1, <1>2, <2>3 DEF WorkerSleepers
  <2> QED
    BY <2>5, <2>6, <2>7 DEF WorkerSleepers
<1>4. TrackSleepers'
  <2>1. \A i \in DOMAIN trackQ : trackQ[i].from # Worker =>
          /\ asleep'[trackQ[i].from] = asleep[trackQ[i].from]
          /\ todo'[trackQ[i].from] = todo[trackQ[i].from]
    BY <1>1, <1>2, QueueTypes DEF TrackSleepers
  <2>2. \A u \in ToSet(awaiting) : asleep'[u] = asleep[u] /\ todo'[u] = todo[u]
    BY <1>1, <1>2, QueueTypes DEF TrackSleepers
  <2>3. \A u \in ToSet(awaiting) : asleep'[u] = "track" /\ Head(todo'[u]).op = "AWAIT"
    BY <1>1, <2>2 DEF TrackSleepers
  <2>4. \A i \in DOMAIN trackQ : trackQ[i].from # Worker =>
          /\ asleep'[trackQ[i].from] = "track" /\ trackQ[i].msg = Head(todo'[trackQ[i].from])
          /\ trackQ[i].from \notin ToSet(awaiting)
    BY <1>1, <2>1 DEF TrackSleepers
  <2> QED
    BY <1>1, <2>3, <2>4 DEF TrackSleepers
<1> QED
  BY <1>3, <1>4

LEMMA ReaderAsksHolds ==
  ASSUME TrainsInv, ReaderAsks
  PROVE  TrainsInv'
<1>1. TrainsTypeOK /\ CallersBusy /\ SleepersPlaced
  BY DEF TrainsInv
<1>2. Reader \in Callers /\ Read \in AllCalls /\ asleep[Reader] = ""
  <2>1. Reader \in Callers /\ Read \in AllCalls
    BY DEF Callers, AllCalls
  <2> QED
    BY <1>1, <2>1 DEF CallersBusy, ReaderAsks
<1>3. workQ' \in Seq([from : Callers, msg : AllCalls])
  BY <1>1, <1>2, AskedIs DEF ReaderAsks
<1>4. TrainsTypeOK'
  <2>1. <<Read>> \in Seq(AllCalls)
    BY <1>2, OneEntry
  <2>2. todo' \in [Callers -> Seq(AllCalls)]
    BY <1>1, <1>2, <2>1 DEF TrainsTypeOK, ReaderAsks
  <2>3. asleep' \in [Callers -> {"", "worker", "track"}]
    BY <1>1, <1>2 DEF TrainsTypeOK, ReaderAsks
  <2> QED
    BY <1>1, <1>3, <2>2, <2>3 DEF TrainsTypeOK, ReaderAsks
<1>5. CallersBusy'
  BY <1>1, <1>2 DEF CallersBusy, ReaderAsks, TrainsTypeOK
<1>6. \A u \in Callers \ {Reader} : todo'[u] = todo[u]
  BY <1>1 DEF ReaderAsks, TrainsTypeOK
<1>7. SleepersPlaced'
  BY <1>1, <1>2, <1>6, AskedPlaced DEF ReaderAsks
<1> QED
  BY <1>4, <1>5, <1>7, TellsUntouched, SpeedsUntouched, JobUntouched, OnceUntouched, CompleteUntouched
  DEF TrainsInv, ReaderAsks

\* The call that t comes to.
NextCall(m, t) == m = Head(todo[t])

\* A task that was awake calls the track server.
LEMMA CalledHolds ==
  ASSUME TrainsInv, NEW t \in Slots, asleep[t] = "", todo[t] # <<>>,
         NEW m \in AllCalls, NextCall(m, t), m.op \in ToTrack,
         trackQ' = Append(trackQ, Message(t, m)), asleep' = [asleep EXCEPT ![t] = "track"],
         UNCHANGED <<todo, workQ, workAt, client, job, seen, reports, again, awaiting, train_speed,
                     sw_states, rail, told, askedSwitches>>
  PROVE  TrainsInv'
<1>1. /\ TrainsTypeOK /\ CallersBusy /\ SleepersPlaced /\ t \in Callers
      /\ WorkerTells /\ SpeedsAgree /\ ReportsOnce /\ ReportsComplete /\ JobInHand
  BY DEF TrainsInv, Callers
<1>2. /\ asleep' \in [Callers -> {"", "worker", "track"}] /\ asleep'[t] = "track"
      /\ \A u \in Callers : u # t => asleep'[u] = asleep[u]
  BY <1>1 DEF TrainsTypeOK
<1>3. trackQ' \in Seq([from : Callers \cup {Worker}, msg : AllCalls \cup ReportCalls])
  BY <1>1, SentIs
<1>4. TrainsTypeOK'
  BY <1>1, <1>2, <1>3 DEF TrainsTypeOK
<1>5. PICK n \in DOMAIN trackQ' :
        /\ trackQ'[n].from = t /\ trackQ'[n].msg = m
        /\ \A i \in DOMAIN trackQ' : i # n => i \in DOMAIN trackQ /\ trackQ'[i] = trackQ[i]
  <2>1. t \in Callers \cup {Worker} /\ m \in AllCalls \cup ReportCalls
    BY <1>1
  <2> QED
    BY <1>1, <2>1, SentLast
<1>6. PICK q : q = trackQ'
  OBVIOUS
<1>7. /\ n \in DOMAIN q /\ q[n].from = t /\ q[n].msg = m /\ t # Worker /\ m.op \in ToTrack
      /\ \A i \in DOMAIN q : i # n => i \in DOMAIN trackQ /\ q[i] = trackQ[i]
  BY <1>1, <1>5, <1>6, QueueTypes
<1>8. m.op \notin ToWorker
  BY DEF ToTrack, ToWorker
<1>9. WorkerTells'
  <2>1. ASSUME NEW i \in DOMAIN q
        PROVE  /\ q[i].from = Worker <=> q[i].msg.op \in ToWorker
               /\ q[i].from = Worker => workAt = "telling"
               /\ q[i].from # Worker => q[i].from \in Slots /\ q[i].msg.op \in ToTrack
               /\ q[i].msg.op = "SENSOR" => q[i].msg \in ReportCalls
               /\ q[i].msg.op = "TRAIN" => q[i].msg.state = rail[q[i].msg.id]
    <3>1. CASE i = n
      BY <1>1, <1>7, <1>8, <3>1 DEF ToWorker
    <3>2. CASE i # n
      <4>1. i \in DOMAIN trackQ /\ q[i] = trackQ[i]
        BY <1>7, <3>2
      <4>2. /\ trackQ[i].from = Worker <=> trackQ[i].msg.op \in ToWorker
            /\ trackQ[i].from = Worker => workAt = "telling"
            /\ trackQ[i].from # Worker => trackQ[i].from \in Slots /\ trackQ[i].msg.op \in ToTrack
            /\ trackQ[i].msg.op = "SENSOR" => trackQ[i].msg \in ReportCalls
            /\ trackQ[i].msg.op = "TRAIN" => trackQ[i].msg.state = rail[trackQ[i].msg.id]
        BY <1>1, <4>1 DEF WorkerTells
      <4> QED
        BY <4>1, <4>2
    <3> QED
      BY <3>1, <3>2
  <2>2. \A i, j \in DOMAIN q : q[i].from = Worker /\ q[j].from = Worker => i = j
    BY <1>1, <1>7 DEF WorkerTells
  <2> QED
    BY <1>6, <2>1, <2>2 DEF WorkerTells
<1>10. SpeedsAgree' /\ ReportsComplete' /\ JobInHand'
  BY <1>1, SentSpeeds, SentComplete, JobUntouched
<1>11. ReportsOnce'
  <2>1. m.op # "SENSOR"
    BY DEF ToTrack
  <2> QED
    BY <1>1, <1>6, <1>7, <2>1 DEF ReportsOnce
<1>12. CallersBusy'
  BY <1>1, <1>2 DEF CallersBusy
<1>13. SleepersPlaced'
  <2> SUFFICES ASSUME ~ askedSwitches PROVE again' = <<>> /\ WorkerSleepers' /\ TrackSleepers'
    BY DEF SleepersPlaced
  <2>1. again = <<>> /\ WorkerSleepers /\ TrackSleepers
    BY <1>1 DEF SleepersPlaced
  <2>2. WorkerSleepers'
    <3>1. \A i \in DOMAIN workQ : asleep'[workQ[i].from] = asleep[workQ[i].from]
      BY <1>1, <1>2, <2>1, QueueTypes DEF WorkerSleepers
    <3>2. workAt # "recv" => asleep'[client] = asleep[client]
      BY <1>1, <1>2, <2>1 DEF WorkerSleepers, TrainsTypeOK
    <3> QED
      BY <2>1, <3>1, <3>2 DEF WorkerSleepers
  <2>3. TrackSleepers'
    <3>1. \A u \in ToSet(awaiting) : u # t /\ asleep'[u] = asleep[u]
      BY <1>1, <1>2, <2>1, QueueTypes DEF TrackSleepers
    <3>2. ASSUME NEW i \in DOMAIN q, i # n
          PROVE  /\ q[i].from # t
                 /\ q[i].from # Worker =>
                      /\ asleep'[q[i].from] = "track" /\ q[i].msg = Head(todo[q[i].from])
                      /\ q[i].from \notin ToSet(awaiting)
      <4>1. i \in DOMAIN trackQ /\ q[i] = trackQ[i] /\ trackQ[i].from \in Callers \cup {Worker}
        BY <1>1, <1>7, <3>2, QueueTypes
      <4>2. trackQ[i].from # Worker =>
              /\ asleep[trackQ[i].from] = "track" /\ trackQ[i].msg = Head(todo[trackQ[i].from])
              /\ trackQ[i].from \notin ToSet(awaiting)
        BY <2>1, <4>1 DEF TrackSleepers
      <4>3. trackQ[i].from # t
        BY <1>7, <4>1, <4>2
      <4> QED
        BY <1>2, <4>1, <4>2, <4>3
    <3>3. \A i \in DOMAIN q : q[i].from # Worker =>
            /\ asleep'[q[i].from] = "track" /\ q[i].msg = Head(todo[q[i].from])
            /\ q[i].from \notin ToSet(awaiting)
      BY <1>2, <1>7, <3>1, <3>2 DEF NextCall
    <3>4. \A i, j \in DOMAIN q : q[i].from = q[j].from => i = j
      <4>1. \A i \in DOMAIN q : i # n => q[i].from # t
        BY <3>2
      <4>2. \A i, j \in DOMAIN trackQ : trackQ[i].from = trackQ[j].from => i = j
        BY <2>1 DEF TrackSleepers
      <4> QED
        BY <1>7, <4>1, <4>2
    <3>5. \A u \in ToSet(awaiting) : asleep'[u] = "track" /\ Head(todo[u]).op = "AWAIT"
      BY <2>1, <3>1 DEF TrackSleepers
    <3>6. trackQ' = q /\ todo' = todo /\ awaiting' = awaiting
      BY <1>6
    <3>7. \A i \in DOMAIN trackQ' : trackQ'[i].from # Worker =>
            /\ asleep'[trackQ'[i].from] = "track" /\ trackQ'[i].msg = Head(todo'[trackQ'[i].from])
            /\ trackQ'[i].from \notin ToSet(awaiting')
      BY <3>3, <3>6
    <3>8. \A i, j \in DOMAIN trackQ' : trackQ'[i].from = trackQ'[j].from => i = j
      BY <3>4, <3>6
    <3>9. \A u \in ToSet(awaiting') : asleep'[u] = "track" /\ Head(todo'[u]).op = "AWAIT"
      BY <3>5, <3>6
    <3> QED
      BY <3>7, <3>8, <3>9 DEF TrackSleepers
  <2> QED
    BY <2>1, <2>2, <2>3
<1> QED
  BY <1>4, <1>9, <1>10, <1>11, <1>12, <1>13 DEF TrainsInv

LEMMA CallsHolds ==
  ASSUME TrainsInv, NEW t \in Slots, Calls(t)
  PROVE  TrainsInv'
<1>1. /\ TrainsTypeOK /\ CallersBusy /\ SleepersPlaced /\ t \in Callers
      /\ asleep[t] = "" /\ todo[t] # <<>>
  BY DEF TrainsInv, Callers, Calls
<1>2. todo[t] \in Seq(AllCalls)
  BY <1>1 DEF TrainsTypeOK
<1>3. PICK m \in AllCalls : m = Head(todo[t])
  BY <1>1, <1>2, TailIs
<1>4. CASE /\ m.op \in ToWorker
           /\ workQ' = Append(workQ, Message(t, m))
           /\ asleep' = [asleep EXCEPT ![t] = "worker"] /\ UNCHANGED <<todo, trackQ>>
  <2>1. workQ' \in Seq([from : Callers, msg : AllCalls])
    BY <1>1, <1>4, AskedIs
  <2>2. TrainsTypeOK'
    BY <1>1, <1>4, <2>1 DEF TrainsTypeOK, Calls
  <2>3. CallersBusy'
    BY <1>1, <1>4 DEF CallersBusy, TrainsTypeOK
  <2>4. SleepersPlaced'
    BY <1>1, <1>4, AskedPlaced DEF Calls
  <2> QED
    BY <1>4, <2>2, <2>3, <2>4, TellsUntouched, SpeedsUntouched, JobUntouched, OnceUntouched, CompleteUntouched
    DEF TrainsInv, Calls
<1>5. CASE /\ m.op \in ToTrack
           /\ trackQ' = Append(trackQ, Message(t, m))
           /\ asleep' = [asleep EXCEPT ![t] = "track"] /\ UNCHANGED <<todo, workQ>>
  BY <1>1, <1>3, <1>5, CalledHolds DEF Calls, NextCall
<1>6. CASE todo' = [todo EXCEPT ![t] = Tail(@)] /\ UNCHANGED <<asleep, workQ, trackQ>>
  <2>1. PICK p \in Seq(AllCalls) : p = Tail(todo[t])
    BY <1>1, <1>2, TailIs
  <2> QED
    BY <1>1, <1>6, <2>1, MovesHolds DEF Calls
<1> QED
  BY <1>3, <1>4, <1>5, <1>6 DEF Calls

-----------------------------------------------------------------------------
(* The steps of the worker.                                                *)

\* The worker takes the message of another task.
LEMMA WorkerTakes ==
  ASSUME TrainsTypeOK, workQ # <<>>, workQ' = Tail(workQ), client' = Head(workQ).from,
         asleep' = asleep
  PROVE  /\ workQ' \in Seq([from : Callers, msg : AllCalls])
         /\ client' \in Callers /\ Head(workQ).msg \in AllCalls
         /\ WorkerSleepers => WorkerSleepers'
<1> DEFINE X == [from : Callers, msg : AllCalls]
<1>1. workQ \in Seq(X)
  BY DEF TrainsTypeOK
<1>2. PICK q : q = Tail(workQ)
  OBVIOUS
<1> HIDE DEF X
<1>3. /\ q \in Seq(X) /\ Head(workQ) \in X /\ Head(workQ) = workQ[1] /\ 1 \in DOMAIN workQ
      /\ \A i \in DOMAIN q : i + 1 \in DOMAIN workQ /\ q[i] = workQ[i + 1] /\ i + 1 # 1
      /\ \A i, j \in DOMAIN q : i + 1 = j + 1 => i = j
  BY <1>1, <1>2, TailIs
<1>4. ASSUME WorkerSleepers PROVE WorkerSleepers'
  <2>1. asleep[workQ[1].from] = "worker"
    BY <1>3, <1>4 DEF WorkerSleepers
  <2>2. ASSUME NEW i \in DOMAIN q
        PROVE  asleep[q[i].from] = "worker" /\ q[i].from # workQ[1].from
    BY <1>3, <1>4 DEF WorkerSleepers
  <2>3. \A i, j \in DOMAIN q : q[i].from = q[j].from => i = j
    BY <1>3, <1>4 DEF WorkerSleepers
  <2> QED
    BY <1>2, <1>3, <2>1, <2>2, <2>3 DEF WorkerSleepers
<1> QED
  BY <1>2, <1>3, <1>4 DEF X

\* The worker tells the track server.
LEMMA WorkerSays ==
  ASSUME TrainsTypeOK, WorkerTells, workAt # "telling",
         NEW m \in AllCalls \cup ReportCalls, m.op \in ToWorker,
         trackQ' = Append(trackQ, Message(Worker, m)),
         UNCHANGED <<asleep, todo, awaiting>>
  PROVE  /\ trackQ' \in Seq([from : Callers \cup {Worker}, msg : AllCalls \cup ReportCalls])
         /\ \E n \in DOMAIN trackQ' :
              /\ trackQ'[n].from = Worker /\ trackQ'[n].msg = m
              /\ \A i \in DOMAIN trackQ' : i # n =>
                   /\ i \in DOMAIN trackQ /\ trackQ'[i] = trackQ[i]
                   /\ trackQ'[i].from # Worker /\ trackQ'[i].from \in Slots /\ trackQ'[i].msg.op \in ToTrack
         /\ TrackSleepers => TrackSleepers'
<1>1. Worker \in Callers \cup {Worker}
  OBVIOUS
<1>2. PICK q : q = trackQ'
  OBVIOUS
<1>3. PICK n \in DOMAIN q :
        /\ q[n].from = Worker /\ q[n].msg = m
        /\ \A i \in DOMAIN q : i # n => i \in DOMAIN trackQ /\ q[i] = trackQ[i]
  BY <1>1, <1>2, SentLast
<1>4. \A i \in DOMAIN trackQ : trackQ[i].from # Worker /\ trackQ[i].from \in Slots /\ trackQ[i].msg.op \in ToTrack
  BY DEF WorkerTells
<1>5. ASSUME TrackSleepers PROVE TrackSleepers'
  <2>1. \A i \in DOMAIN q : q[i].from # Worker =>
          /\ asleep[q[i].from] = "track" /\ q[i].msg = Head(todo[q[i].from])
          /\ q[i].from \notin ToSet(awaiting)
    BY <1>3, <1>5 DEF TrackSleepers
  <2>2. \A i, j \in DOMAIN q : q[i].from = q[j].from => i = j
    BY <1>3, <1>4, <1>5 DEF TrackSleepers
  <2>3. \A t \in ToSet(awaiting) : asleep[t] = "track" /\ Head(todo[t]).op = "AWAIT"
    BY <1>5 DEF TrackSleepers
  <2> QED
    BY <1>2, <2>1, <2>2, <2>3 DEF TrackSleepers
<1>6. trackQ' \in Seq([from : Callers \cup {Worker}, msg : AllCalls \cup ReportCalls])
  BY <1>1, SentIs
<1> QED
  BY <1>2, <1>3, <1>4, <1>5, <1>6

\* What it tells is the only message of its.
LEMMA SaysTells ==
  ASSUME TrainsTypeOK, WorkerTells, workAt # "telling", workAt' = "telling",
         NEW m \in AllCalls \cup ReportCalls, m.op \in ToWorker,
         trackQ' = Append(trackQ, Message(Worker, m)),
         UNCHANGED <<asleep, todo, awaiting>>,
         m.op = "SENSOR" => m \in ReportCalls, m.op = "TRAIN" => m.state = rail'[m.id]
  PROVE  WorkerTells'
<1>1. PICK q : q = trackQ'
  OBVIOUS
<1>2. PICK n \in DOMAIN q :
        /\ q[n].from = Worker /\ q[n].msg = m
        /\ \A i \in DOMAIN q : i # n => q[i].from # Worker /\ q[i].from \in Slots /\ q[i].msg.op \in ToTrack
  BY <1>1, WorkerSays
<1>3. \A i \in DOMAIN q : i # n => q[i].msg.op \notin ToWorker
  BY <1>2 DEF ToTrack, ToWorker
<1>4. ASSUME NEW i \in DOMAIN q
      PROVE  /\ q[i].from = Worker <=> q[i].msg.op \in ToWorker
             /\ q[i].from # Worker => q[i].from \in Slots /\ q[i].msg.op \in ToTrack
             /\ q[i].msg.op = "SENSOR" => q[i].msg \in ReportCalls
             /\ q[i].msg.op = "TRAIN" => q[i].msg.state = rail'[q[i].msg.id]
  BY <1>2, <1>3 DEF ToWorker
<1>5. \A i, j \in DOMAIN q : q[i].from = Worker /\ q[j].from = Worker => i = j
  BY <1>2
<1> QED
  BY <1>1, <1>4, <1>5 DEF WorkerTells

LEMMA WorkerPutsHolds ==
  ASSUME TrainsInv, WorkerPuts
  PROVE  TrainsInv'
<1>1. /\ TrainsTypeOK /\ CallersBusy /\ SleepersPlaced
      /\ WorkerTells /\ SpeedsAgree /\ ReportsOnce /\ ReportsComplete /\ JobInHand
  BY DEF TrainsInv
<1>2. /\ workQ' \in Seq([from : Callers, msg : AllCalls])
      /\ client' \in Callers /\ Head(workQ).msg \in AllCalls
      /\ WorkerSleepers => WorkerSleepers'
  BY <1>1, WorkerTakes DEF WorkerPuts
<1>3. /\ workAt = "recv" /\ workAt' = "putc"
      /\ UNCHANGED <<todo, asleep, seen, reports, trackQ, again, awaiting, train_speed, rail, told,
                     askedSwitches>>
  BY DEF WorkerPuts
<1>4. TrainsTypeOK'
  BY <1>1, <1>2, <1>3 DEF TrainsTypeOK, WorkerPuts
<1>5. WorkerTells' /\ ReportsOnce'
  BY <1>1, <1>3 DEF WorkerTells, ReportsOnce
<1>6. SleepersPlaced'
  BY <1>1, <1>2, <1>3 DEF SleepersPlaced, TrackSleepers
<1>7. CallersBusy'
  BY <1>1, <1>3 DEF CallersBusy
<1> QED
  BY <1>1, <1>3, <1>4, <1>5, <1>6, <1>7, SpeedsUntouched, JobUntouched, CompleteUntouched
  DEF TrainsInv

\* A command reaches the track only while no message of the worker's is on its way.
LEMMA PutcReturnsHolds ==
  ASSUME TrainsInv, PutcReturns
  PROVE  TrainsInv'
<1>1. /\ TrainsTypeOK /\ CallersBusy /\ SleepersPlaced
      /\ WorkerTells /\ SpeedsAgree /\ ReportsOnce /\ ReportsComplete /\ JobInHand
  BY DEF TrainsInv
<1>2. /\ workAt = "putc"
      /\ (job.op \in {"TRAIN", "SWITCH"} /\ workAt' = "sent") \/ (job = Read /\ workAt' = "getc")
      /\ rail' = [t \in TrainIds |-> IF job.op = "TRAIN" /\ t = job.id THEN job.state ELSE rail[t]]
      /\ UNCHANGED <<todo, asleep, workQ, client, job, seen, reports, trackQ, again, awaiting,
                     train_speed, told, askedSwitches>>
  BY DEF PutcReturns
<1>3. job \in AllCalls /\ (job.op = "TRAIN" => job.id \in TrainIds /\ job.state \in Speeds
                                              /\ job = Set(job.id, job.state))
  BY <1>1, Kinds DEF TrainsTypeOK
<1>4. rail' \in [TrainIds -> Speeds \cup {NoSpeed}] /\ (job.op = "TRAIN" => job.state = rail'[job.id])
  BY <1>1, <1>2, <1>3 DEF TrainsTypeOK
<1>5. workAt' \in {"recv", "putc", "sent", "getc", "telling", "report"}
  BY <1>2
<1>6. TrainsTypeOK'
  BY <1>1, <1>2, <1>4, <1>5 DEF TrainsTypeOK, PutcReturns
<1>7. \A i \in DOMAIN trackQ : trackQ[i].from # Worker /\ trackQ[i].msg.op \notin ToWorker
  BY <1>1, <1>2 DEF WorkerTells
<1>8. WorkerTells'
  BY <1>1, <1>2, <1>7 DEF WorkerTells, ToWorker
<1>9. SpeedsAgree'
  <2>1. ASSUME NEW t \in TrainIds, train_speed[t] # rail'[t]
        PROVE  workAt' = "sent" /\ job = Set(t, rail'[t])
    <3>1. \A i \in DOMAIN trackQ : trackQ[i] # Message(Worker, Set(t, rail[t]))
      BY <1>7, MessageIs
    <3>2. train_speed[t] = rail[t]
      BY <1>1, <1>2, <3>1 DEF SpeedsAgree
    <3>3. job.op = "TRAIN" /\ t = job.id /\ rail'[t] = job.state
      BY <1>2, <2>1, <3>2
    <3>4. job # Read
      BY <3>3 DEF Read
    <3> QED
      BY <1>2, <1>3, <3>3, <3>4
  <2> QED
    BY <1>2, <2>1 DEF SpeedsAgree
<1>10. ReportsOnce'
  BY <1>1, <1>2 DEF ReportsOnce
<1>11. JobInHand'
  BY <1>2, <1>4 DEF JobInHand
<1>12. CallersBusy' /\ SleepersPlaced'
  <2>1. workAt # "recv" /\ workAt' # "recv"
    BY <1>2
  <2>2. WorkerSleepers => WorkerSleepers'
    BY <1>2, <2>1 DEF WorkerSleepers
  <2>3. TrackSleepers => TrackSleepers'
    BY <1>2 DEF TrackSleepers
  <2> QED
    BY <1>1, <1>2, <2>2, <2>3 DEF CallersBusy, SleepersPlaced
<1> QED
  BY <1>1, <1>2, <1>6, <1>8, <1>9, <1>10, <1>11, <1>12, CompleteUntouched DEF TrainsInv

LEMMA WorkerCommandsHolds ==
  ASSUME TrainsInv, WorkerCommands
  PROVE  TrainsInv'
<1>1. /\ TrainsTypeOK /\ CallersBusy /\ SleepersPlaced
      /\ WorkerTells /\ SpeedsAgree /\ ReportsOnce /\ ReportsComplete /\ JobInHand
  BY DEF TrainsInv
<1>2. PICK m \in AllCalls : m = job
  BY <1>1 DEF TrainsTypeOK
<1>3. /\ m.op \in {"TRAIN", "SWITCH"} /\ m.op \in ToWorker /\ m \in AllCalls \cup ReportCalls
      /\ m.op = "TRAIN" => m.state = rail[m.id]
      /\ trackQ' = Append(trackQ, Message(Worker, m))
  BY <1>1, <1>2 DEF WorkerCommands, ToWorker, JobInHand
<1>4. /\ workAt = "sent" /\ workAt' = "telling" /\ m.op # "SENSOR" /\ rail' = rail
      /\ UNCHANGED <<asleep, todo, workQ, client, job, reports, again, awaiting, train_speed, told, seen,
                     askedSwitches>>
  BY <1>3 DEF WorkerCommands
<1>5. /\ trackQ' \in Seq([from : Callers \cup {Worker}, msg : AllCalls \cup ReportCalls])
      /\ TrackSleepers => TrackSleepers'
  BY <1>1, <1>3, <1>4, WorkerSays
<1>6. WorkerTells'
  BY <1>1, <1>3, <1>4, SaysTells
<1>7. TrainsTypeOK'
  BY <1>1, <1>4, <1>5 DEF TrainsTypeOK, WorkerCommands
<1>8. SpeedsAgree'
  <2>1. PICK q : q = trackQ'
    OBVIOUS
  <2>2. /\ \A i \in DOMAIN trackQ : i \in DOMAIN q /\ q[i] = trackQ[i]
        /\ \E n \in DOMAIN q : q[n] = Message(Worker, m)
    BY <1>1, <1>3, <2>1, SentIs
  <2>3. ASSUME NEW t \in TrainIds, train_speed[t] # rail[t]
        PROVE  \E i \in DOMAIN q : q[i] = Message(Worker, Set(t, rail[t]))
    <3>1. CASE job = Set(t, rail[t])
      BY <1>2, <2>2, <3>1
    <3>2. CASE job # Set(t, rail[t])
      <4>1. \E i \in DOMAIN trackQ : trackQ[i] = Message(Worker, Set(t, rail[t]))
        BY <1>1, <2>3, <3>2 DEF SpeedsAgree
      <4> QED
        BY <2>2, <4>1
    <3> QED
      BY <3>1, <3>2
  <2> QED
    BY <1>4, <2>1, <2>3 DEF SpeedsAgree
<1>9. ReportsOnce'
  <2>1. reports = <<>> /\ reports' = reports
    BY <1>1, <1>4 DEF ReportsOnce
  <2>2. DOMAIN reports' = {} /\ ToSet(reports') = {}
    BY <2>1, NoEntries DEF ToSet
  <2> QED
    BY <1>4, <2>2 DEF ReportsOnce
<1>10. ReportsComplete'
  <2>1. Worker \in Callers \cup {Worker}
    OBVIOUS
  <2> QED
    BY <1>1, <1>3, <1>4, <2>1, SentComplete
<1>11. JobInHand'
  BY <1>4 DEF JobInHand
<1>12. CallersBusy' /\ SleepersPlaced'
  BY <1>1, <1>4, <1>5 DEF CallersBusy, SleepersPlaced, WorkerSleepers
<1> QED
  BY <1>6, <1>7, <1>8, <1>9, <1>10, <1>11, <1>12 DEF TrainsInv

\* But while the worker tells something no report is on its way.
LEMMA NoneCarried ==
  ASSUME WorkerTells, workAt # "telling"
  PROVE  /\ \A i \in DOMAIN trackQ : trackQ[i].msg.op # "SENSOR"
         /\ {trackQ[i].msg : i \in DOMAIN trackQ} \cap ReportCalls = {}
<1>1. \A i \in DOMAIN trackQ : trackQ[i].msg.op # "SENSOR"
  BY DEF WorkerTells, ToWorker
<1>2. \A m \in ReportCalls : m.op = "SENSOR"
  BY DEF ReportCalls
<1> QED
  BY <1>1, <1>2

LEMMA ChangesAre ==
  ASSUME NEW old \in SUBSET Sensors, NEW new \in SUBSET Sensors
  PROVE  /\ Changes(old, new) \subseteq [sensor : Sensors, released : BOOLEAN]
         /\ Changes(old, new) \subseteq Reports
         /\ Changes(old, new) = {} => old = new
<1>1. Changes(old, new) \subseteq [sensor : Sensors, released : BOOLEAN]
  <2>1. ASSUME NEW s \in Sensors, NEW b \in BOOLEAN
        PROVE  Report(s, b) \in [sensor : Sensors, released : BOOLEAN]
    BY DEF Report
  <2>2. Changes(old, new) = {Report(s, FALSE) : s \in new \ old} \cup {Report(s, TRUE) : s \in old \ new}
    BY DEF Changes
  <2>3. /\ {Report(s, FALSE) : s \in new \ old} \subseteq [sensor : Sensors, released : BOOLEAN]
        /\ {Report(s, TRUE) : s \in old \ new} \subseteq [sensor : Sensors, released : BOOLEAN]
    BY <2>1
  <2> QED
    BY <2>2, <2>3
<1>2. \A r \in [sensor : Sensors, released : BOOLEAN] : r \in Reports
  BY TrainsAssumption DEF Reports
<1>3. ASSUME Changes(old, new) = {} PROVE old = new
  <2>1. new \ old = {} /\ old \ new = {}
    BY <1>3 DEF Changes
  <2> QED
    BY <2>1
<1> QED
  BY <1>1, <1>2, <1>3

LEMMA WorkerReadsHolds ==
  ASSUME TrainsInv, WorkerReads
  PROVE  TrainsInv'
<1>1. /\ TrainsTypeOK /\ CallersBusy /\ SleepersPlaced
      /\ WorkerTells /\ SpeedsAgree /\ ReportsOnce /\ ReportsComplete /\ JobInHand
  BY DEF TrainsInv
<1>2. workAt = "getc" /\ UNCHANGED <<asleep, workQ, client, job>>
  BY DEF WorkerReads
<1>3. PICK new \in SUBSET Sensors : reports' = Ordered(Changes(seen, new)) /\ seen' = new
  BY DEF WorkerReads, Remembered
<1>4. /\ Changes(seen, new) \subseteq [sensor : Sensors, released : BOOLEAN]
      /\ Changes(seen, new) \in SUBSET Reports
  BY <1>1, ChangesAre DEF TrainsTypeOK
<1>5. PICK q : q = Ordered(Changes(seen, new))
  OBVIOUS
<1>6. /\ reports' = q /\ q \in Seq([sensor : Sensors, released : BOOLEAN])
      /\ ToSet(q) = Changes(seen, new) /\ \A i, j \in DOMAIN q : q[i] = q[j] => i = j
  <2>1. /\ q \in Seq(Changes(seen, new)) /\ ToSet(q) = Changes(seen, new)
        /\ \A i, j \in DOMAIN q : q[i] = q[j] => i = j
    BY <1>4, <1>5, OrderedIs
  <2>2. q \in Seq([sensor : Sensors, released : BOOLEAN])
    BY <1>4, <2>1, EntriesWithin
  <2> QED
    BY <1>3, <1>5, <2>1, <2>2
<1>7. TrainsTypeOK'
  BY <1>1, <1>2, <1>3, <1>6 DEF TrainsTypeOK, WorkerReads
<1>8. workAt # "telling" /\ workAt' = "report" /\ UNCHANGED <<trackQ, rail, train_speed, told>>
  BY DEF WorkerReads
<1>9. WorkerTells'
  BY <1>1, <1>8 DEF WorkerTells
<1>10. ReportsOnce'
  <2>1. \A i \in DOMAIN trackQ : trackQ[i].msg.op # "SENSOR"
    BY <1>1, <1>8, NoneCarried
  <2> QED
    BY <1>6, <1>8, <2>1 DEF ReportsOnce
<1>11. ReportsComplete'
  <2>1. {trackQ[i].msg : i \in DOMAIN trackQ} \cap ReportCalls = {}
    BY <1>1, <1>8, NoneCarried
  <2>2. reports = <<>>
    BY <1>1 DEF ReportsOnce, WorkerReads
  <2>3. ToSet(reports) = {}
    BY <2>2, NoEntries DEF ToSet
  <2>4. Changes(told, seen) = {}
    BY <1>1, <2>1, <2>3 DEF ReportsComplete, Untold
  <2>5. told = seen
    BY <1>1, <2>4, ChangesAre DEF TrainsTypeOK
  <2> QED
    BY <1>3, <1>6, <1>8, <2>1, <2>5 DEF ReportsComplete, Untold
<1>12. SleepersPlaced' /\ JobInHand'
  BY <1>1, <1>2, <1>8 DEF SleepersPlaced, WorkerSleepers, TrackSleepers, JobInHand, WorkerReads
<1>13. CallersBusy'
  BY <1>1 DEF CallersBusy, WorkerReads
<1> QED
  BY <1>1, <1>2, <1>7, <1>8, <1>9, <1>10, <1>11, <1>12, <1>13, SpeedsUntouched DEF TrainsInv

LEMMA WorkerReportsHolds ==
  ASSUME TrainsInv, WorkerReports
  PROVE  TrainsInv'
<1>1. /\ TrainsTypeOK /\ CallersBusy /\ SleepersPlaced
      /\ WorkerTells /\ SpeedsAgree /\ ReportsOnce /\ ReportsComplete /\ JobInHand
  BY DEF TrainsInv
<1>2. PICK q : q = Tail(reports)
  OBVIOUS
<1>3. /\ reports' = q /\ q \in Seq([sensor : Sensors, released : BOOLEAN])
      /\ Head(reports) \in [sensor : Sensors, released : BOOLEAN] /\ Head(reports) = reports[1]
      /\ 1 \in DOMAIN reports
      /\ \A i \in DOMAIN q : i + 1 \in DOMAIN reports /\ q[i] = reports[i + 1] /\ i + 1 # 1
      /\ \A i \in DOMAIN reports : i # 1 => i - 1 \in DOMAIN q /\ q[i - 1] = reports[i]
      /\ \A i, j \in DOMAIN q : i + 1 = j + 1 => i = j
  <2>1. reports \in Seq([sensor : Sensors, released : BOOLEAN]) /\ reports # <<>> /\ reports' = q
    BY <1>1, <1>2 DEF TrainsTypeOK, WorkerReports
  <2> QED
    BY <1>2, <2>1, TailIs
<1>4. PICK r \in [sensor : Sensors, released : BOOLEAN] : r = reports[1]
  BY <1>3
<1>5. PICK m \in ReportCalls :
        m = [op |-> "SENSOR", id |-> r.sensor, state |-> r.released] /\ Report(m.id, m.state) = r
  <2>1. PICK s \in Sensors, b \in BOOLEAN : r = [sensor |-> s, released |-> b]
    OBVIOUS
  <2>2. PICK m : m = [op |-> "SENSOR", id |-> s, state |-> b]
    OBVIOUS
  <2>3. m \in ReportCalls /\ m.id = s /\ m.state = b
    BY <2>2 DEF ReportCalls
  <2> QED
    BY <2>1, <2>2, <2>3 DEF Report
<1>6. /\ trackQ' = Append(trackQ, Message(Worker, m)) /\ m \in AllCalls \cup ReportCalls
      /\ m.op = "SENSOR" /\ m.op \in ToWorker
  BY <1>3, <1>4, <1>5 DEF WorkerReports, ToWorker
<1>7. /\ workAt = "report" /\ workAt' = "telling"
      /\ UNCHANGED <<asleep, todo, awaiting, rail, train_speed, told, seen>>
  BY DEF WorkerReports
<1>8. /\ trackQ' \in Seq([from : Callers \cup {Worker}, msg : AllCalls \cup ReportCalls])
      /\ TrackSleepers => TrackSleepers'
  BY <1>1, <1>6, <1>7, WorkerSays
<1>9. PICK p : p = trackQ'
  OBVIOUS
<1>10. PICK n \in DOMAIN p :
         /\ p[n].msg = m
         /\ \A i \in DOMAIN p : i # n => p[i].msg.op \in ToTrack
  BY <1>1, <1>6, <1>7, <1>9, WorkerSays
<1>11. \A i \in DOMAIN p : i # n => p[i].msg.op # "SENSOR"
  BY <1>10 DEF ToTrack
<1>12. WorkerTells'
  BY <1>1, <1>5, <1>6, <1>7, SaysTells
<1>13. TrainsTypeOK'
  BY <1>1, <1>3, <1>8 DEF TrainsTypeOK, WorkerReports
<1>14. SpeedsAgree'
  <2>1. Worker \in Callers \cup {Worker}
    OBVIOUS
  <2> QED
    BY <1>1, <1>6, <1>7, <2>1, SentSpeeds
<1>15. r \notin ToSet(q) /\ ToSet(reports) = {r} \cup ToSet(q)
  <2>1. \A i, j \in DOMAIN reports : reports[i] = reports[j] => i = j
    BY <1>1 DEF ReportsOnce
  <2>2. r \notin ToSet(q)
    BY <1>3, <1>4, <2>1 DEF ToSet
  <2>3. \A i \in DOMAIN reports : reports[i] \in {r} \cup ToSet(q)
    BY <1>3, <1>4 DEF ToSet
  <2>4. \A i \in DOMAIN q : q[i] \in ToSet(reports)
    BY <1>3 DEF ToSet
  <2>5. r \in ToSet(reports)
    BY <1>3, <1>4 DEF ToSet
  <2> QED
    BY <2>2, <2>3, <2>4, <2>5 DEF ToSet
<1>16. ReportsOnce'
  <2>1. \A i, j \in DOMAIN q : q[i] = q[j] => i = j
    BY <1>1, <1>3 DEF ReportsOnce
  <2>2. \A i \in DOMAIN p : p[i].msg.op = "SENSOR" => Report(p[i].msg.id, p[i].msg.state) \notin ToSet(q)
    BY <1>5, <1>10, <1>11, <1>15
  <2> QED
    BY <1>3, <1>7, <1>9, <2>1, <2>2 DEF ReportsOnce
<1>17. ReportsComplete'
  <2>1. {trackQ[i].msg : i \in DOMAIN trackQ} \cap ReportCalls = {}
    BY <1>1, <1>7, NoneCarried
  <2>2. {p[i].msg : i \in DOMAIN p} \cap ReportCalls = {m}
    <3>1. \A k \in ReportCalls : k.op = "SENSOR"
      BY DEF ReportCalls
    <3> QED
      BY <1>10, <1>11, <3>1
  <2>3. Untold = ToSet(reports)
    BY <2>1 DEF Untold
  <2>4. Untold' = ToSet(q) \cup {r}
    BY <1>3, <1>5, <1>9, <2>2 DEF Untold
  <2> QED
    BY <1>1, <1>7, <1>15, <2>3, <2>4 DEF ReportsComplete
<1>18. SleepersPlaced'
  BY <1>1, <1>8 DEF SleepersPlaced, WorkerSleepers, WorkerReports
<1>19. CallersBusy' /\ JobInHand'
  BY <1>1, <1>7 DEF CallersBusy, JobInHand
<1> QED
  BY <1>12, <1>13, <1>14, <1>16, <1>17, <1>18, <1>19 DEF TrainsInv

\* Whoever the worker answers has no message with it or the track server.
LEMMA WorkerDoneHolds ==
  ASSUME TrainsInv, WorkerDone
  PROVE  TrainsInv'
<1>1. /\ TrainsTypeOK /\ CallersBusy /\ SleepersPlaced
      /\ WorkerTells /\ SpeedsAgree /\ ReportsOnce /\ ReportsComplete /\ JobInHand
  BY DEF TrainsInv
<1>2. client \in Callers /\ Answered({client}, FALSE)
  BY <1>1 DEF TrainsTypeOK, WorkerDone
<1>3. /\ todo' \in [Callers -> Seq(AllCalls)] /\ asleep' \in [Callers -> {"", "worker", "track"}]
      /\ \A t \in Callers \ {client} : asleep'[t] = asleep[t] /\ todo'[t] = todo[t]
      /\ CallersBusy'
  BY <1>1, <1>2, AnsweredIs
<1>4. /\ workAt = "report" /\ workAt' = "recv" /\ reports = <<>>
      /\ UNCHANGED <<workQ, client, job, seen, reports, trackQ, again, awaiting, train_speed, rail, told,
                     askedSwitches>>
  BY DEF WorkerDone
<1>5. TrainsTypeOK'
  BY <1>1, <1>3, <1>4 DEF TrainsTypeOK, WorkerDone
<1>6. WorkerTells'
  BY <1>1, <1>4 DEF WorkerTells
<1>7. ReportsOnce'
  BY <1>1, <1>4 DEF ReportsOnce
<1>8. SleepersPlaced'
  <2> SUFFICES ASSUME ~ askedSwitches PROVE again' = <<>> /\ WorkerSleepers' /\ TrackSleepers'
    BY <1>4 DEF SleepersPlaced
  <2>1. again = <<>> /\ WorkerSleepers /\ TrackSleepers
    BY <1>1 DEF SleepersPlaced
  <2>2. asleep[client] = "worker"
    BY <1>4, <2>1 DEF WorkerSleepers
  <2>3. WorkerSleepers'
    <3>1. \A i \in DOMAIN workQ : asleep'[workQ[i].from] = asleep[workQ[i].from]
      BY <1>1, <1>3, <1>4, <2>1, QueueTypes DEF WorkerSleepers
    <3> QED
      BY <1>4, <2>1, <3>1 DEF WorkerSleepers
  <2>4. TrackSleepers'
    <3>1. \A t \in Callers : asleep[t] = "track" => asleep'[t] = "track" /\ todo'[t] = todo[t]
      BY <1>3, <2>2
    <3>2. \A t \in ToSet(awaiting) : asleep'[t] = "track" /\ Head(todo'[t]).op = "AWAIT"
      BY <1>1, <2>1, <3>1, QueueTypes DEF TrackSleepers
    <3>3. ASSUME NEW i \in DOMAIN trackQ, trackQ[i].from # Worker
          PROVE  /\ asleep'[trackQ[i].from] = "track" /\ trackQ[i].msg = Head(todo'[trackQ[i].from])
                 /\ trackQ[i].from \notin ToSet(awaiting)
      <4>1. trackQ[i].from \in Callers
        BY <1>1, <3>3, QueueTypes
      <4> QED
        BY <2>1, <3>1, <3>3, <4>1 DEF TrackSleepers
    <3> QED
      BY <1>4, <2>1, <3>2, <3>3 DEF TrackSleepers
  <2> QED
    BY <1>4, <2>1, <2>3, <2>4
<1> QED
  BY <1>1, <1>3, <1>4, <1>5, <1>6, <1>7, <1>8, SpeedsUntouched, JobUntouched, CompleteUntouched
  DEF TrainsInv

-----------------------------------------------------------------------------
(* The steps of the track server.                                          *)

LEMMA TakenIs ==
  ASSUME TrainsTypeOK, trackQ # <<>>, Taken
  PROVE  /\ trackQ' \in Seq([from : Callers \cup {Worker}, msg : AllCalls \cup ReportCalls])
         /\ Head(trackQ) = trackQ[1] /\ 1 \in DOMAIN trackQ
         /\ \A i \in DOMAIN trackQ' : i + 1 \in DOMAIN trackQ /\ trackQ'[i] = trackQ[i + 1] /\ i + 1 # 1
         /\ \A i \in DOMAIN trackQ : i # 1 => i - 1 \in DOMAIN trackQ' /\ trackQ'[i - 1] = trackQ[i]
<1> DEFINE X == [from : Callers \cup {Worker}, msg : AllCalls \cup ReportCalls]
<1>1. trackQ \in Seq(X)
  BY DEF TrainsTypeOK
<1> HIDE DEF X
<1>2. /\ trackQ' \in Seq(X)
      /\ Head(trackQ) = trackQ[1] /\ 1 \in DOMAIN trackQ
      /\ \A i \in DOMAIN trackQ' : i + 1 \in DOMAIN trackQ /\ trackQ'[i] = trackQ[i + 1] /\ i + 1 # 1
      /\ \A i \in DOMAIN trackQ : i # 1 => i - 1 \in DOMAIN trackQ' /\ trackQ'[i - 1] = trackQ[i]
  BY <1>1, TailIs DEF Taken
<1> QED
  BY <1>2 DEF X

\* No two places of what is left were one place.
LEMMA TailPlaces ==
  ASSUME TrainsTypeOK, trackQ # <<>>, Taken, NEW i \in DOMAIN trackQ', NEW j \in DOMAIN trackQ',
         i + 1 = j + 1
  PROVE  i = j
<1> DEFINE X == [from : Callers \cup {Worker}, msg : AllCalls \cup ReportCalls]
<1>1. trackQ \in Seq(X)
  BY DEF TrainsTypeOK
<1> HIDE DEF X
<1> QED
  BY <1>1, TailIs DEF Taken

LEMMA AppendSet ==
  ASSUME NEW X, NEW q \in Seq(X), NEW x \in X
  PROVE  Append(q, x) \in Seq(X) /\ ToSet(Append(q, x)) = ToSet(q) \cup {x}
<1>1. PICK p : p = Append(q, x)
  OBVIOUS
<1>2. /\ p \in Seq(X)
      /\ \A i \in DOMAIN q : i \in DOMAIN p /\ p[i] = q[i]
      /\ Len(q) + 1 \in DOMAIN p /\ p[Len(q) + 1] = x
      /\ \A i \in DOMAIN p : i \in DOMAIN q \/ i = Len(q) + 1
  BY <1>1, AppendIs
<1>3. ToSet(p) = ToSet(q) \cup {x}
  BY <1>2 DEF ToSet
<1> QED
  BY <1>1, <1>2, <1>3

\* A new entry of a table is of the worker's telling.
LEMMA TrackTrainHolds ==
  ASSUME TrainsInv, TrackTrain
  PROVE  TrainsInv'
<1>1. /\ TrainsTypeOK /\ CallersBusy /\ SleepersPlaced
      /\ WorkerTells /\ SpeedsAgree /\ ReportsOnce /\ ReportsComplete /\ JobInHand
  BY DEF TrainsInv
<1>2. /\ trackQ # <<>> /\ Taken /\ Head(trackQ).msg.op = "TRAIN" /\ workAt' = "report"
      /\ train_speed' = [train_speed EXCEPT ![Head(trackQ).msg.id] = Head(trackQ).msg.state]
      /\ UNCHANGED <<asleep, todo, workQ, client, job, again, awaiting, reports, seen, told, rail,
                     askedSwitches>>
  BY DEF TrackTrain, Gets, Stored
<1>3. PICK m : m = Head(trackQ).msg
  OBVIOUS
<1>4. /\ trackQ' \in Seq([from : Callers \cup {Worker}, msg : AllCalls \cup ReportCalls])
      /\ Head(trackQ) = trackQ[1] /\ 1 \in DOMAIN trackQ
      /\ \A i \in DOMAIN trackQ : i # 1 => i - 1 \in DOMAIN trackQ' /\ trackQ'[i - 1] = trackQ[i]
  BY <1>1, <1>2, TakenIs
<1>5. m.op = "TRAIN" /\ m \in AllCalls /\ m.state = rail[m.id]
  <2>1. m \in AllCalls \cup ReportCalls
    BY <1>1, <1>3, <1>4, QueueTypes
  <2>2. \A k \in ReportCalls : k.op # "TRAIN"
    BY DEF ReportCalls
  <2> QED
    BY <1>1, <1>2, <1>3, <1>4, <2>1, <2>2 DEF WorkerTells
<1>6. m.id \in TrainIds /\ m.state \in Speeds /\ m = Set(m.id, m.state)
  BY <1>5, Kinds
<1>7. /\ train_speed' \in [TrainIds -> Speeds \cup {NoSpeed}] /\ train_speed'[m.id] = m.state
      /\ \A t \in TrainIds : t # m.id => train_speed'[t] = train_speed[t]
  BY <1>1, <1>2, <1>3, <1>6 DEF TrainsTypeOK
<1>8. TrainsTypeOK'
  BY <1>1, <1>2, <1>4, <1>7 DEF TrainsTypeOK, TrackTrain
<1>9. WorkerTells'
  BY <1>1, <1>2, TakenTells DEF ToWorker
<1>10. SpeedsAgree'
  <2>1. PICK q : q = trackQ'
    OBVIOUS
  <2>0. workAt = "telling"
    BY <1>1, <1>2, <1>4 DEF WorkerTells, ToWorker
  <2>2. ASSUME NEW t \in TrainIds, train_speed'[t] # rail[t]
        PROVE  \E i \in DOMAIN q : q[i] = Message(Worker, Set(t, rail[t]))
    <3>1. t # m.id
      BY <1>5, <1>7, <2>2
    <3>2. PICK i \in DOMAIN trackQ : trackQ[i] = Message(Worker, Set(t, rail[t]))
      BY <1>1, <1>7, <2>0, <2>2, <3>1 DEF SpeedsAgree
    <3>3. i # 1
      BY <1>3, <1>4, <3>1, <3>2 DEF Message, Set
    <3> QED
      BY <1>4, <2>1, <3>2, <3>3
  <2> QED
    BY <1>2, <2>1, <2>2 DEF SpeedsAgree
<1>11. ReportsOnce' /\ ReportsComplete'
  BY <1>1, <1>2, TakenOnce, TakenComplete
<1>12. CallersBusy' /\ JobInHand'
  BY <1>1, <1>2 DEF CallersBusy, JobInHand
<1>13. SleepersPlaced'
  <2>1. TrackSleepers => TrackSleepers'
    BY <1>1, <1>2, TakenSleepers
  <2>2. WorkerSleepers => WorkerSleepers'
    <3>1. workAt # "recv"
      BY <1>1, <1>2, <1>4 DEF WorkerTells, ToWorker
    <3> QED
      BY <1>2, <3>1 DEF WorkerSleepers
  <2> QED
    BY <1>1, <1>2, <2>1, <2>2 DEF SleepersPlaced
<1> QED
  BY <1>8, <1>9, <1>10, <1>11, <1>12, <1>13 DEF TrainsInv

LEMMA TrackSwitchHolds ==
  ASSUME TrainsInv, TrackSwitch
  PROVE  TrainsInv'
<1>1. /\ TrainsTypeOK /\ CallersBusy /\ SleepersPlaced
      /\ WorkerTells /\ SpeedsAgree /\ ReportsOnce /\ ReportsComplete /\ JobInHand
  BY DEF TrainsInv
<1>2. /\ trackQ # <<>> /\ Taken /\ Head(trackQ).msg.op = "SWITCH" /\ workAt' = "report"
      /\ sw_states' = [sw_states EXCEPT ![Head(trackQ).msg.id] = Head(trackQ).msg.state]
      /\ UNCHANGED <<asleep, todo, workQ, client, job, again, awaiting, reports, seen, told, rail,
                     train_speed, askedSwitches>>
  BY DEF TrackSwitch, Gets, Stored
<1>3. PICK m : m = Head(trackQ).msg
  OBVIOUS
<1>4. /\ trackQ' \in Seq([from : Callers \cup {Worker}, msg : AllCalls \cup ReportCalls])
      /\ Head(trackQ) = trackQ[1] /\ 1 \in DOMAIN trackQ
  BY <1>1, <1>2, TakenIs
<1>5. m.op = "SWITCH" /\ m \in AllCalls
  <2>1. m \in AllCalls \cup ReportCalls
    BY <1>1, <1>3, <1>4, QueueTypes
  <2>2. \A k \in ReportCalls : k.op # "SWITCH"
    BY DEF ReportCalls
  <2> QED
    BY <1>2, <1>3, <2>1, <2>2
<1>6. m.id \in SwitchIds /\ m.state \in {"S", "C"}
  BY <1>5, Kinds
<1>7. sw_states' \in [SwitchIds -> {"?", "S", "C"}]
  BY <1>1, <1>2, <1>3, <1>6 DEF TrainsTypeOK
<1>8. TrainsTypeOK'
  BY <1>1, <1>2, <1>4, <1>7 DEF TrainsTypeOK, TrackSwitch
<1>9. WorkerTells'
  BY <1>1, <1>2, TakenTells DEF ToWorker
<1>10. SpeedsAgree'
  <2>1. workAt = "telling"
    BY <1>1, <1>2, <1>4 DEF WorkerTells, ToWorker
  <2> QED
    BY <1>1, <1>2, <2>1, TakenSpeeds
<1>11. ReportsOnce' /\ ReportsComplete'
  BY <1>1, <1>2, TakenOnce, TakenComplete
<1>12. CallersBusy' /\ JobInHand'
  BY <1>1, <1>2 DEF CallersBusy, JobInHand
<1>13. SleepersPlaced'
  <2>1. TrackSleepers => TrackSleepers'
    BY <1>1, <1>2, TakenSleepers
  <2>2. WorkerSleepers => WorkerSleepers'
    <3>1. workAt # "recv"
      BY <1>1, <1>2, <1>4 DEF WorkerTells, ToWorker
    <3> QED
      BY <1>2, <3>1 DEF WorkerSleepers
  <2> QED
    BY <1>1, <1>2, <2>1, <2>2 DEF SleepersPlaced
<1> QED
  BY <1>8, <1>9, <1>10, <1>11, <1>12, <1>13 DEF TrainsInv

\* Who awaits a sensor has no other message, so it is in no queue.
LEMMA TrackAwaitHolds ==
  ASSUME TrainsInv, TrackAwait
  PROVE  TrainsInv'
<1>1. /\ TrainsTypeOK /\ CallersBusy /\ SleepersPlaced
      /\ WorkerTells /\ SpeedsAgree /\ ReportsOnce /\ ReportsComplete /\ JobInHand
  BY DEF TrainsInv
<1>2. /\ trackQ # <<>> /\ Taken /\ Head(trackQ).msg.op = "AWAIT" /\ workAt' = workAt
      /\ awaiting' = Append(awaiting, Head(trackQ).from)
      /\ UNCHANGED <<asleep, todo, workQ, client, job, again, reports, seen, told, rail, train_speed,
                     askedSwitches>>
  BY DEF TrackAwait, Gets
<1>3. PICK f : f = Head(trackQ).from
  OBVIOUS
<1>4. PICK q : q = trackQ'
  OBVIOUS
<1>5. /\ trackQ' \in Seq([from : Callers \cup {Worker}, msg : AllCalls \cup ReportCalls])
      /\ Head(trackQ) = trackQ[1] /\ 1 \in DOMAIN trackQ
      /\ \A i \in DOMAIN q : i + 1 \in DOMAIN trackQ /\ q[i] = trackQ[i + 1] /\ i + 1 # 1
  BY <1>1, <1>2, <1>4, TakenIs
<1>6. f = trackQ[1].from /\ f # Worker
  BY <1>1, <1>2, <1>3, <1>5 DEF WorkerTells, ToWorker
<1>7. f \in Slots
  BY <1>1, <1>5, <1>6 DEF WorkerTells
<1>8. awaiting' \in Seq(Slots) /\ ToSet(awaiting') = ToSet(awaiting) \cup {f}
  <2>1. awaiting \in Seq(Slots) /\ awaiting' = Append(awaiting, f)
    BY <1>1, <1>2, <1>3 DEF TrainsTypeOK
  <2> QED
    BY <1>7, <2>1, AppendSet
<1>9. TrainsTypeOK'
  BY <1>1, <1>2, <1>5, <1>8 DEF TrainsTypeOK, TrackAwait
<1>10. WorkerTells'
  BY <1>1, <1>2, TakenTells
<1>11. SpeedsAgree'
  BY <1>1, <1>2, TakenSpeeds
<1>12. ReportsOnce' /\ ReportsComplete'
  BY <1>1, <1>2, TakenOnce, TakenComplete
<1>13. CallersBusy' /\ JobInHand'
  BY <1>1, <1>2 DEF CallersBusy, JobInHand
<1>14. ASSUME TrackSleepers PROVE TrackSleepers'
  <2>1. asleep[f] = "track" /\ Head(todo[f]).op = "AWAIT"
    BY <1>2, <1>5, <1>6, <1>14 DEF TrackSleepers
  <2>2. ASSUME NEW i \in DOMAIN q, q[i].from # Worker
        PROVE  /\ asleep[q[i].from] = "track" /\ q[i].msg = Head(todo[q[i].from])
               /\ q[i].from \notin ToSet(awaiting) \cup {f}
    <3>1. q[i].from # f
      BY <1>5, <1>6, <1>14 DEF TrackSleepers
    <3> QED
      BY <1>5, <1>14, <2>2, <3>1 DEF TrackSleepers
  <2>3. ASSUME NEW i \in DOMAIN q, NEW j \in DOMAIN q, q[i].from = q[j].from PROVE i = j
    BY <1>5, <1>14, <2>3, TailPlaces, <1>1, <1>2, <1>4 DEF TrackSleepers
  <2>4. \A t \in ToSet(awaiting) \cup {f} : asleep[t] = "track" /\ Head(todo[t]).op = "AWAIT"
    BY <1>14, <2>1 DEF TrackSleepers
  <2> QED
    BY <1>2, <1>4, <1>8, <2>2, <2>3, <2>4 DEF TrackSleepers
<1>15. SleepersPlaced'
  BY <1>1, <1>2, <1>14 DEF SleepersPlaced, WorkerSleepers
<1> QED
  BY <1>9, <1>10, <1>11, <1>12, <1>13, <1>15 DEF TrainsInv

\* The two kinds of changes.
Pressed(s)  == Report(s, FALSE)
Released(s) == Report(s, TRUE)

LEMMA KindsDiffer ==
  ASSUME NEW x, NEW y
  PROVE  /\ Released(x) # Pressed(y)
         /\ Released(x) = Released(y) => x = y
         /\ Pressed(x) = Pressed(y) => x = y
<1>1. /\ Released(x).released = TRUE /\ Pressed(y).released = FALSE
      /\ Released(x).sensor = x /\ Released(y).sensor = y
      /\ Pressed(x).sensor = x /\ Pressed(y).sensor = y
  BY DEF Released, Pressed, Report
<1> QED
  BY <1>1

LEMMA ChangesSplit ==
  ASSUME NEW old, NEW new
  PROVE  Changes(old, new) = {Pressed(s) : s \in new \ old} \cup {Released(s) : s \in old \ new}
BY DEF Changes, Pressed, Released

\* A sensor told of is no longer to be told.
LEMMA PressTold ==
  ASSUME NEW old, NEW new, NEW s, Pressed(s) \in Changes(old, new)
  PROVE  Changes(old \cup {s}, new) = Changes(old, new) \ {Pressed(s)}
<1>1. s \in new /\ s \notin old
  BY ChangesSplit, KindsDiffer
<1>2. {Pressed(x) : x \in new \ (old \cup {s})} = {Pressed(x) : x \in new \ old} \ {Pressed(s)}
  BY KindsDiffer
<1>3. {Released(x) : x \in (old \cup {s}) \ new} = {Released(x) : x \in old \ new}
  BY <1>1
<1>4. Pressed(s) \notin {Released(x) : x \in old \ new}
  BY KindsDiffer
<1> QED
  BY <1>2, <1>3, <1>4, ChangesSplit

LEMMA ReleaseTold ==
  ASSUME NEW old, NEW new, NEW s, Released(s) \in Changes(old, new)
  PROVE  Changes(old \ {s}, new) = Changes(old, new) \ {Released(s)}
<1>1. s \in old /\ s \notin new
  BY ChangesSplit, KindsDiffer
<1>2. {Released(x) : x \in (old \ {s}) \ new} = {Released(x) : x \in old \ new} \ {Released(s)}
  BY KindsDiffer
<1>3. {Pressed(x) : x \in new \ (old \ {s})} = {Pressed(x) : x \in new \ old}
  BY <1>1
<1>4. Released(s) \notin {Pressed(x) : x \in new \ old}
  BY KindsDiffer
<1> QED
  BY <1>2, <1>3, <1>4, ChangesSplit

LEMMA TrackSensorHolds ==
  ASSUME TrainsInv, TrackSensor
  PROVE  TrainsInv'
<1>1. /\ TrainsTypeOK /\ CallersBusy /\ SleepersPlaced
      /\ WorkerTells /\ SpeedsAgree /\ ReportsOnce /\ ReportsComplete /\ JobInHand
  BY DEF TrainsInv
<1>2. PICK m : m = Head(trackQ).msg
  OBVIOUS
<1>3. /\ trackQ # <<>> /\ Taken /\ m.op = "SENSOR" /\ workAt' = "report" /\ awaiting' = <<>>
      /\ Answered(ToSet(awaiting), m.state)
      /\ told' = IF m.state THEN told \ {m.id} ELSE told \cup {m.id}
      /\ UNCHANGED <<workQ, client, job, again, reports, seen, rail, train_speed, askedSwitches>>
  BY <1>2 DEF TrackSensor, Gets, LeftWaiting
<1>4. PICK q : q = trackQ'
  OBVIOUS
<1>5. /\ trackQ' \in Seq([from : Callers \cup {Worker}, msg : AllCalls \cup ReportCalls])
      /\ Head(trackQ) = trackQ[1] /\ 1 \in DOMAIN trackQ
      /\ \A i \in DOMAIN q : i + 1 \in DOMAIN trackQ /\ q[i] = trackQ[i + 1] /\ i + 1 # 1
      /\ \A i \in DOMAIN trackQ : i # 1 => i - 1 \in DOMAIN q /\ q[i - 1] = trackQ[i]
  BY <1>1, <1>3, <1>4, TakenIs
<1>6. m = trackQ[1].msg /\ m \in ReportCalls /\ trackQ[1].from = Worker /\ workAt = "telling"
  BY <1>1, <1>2, <1>3, <1>5 DEF WorkerTells, ToWorker
<1>7. m.id \in Sensors /\ m.state \in BOOLEAN
  BY <1>6 DEF ReportCalls
<1>8. /\ todo' \in [Callers -> Seq(AllCalls)] /\ asleep' \in [Callers -> {"", "worker", "track"}]
      /\ \A t \in Callers \ ToSet(awaiting) : asleep'[t] = asleep[t] /\ todo'[t] = todo[t]
      /\ CallersBusy'
  <2>1. ToSet(awaiting) \in SUBSET Callers
    BY <1>1, QueueTypes
  <2> QED
    BY <1>1, <1>3, <2>1, AnsweredIs
<1>9. TrainsTypeOK'
  <2>1. told' \subseteq Sensors
    BY <1>1, <1>3, <1>7 DEF TrainsTypeOK
  <2>2. awaiting' \in Seq(Slots)
    BY <1>3, NoEntries
  <2> QED
    BY <1>1, <1>3, <1>5, <1>8, <2>1, <2>2 DEF TrainsTypeOK, TrackSensor
<1>10. WorkerTells'
  BY <1>1, <1>2, <1>3, TakenTells DEF ToWorker
<1>11. SpeedsAgree'
  BY <1>1, <1>2, <1>3, <1>6, TakenSpeeds
<1>12. ReportsOnce' /\ JobInHand'
  BY <1>1, <1>3, TakenOnce DEF JobInHand
<1>13. \A i \in DOMAIN q : q[i].msg \notin ReportCalls
  <2>1. \A i \in DOMAIN trackQ : trackQ[i].msg.op = "SENSOR" => trackQ[i].from = Worker
    BY <1>1 DEF WorkerTells, ToWorker
  <2>2. \A i \in DOMAIN q : q[i].from # Worker
    BY <1>1, <1>5, <1>6 DEF WorkerTells
  <2>3. \A k \in ReportCalls : k.op = "SENSOR"
    BY DEF ReportCalls
  <2> QED
    BY <1>5, <2>1, <2>2, <2>3
<1>14. ReportsComplete'
  <2>1. PICK r : r = Report(m.id, m.state)
    OBVIOUS
  <2>2. r \notin ToSet(reports)
    BY <1>1, <1>3, <1>5, <1>6, <2>1 DEF ReportsOnce
  <2>3. {trackQ[i].msg : i \in DOMAIN trackQ} \cap ReportCalls = {m}
    <3>1. \A i \in DOMAIN trackQ : i # 1 => trackQ[i].msg \notin ReportCalls
      BY <1>5, <1>13
    <3> QED
      BY <1>5, <1>6, <3>1
  <2>4. Untold = ToSet(reports) \cup {r}
    BY <2>1, <2>3 DEF Untold
  <2>5. Untold' = ToSet(reports)
    <3>1. {q[i].msg : i \in DOMAIN q} \cap ReportCalls = {}
      BY <1>13
    <3> QED
      BY <1>3, <1>4, <3>1 DEF Untold
  <2>6. Changes(told', seen) = Changes(told, seen) \ {r}
    <3>1. r \in Changes(told, seen)
      BY <1>1, <2>4 DEF ReportsComplete
    <3>2. CASE m.state = TRUE
      <4>1. r = Released(m.id) /\ told' = told \ {m.id}
        BY <1>3, <2>1, <3>2 DEF Released
      <4> QED
        BY <3>1, <4>1, ReleaseTold
    <3>3. CASE m.state = FALSE
      <4>1. r = Pressed(m.id) /\ told' = told \cup {m.id}
        BY <1>3, <2>1, <3>3 DEF Pressed
      <4> QED
        BY <3>1, <4>1, PressTold
    <3> QED
      BY <1>7, <3>2, <3>3
  <2> QED
    BY <1>1, <1>3, <2>2, <2>4, <2>5, <2>6 DEF ReportsComplete
<1>15. SleepersPlaced'
  <2> SUFFICES ASSUME ~ askedSwitches PROVE again' = <<>> /\ WorkerSleepers' /\ TrackSleepers'
    BY <1>3 DEF SleepersPlaced
  <2>1. again = <<>> /\ WorkerSleepers /\ TrackSleepers
    BY <1>1 DEF SleepersPlaced
  <2>2. \A t \in Callers : asleep[t] = "worker" => asleep'[t] = "worker"
    BY <1>8, <2>1 DEF TrackSleepers
  <2>3. WorkerSleepers'
    <3>1. client \in Callers /\ \A i \in DOMAIN workQ : workQ[i].from \in Callers
      BY <1>1, QueueTypes DEF TrainsTypeOK
    <3>2. asleep'[client] = "worker"
      BY <1>6, <2>1, <2>2, <3>1 DEF WorkerSleepers
    <3>3. \A i \in DOMAIN workQ : asleep'[workQ[i].from] = "worker" /\ workQ[i].from # client
      BY <1>6, <2>1, <2>2, <3>1 DEF WorkerSleepers
    <3> QED
      BY <1>3, <2>1, <3>2, <3>3 DEF WorkerSleepers
  <2>4. TrackSleepers'
    <3>1. ToSet(awaiting') = {}
      BY <1>3, NoEntries DEF ToSet
    <3>2. ASSUME NEW i \in DOMAIN q, q[i].from # Worker
          PROVE  asleep'[q[i].from] = "track" /\ q[i].msg = Head(todo'[q[i].from])
      <4>1. i + 1 \in DOMAIN trackQ /\ q[i] = trackQ[i + 1]
        BY <1>5
      <4>2. q[i].from \in Callers
        BY <1>1, <3>2, <4>1, QueueTypes
      <4>3. /\ asleep[q[i].from] = "track" /\ q[i].msg = Head(todo[q[i].from])
            /\ q[i].from \notin ToSet(awaiting)
        BY <2>1, <3>2, <4>1 DEF TrackSleepers
      <4> QED
        BY <1>8, <4>2, <4>3
    <3>3. ASSUME NEW i \in DOMAIN q, NEW j \in DOMAIN q, q[i].from = q[j].from PROVE i = j
      BY <1>1, <1>3, <1>4, <1>5, <2>1, <3>3, TailPlaces DEF TrackSleepers
    <3> QED
      BY <1>4, <3>1, <3>2, <3>3 DEF TrackSleepers
  <2> QED
    BY <1>3, <2>1, <2>3, <2>4
<1> QED
  BY <1>8, <1>9, <1>10, <1>11, <1>12, <1>14, <1>15 DEF TrainsInv

\* The server answers a question: of the one who asked it there is nothing left.
LEMMA QuestionHolds ==
  ASSUME TrainsInv, trackQ # <<>>, Taken,
         Head(trackQ).msg.op \in {"SPEED_TRAIN", "GET_TRACK_ID", "GET_SW_STATES"},
         Answered({Head(trackQ).from}, FALSE), again' \in Seq(Slots), askedSwitches' \in BOOLEAN,
         ~ askedSwitches' => ~ askedSwitches /\ again' = again,
         UNCHANGED <<workQ, workAt, client, job, seen, reports, awaiting, train_speed, sw_states, rail, told>>
  PROVE  TrainsInv'
<1>1. /\ TrainsTypeOK /\ CallersBusy /\ SleepersPlaced
      /\ WorkerTells /\ SpeedsAgree /\ ReportsOnce /\ ReportsComplete /\ JobInHand
  BY DEF TrainsInv
<1>2. PICK f : f = Head(trackQ).from
  OBVIOUS
<1>3. PICK q : q = trackQ'
  OBVIOUS
<1>4. /\ trackQ' \in Seq([from : Callers \cup {Worker}, msg : AllCalls \cup ReportCalls])
      /\ Head(trackQ) = trackQ[1] /\ 1 \in DOMAIN trackQ
      /\ \A i \in DOMAIN q : i + 1 \in DOMAIN trackQ /\ q[i] = trackQ[i + 1] /\ i + 1 # 1
  BY <1>1, <1>3, TakenIs
<1>5. f = trackQ[1].from /\ f # Worker /\ f \in Slots /\ f \in Callers
  BY <1>1, <1>2, <1>4 DEF WorkerTells, ToWorker, Callers
<1>6. /\ todo' \in [Callers -> Seq(AllCalls)] /\ asleep' \in [Callers -> {"", "worker", "track"}]
      /\ \A t \in Callers \ {f} : asleep'[t] = asleep[t] /\ todo'[t] = todo[t]
      /\ CallersBusy'
  <2>1. {f} \in SUBSET Callers /\ Answered({f}, FALSE)
    BY <1>2, <1>5
  <2> QED
    BY <1>1, <2>1, AnsweredIs
<1>7. TrainsTypeOK'
  BY <1>1, <1>4, <1>6 DEF TrainsTypeOK
<1>8. WorkerTells' /\ SpeedsAgree' /\ ReportsOnce' /\ ReportsComplete' /\ JobInHand'
  BY <1>1, TakenTells, TakenSpeeds, TakenOnce, TakenComplete, JobUntouched
<1>9. SleepersPlaced'
  <2> SUFFICES ASSUME ~ askedSwitches' PROVE again' = <<>> /\ WorkerSleepers' /\ TrackSleepers'
    BY DEF SleepersPlaced
  <2>1. again = <<>> /\ WorkerSleepers /\ TrackSleepers /\ again' = <<>>
    BY <1>1 DEF SleepersPlaced
  <2>2. asleep[f] = "track" /\ Head(todo[f]).op # "AWAIT"
    BY <1>4, <1>5, <2>1 DEF TrackSleepers
  <2>3. \A t \in Callers : asleep[t] = "worker" => asleep'[t] = "worker"
    BY <1>6, <2>2
  <2>4. WorkerSleepers'
    <3>1. client \in Callers /\ \A i \in DOMAIN workQ : workQ[i].from \in Callers
      BY <1>1, QueueTypes DEF TrainsTypeOK
    <3>2. workAt # "recv" => asleep'[client] = "worker"
      BY <2>1, <2>3, <3>1 DEF WorkerSleepers
    <3>3. \A i \in DOMAIN workQ :
            asleep'[workQ[i].from] = "worker" /\ (workAt # "recv" => workQ[i].from # client)
      BY <2>1, <2>3, <3>1 DEF WorkerSleepers
    <3> QED
      BY <2>1, <3>2, <3>3 DEF WorkerSleepers
  <2>5. TrackSleepers'
    <3>1. \A t \in ToSet(awaiting) : asleep'[t] = "track" /\ Head(todo'[t]).op = "AWAIT"
      BY <1>1, <1>6, <2>1, <2>2, QueueTypes DEF TrackSleepers
    <3>2. ASSUME NEW i \in DOMAIN q, q[i].from # Worker
          PROVE  /\ asleep'[q[i].from] = "track" /\ q[i].msg = Head(todo'[q[i].from])
                 /\ q[i].from \notin ToSet(awaiting)
      <4>1. i + 1 \in DOMAIN trackQ /\ q[i] = trackQ[i + 1] /\ i + 1 # 1
        BY <1>4
      <4>2. q[i].from \in Callers /\ q[i].from # f
        BY <1>1, <1>4, <1>5, <2>1, <3>2, <4>1, QueueTypes DEF TrackSleepers
      <4>3. /\ asleep[q[i].from] = "track" /\ q[i].msg = Head(todo[q[i].from])
            /\ q[i].from \notin ToSet(awaiting)
        BY <2>1, <3>2, <4>1 DEF TrackSleepers
      <4> QED
        BY <1>6, <4>2, <4>3
    <3>3. ASSUME NEW i \in DOMAIN q, NEW j \in DOMAIN q, q[i].from = q[j].from PROVE i = j
      BY <1>1, <1>3, <1>4, <2>1, <3>3, TailPlaces DEF TrackSleepers
    <3> QED
      BY <1>3, <3>1, <3>2, <3>3 DEF TrackSleepers
  <2> QED
    BY <2>1, <2>4, <2>5
<1> QED
  BY <1>6, <1>7, <1>8, <1>9 DEF TrainsInv

LEMMA TrackAnswersHolds ==
  ASSUME TrainsInv, TrackAnswers \/ TrackSwitchStates
  PROVE  TrainsInv'
<1>1. TrainsTypeOK /\ WorkerTells /\ trackQ # <<>> /\ Taken
  BY DEF TrainsInv, TrackAnswers, TrackSwitchStates, Gets
<1>2. CASE TrackAnswers
  BY <1>1, <1>2, QuestionHolds DEF TrackAnswers, Gets, TrainsTypeOK
<1>3. CASE TrackSwitchStates
  <2>1. Head(trackQ) = trackQ[1] /\ 1 \in DOMAIN trackQ
    BY <1>1, TakenIs
  <2>2. Head(trackQ).from \in Slots
    BY <1>1, <1>3, <2>1 DEF TrackSwitchStates, Gets, WorkerTells, ToWorker
  <2>3. again' \in Seq(Slots)
    BY <1>3, <2>2, OneEntry DEF TrackSwitchStates
  <2> QED
    BY <1>1, <1>3, <2>3, QuestionHolds DEF TrackSwitchStates, Gets
<1> QED
  BY <1>2, <1>3

LEMMA TrackAnswersAgainHolds ==
  ASSUME TrainsInv, TrackAnswersAgain
  PROVE  TrainsInv'
<1>1. /\ TrainsTypeOK /\ CallersBusy /\ SleepersPlaced
      /\ WorkerTells /\ SpeedsAgree /\ ReportsOnce /\ ReportsComplete /\ JobInHand
  BY DEF TrainsInv
<1>2. askedSwitches /\ askedSwitches' = askedSwitches
  BY <1>1 DEF TrackAnswersAgain, SleepersPlaced
<1>3. again \in Seq(Slots) /\ Head(again) \in Slots
  <2>1. again \in Seq(Slots) /\ again # <<>>
    BY <1>1 DEF TrainsTypeOK, TrackAnswersAgain
  <2> QED
    BY <2>1, TailIs
<1>4. /\ todo' \in [Callers -> Seq(AllCalls)] /\ asleep' \in [Callers -> {"", "worker", "track"}]
      /\ CallersBusy'
  <2>1. {Head(again)} \in SUBSET Callers /\ Answered({Head(again)}, TRUE)
    BY <1>3 DEF Callers, TrackAnswersAgain
  <2> QED
    BY <1>1, <2>1, AnsweredIs
<1>5. again' \in Seq(Slots)
  BY NoEntries DEF TrackAnswersAgain
<1>6. TrainsTypeOK'
  BY <1>1, <1>4, <1>5 DEF TrainsTypeOK, TrackAnswersAgain
<1>7. SleepersPlaced'
  BY <1>2 DEF SleepersPlaced
<1> QED
  BY <1>1, <1>4, <1>6, <1>7, TellsUntouched, SpeedsUntouched, JobUntouched, OnceUntouched, CompleteUntouched
  DEF TrainsInv, TrackAnswersAgain

LEMMA TrainsNextHolds ==
  ASSUME TrainsInv, [TrainsNext]_trainVars
  PROVE  TrainsInv'
<1>1. CASE ReaderAsks
  BY <1>1, ReaderAsksHolds
<1>2. CASE WorkerStep
  BY <1>2, WorkerPutsHolds, PutcReturnsHolds, WorkerCommandsHolds, WorkerReadsHolds, WorkerReportsHolds,
     WorkerDoneHolds DEF WorkerStep
<1>3. CASE TrackStep
  BY <1>3, TrackSensorHolds, TrackSwitchHolds, TrackTrainHolds, TrackAwaitHolds, TrackAnswersHolds,
     TrackAnswersAgainHolds DEF TrackStep
<1>4. ASSUME NEW t \in Slots, Command(t) \/ Calls(t) PROVE TrainsInv'
  BY <1>4, CommandHolds, CallsHolds
<1>5. CASE UNCHANGED trainVars
  <2>1. UNCHANGED <<todo, asleep, workQ, workAt, client, job, seen, reports, trackQ, again, awaiting,
                    train_speed, sw_states, rail, told, askedSwitches>>
    BY <1>5 DEF trainVars
  <2>2. TrainsTypeOK'
    BY <2>1 DEF TrainsInv, TrainsTypeOK
  <2>3. CallersBusy'
    BY <2>1 DEF TrainsInv, CallersBusy
  <2>4. SleepersPlaced'
    BY <2>1 DEF TrainsInv, SleepersPlaced, WorkerSleepers, TrackSleepers
  <2> QED
    BY <2>1, <2>2, <2>3, <2>4, TellsUntouched, SpeedsUntouched, JobUntouched, OnceUntouched, CompleteUntouched
    DEF TrainsInv
<1> QED
  BY <1>1, <1>2, <1>3, <1>4, <1>5 DEF TrainsNext

-----------------------------------------------------------------------------
(* The theorems.                                                           *)

\* The invariant: where each message and each sleeper is.
THEOREM TrainsInvariance == TrainsSpec => []TrainsInv
BY TrainsInitHolds, TrainsNextHolds, PTL DEF TrainsSpec

\* The server knows the speed last commanded, but for a train whose command the
\* worker still puts or the server is about to be told of.
THEOREM Speed == TrainsSpec => []SpeedsAgree
<1>1. TrainsInv => SpeedsAgree
  BY DEF TrainsInv
<1> QED
  BY <1>1, TrainsInvariance, PTL

\* No change of a sensor is lost, and none is reported twice.
THEOREM Reporting == TrainsSpec => []ReportsComplete
<1>1. TrainsInv => ReportsComplete
  BY DEF TrainsInv
<1> QED
  BY <1>1, TrainsInvariance, PTL

\* A step that wakes a task is the answer to its call.
LEMMA WakesAnswer ==
  ASSUME TrainsInv, [TrainsNext]_trainVars
  PROVE  [\A t \in Callers : asleep[t] # "" /\ asleep'[t] = "" /\ ~ askedSwitches => Answers(t)]_trainVars
<1> SUFFICES ASSUME TrainsNext, NEW t \in Callers, asleep[t] # "", asleep'[t] = "", ~ askedSwitches
             PROVE  Answers(t)
  BY DEF trainVars
<1>1. /\ TrainsTypeOK /\ CallersBusy /\ WorkerTells /\ again = <<>> /\ WorkerSleepers /\ TrackSleepers
  BY DEF TrainsInv, SleepersPlaced
<1>2. ASSUME NEW S \in SUBSET Callers, NEW b, Answered(S, b) PROVE t \in S
  BY <1>1, <1>2, AnsweredIs
<1>3. CASE WorkerDone
  <2>1. client \in Callers /\ Answered({client}, FALSE) /\ workAt = "report" /\ workAt' = "recv"
    BY <1>1, <1>3 DEF TrainsTypeOK, WorkerDone
  <2>2. t = client
    BY <1>2, <2>1
  <2>3. asleep[t] = "worker"
    BY <1>1, <2>1, <2>2 DEF WorkerSleepers
  <2> QED
    BY <2>1, <2>2, <2>3 DEF Answers
<1>4. CASE TrackSensor
  <2>1. /\ trackQ # <<>> /\ Taken /\ Head(trackQ).msg.op = "SENSOR"
        /\ Answered(ToSet(awaiting), Head(trackQ).msg.state)
    BY <1>4 DEF TrackSensor, Gets
  <2>2. t \in ToSet(awaiting)
    BY <1>1, <1>2, <2>1, QueueTypes
  <2>3. Head(trackQ) = trackQ[1] /\ 1 \in DOMAIN trackQ
    BY <1>1, <2>1, TakenIs
  <2>4. Head(trackQ).msg \in ReportCalls
    BY <1>1, <2>1, <2>3 DEF WorkerTells
  <2>5. asleep[t] = "track" /\ Head(todo[t]).op = "AWAIT"
    BY <1>1, <2>2 DEF TrackSleepers
  <2> QED
    BY <2>1, <2>2, <2>4, <2>5 DEF Answers, Taken
<1>5. CASE TrackAnswers \/ TrackSwitchStates
  <2>1. /\ trackQ # <<>> /\ Taken
        /\ Head(trackQ).msg.op \in {"SPEED_TRAIN", "GET_TRACK_ID", "GET_SW_STATES"}
        /\ Answered({Head(trackQ).from}, FALSE)
    BY <1>5 DEF TrackAnswers, TrackSwitchStates, Gets
  <2>2. Head(trackQ) = trackQ[1] /\ 1 \in DOMAIN trackQ
    BY <1>1, <2>1, TakenIs
  <2>3. Head(trackQ).from # Worker /\ Head(trackQ).from \in Callers
    BY <1>1, <2>1, <2>2 DEF WorkerTells, ToWorker, Callers
  <2>4. t = Head(trackQ).from
    BY <1>2, <2>1, <2>3
  <2>5. asleep[t] = "track" /\ Head(todo[t]).op # "AWAIT"
    BY <1>1, <2>1, <2>2, <2>3, <2>4 DEF TrackSleepers
  <2> QED
    BY <2>1, <2>4, <2>5 DEF Answers, Taken
<1>6. CASE asleep' = asleep
  BY <1>6
<1>7. CASE ReaderAsks
  BY <1>1, <1>7 DEF ReaderAsks, TrainsTypeOK
<1>8. ASSUME NEW u \in Slots, Calls(u) PROVE FALSE
  BY <1>1, <1>8 DEF Calls, TrainsTypeOK
<1>9. ~ TrackAnswersAgain
  BY <1>1 DEF TrackAnswersAgain
<1>10. ASSUME NEW u \in Slots, Command(u) PROVE asleep' = asleep
  BY <1>10 DEF Command
<1>11. ASSUME \/ WorkerPuts \/ PutcReturns \/ WorkerCommands \/ WorkerReads \/ WorkerReports
              \/ TrackSwitch \/ TrackTrain \/ TrackAwait
       PROVE  asleep' = asleep
  BY <1>11 DEF WorkerPuts, PutcReturns, WorkerCommands, WorkerReads, WorkerReports, TrackSwitch, TrackTrain,
     TrackAwait
<1>12. CASE WorkerStep
  BY <1>3, <1>6, <1>11, <1>12 DEF WorkerStep
<1>13. CASE TrackStep
  BY <1>4, <1>5, <1>6, <1>9, <1>11, <1>13 DEF TrackStep
<1> QED
  BY <1>6, <1>7, <1>8, <1>10, <1>12, <1>13 DEF TrainsNext

\* Until switch states are asked for, a task comes back only by the server it called.
THEOREM Callee == TrainsSpec => AnsweredByCallee
<1>1. TrainsInv /\ [TrainsNext]_trainVars
        => [\A t \in Callers : asleep[t] # "" /\ asleep'[t] = "" /\ ~ askedSwitches => Answers(t)]_trainVars
  BY WakesAnswer
<1> QED
  BY <1>1, TrainsInvariance, PTL DEF TrainsSpec, AnsweredByCallee

\* The server, the worker, the reader and the command tasks stay in their places,
\* and tables and messages keep their shapes.
THEOREM TrainsTypes == TrainsSpec => []TrainsTypeOK
<1>1. TrainsInv => TrainsTypeOK
  BY DEF TrainsInv
<1> QED
  BY <1>1, TrainsInvariance, PTL


=============================================================================
