------------------------------- MODULE Trains -------------------------------
(***************************************************************************)
(* Train control: the Marklin worker, which alone talks to the track; the  *)
(* track server, which knows the speeds, the switches and who waits for a  *)
(* sensor; the reader, which asks the worker to read the sensors again and *)
(* again; and the tasks a command of the user starts, which wait for       *)
(* sensors, let time pass and set trains.                                  *)
(*                                                                         *)
(* A task is the calls it has yet to make, in order; it sleeps in a call   *)
(* until someone replies to it, and the kernel does not ask who.  Worker   *)
(* and server take their messages in the order sent.                       *)
(***************************************************************************)
EXTENDS Integers, Sequences, FiniteSets, SequencesExt

CONSTANTS
  Slots,      \* ids of the tasks that run commands; a slot is used again
  TrainIds, Speeds, SwitchIds,
  Sensors,    \* 16 * module + bit, bit 0 for sensor 1: of the modules 0..4
  Commands    \* of each slot, the programs of the commands the user gives it

ASSUME TrainsAssumption == Sensors \subseteq 0..79 /\ IsFiniteSet(Sensors)

Reader == "reader"
Worker == "worker"

\* -1 in a char without sign: no speed commanded yet.
NoSpeed == 255

VARIABLES
  todo,       \* what each task has yet to call; the first call is the current one
  asleep,     \* in a call to which server each task sleeps: "worker", "track", ""
  workQ,      \* messages sent to the worker
  workAt,     \* "recv"; asleep in a "putc", in the last one, with the command "sent", or in
              \* a "getc"; "telling" the track server, or "report": with more to tell it
  client,     \* whom the worker works for
  job,        \* what it does for it
  seen,       \* prev_reta, prev_retb: the sensors pressed at the last reading
  reports,    \* what of it the track server has yet to be told
  trackQ,     \* messages sent to the track server
  again,      \* tasks it is about to reply to a second time
  awaiting,   \* await_list
  train_speed, sw_states,   \* what the track server knows
  rail,       \* the track itself: the speed last commanded, of each train
  told,       \* history: the sensors last reported as pressed
  askedSwitches   \* history: someone has asked for the switch states

trainVars == <<todo, asleep, workQ, workAt, client, job, seen, reports, trackQ, again, awaiting,
               train_speed, sw_states, rail, told, askedSwitches>>

Callers == Slots \cup {Reader}

\* Calls.
Set(train, speed)  == [op |-> "TRAIN", id |-> train, state |-> speed]
Solonoid(sw, mode) == [op |-> "SWITCH", id |-> sw, state |-> mode]
Read               == [op |-> "SENSOR", id |-> -1, state |-> -1]
Ask(what)          == [op |-> what, id |-> -1, state |-> -1]
Await(until)       == [op |-> "AWAIT", id |-> -1, state |-> until]
Pause              == [op |-> "Delay", id |-> -1, state |-> -1]

ToWorker == {"TRAIN", "SWITCH", "SENSOR"}
ToTrack  == {"AWAIT", "SPEED_TRAIN", "GET_TRACK_ID", "GET_SW_STATES"}

\* The programs.  A task that waits to stop waits for a sensor to be released.
tr(t, speed)         == <<Set(t, speed)>>
sw(s, mode)          == <<Solonoid(s, mode)>>
sensor_stop(t)       == <<Await("release"), Set(t, 0)>>
delay_until_stop(t)  == <<Await("release"), Pause, Set(t, 0)>>
\* It hands over to a delay_until_stop, which waits for a sensor of its own.
sensor_delay_stop(t) == <<Await("release")>> \o delay_until_stop(t)
reverse(t, speed)    == <<Set(t, 0), Pause, Set(t, 15), Pause, Set(t, speed)>>
stop_at(t)           == <<Ask("SPEED_TRAIN"), Ask("GET_TRACK_ID"), Ask("GET_SW_STATES"), Await("any")>>
path_switch(route)   == <<Ask("GET_TRACK_ID")>> \o route

TrainsInit ==
  /\ todo = [t \in Callers |-> <<>>] /\ asleep = [t \in Callers |-> ""]
  /\ workQ = <<>> /\ workAt = "recv" /\ client = Reader /\ job = Read
  /\ seen = {} /\ reports = <<>>
  /\ trackQ = <<>> /\ again = <<>> /\ awaiting = <<>>
  /\ train_speed = [t \in TrainIds |-> NoSpeed] /\ rail = [t \in TrainIds |-> NoSpeed]
  /\ sw_states = [s \in SwitchIds |-> "?"]
  /\ told = {} /\ askedSwitches = FALSE

-----------------------------------------------------------------------------
(* The tasks.                                                              *)

Message(t, m) == [from |-> t, msg |-> m]

\* The user gives a command.  Bound: none once switch states have been asked for,
\* since every such question leaves a message too many behind.
Command(t) ==
  /\ todo[t] = <<>> /\ t \in Slots /\ ~ askedSwitches
  /\ \E p \in Commands[t] : todo' = [todo EXCEPT ![t] = p]
  /\ UNCHANGED <<asleep, workQ, workAt, client, job, seen, reports, trackQ, again, awaiting,
                 train_speed, sw_states, rail, told, askedSwitches>>

\* The reader asks for a reading whenever the last is done.
ReaderAsks ==
  /\ todo[Reader] = <<>>
  /\ todo' = [todo EXCEPT ![Reader] = <<Read>>]
  /\ workQ' = Append(workQ, Message(Reader, Read))
  /\ asleep' = [asleep EXCEPT ![Reader] = "worker"]
  /\ UNCHANGED <<workAt, client, job, seen, reports, trackQ, again, awaiting, train_speed, sw_states,
                 rail, told, askedSwitches>>

Calls(t) ==
  /\ todo[t] # <<>> /\ asleep[t] = ""
  /\ LET m == Head(todo[t])
     IN \/ /\ m.op \in ToWorker
           /\ workQ' = Append(workQ, Message(t, m))
           /\ asleep' = [asleep EXCEPT ![t] = "worker"] /\ UNCHANGED <<todo, trackQ>>
        \/ /\ m.op \in ToTrack
           /\ trackQ' = Append(trackQ, Message(t, m))
           /\ asleep' = [asleep EXCEPT ![t] = "track"] /\ UNCHANGED <<todo, workQ>>
        \/ /\ m = Pause
           /\ todo' = [todo EXCEPT ![t] = Tail(@)] /\ UNCHANGED <<asleep, workQ, trackQ>>
  /\ UNCHANGED <<workAt, client, job, seen, reports, again, awaiting, train_speed, sw_states, rail,
                 told, askedSwitches>>

\* A reply to the tasks of S, of a sensor that was released or not.  Only a task
\* that sleeps in a call gets it, whatever it called; one that awaits a release
\* calls again after anything else.
Answered(S, released) ==
  LET woken == {t \in S : asleep[t] # ""}
  IN /\ asleep' = [t \in Callers |-> IF t \in woken THEN "" ELSE asleep[t]]
     /\ todo' = [t \in Callers |->
          IF t \in woken /\ (Head(todo[t]) = Await("release") => released)
          THEN Tail(todo[t]) ELSE todo[t]]

-----------------------------------------------------------------------------
(* The worker.                                                             *)

\* The worker takes a message and puts its first byte.
WorkerPuts ==
  /\ workAt = "recv" /\ workQ # <<>>
  /\ client' = Head(workQ).from /\ job' = Head(workQ).msg
  /\ workQ' = Tail(workQ) /\ workAt' = "putc"
  /\ UNCHANGED <<todo, asleep, seen, reports, trackQ, again, awaiting, train_speed, sw_states, rail,
                 told, askedSwitches>>

\* The Marklin console server answers the worker's Putc, which puts the last byte of
\* a command, or waits for the bytes of a reading.  The server answers after events
\* that io_notifier hands to no one in this build, so that this may never happen.
PutcReturns ==
  /\ workAt = "putc"
  /\ \/ job.op \in {"TRAIN", "SWITCH"} /\ workAt' = "sent"
     \/ job = Read /\ workAt' = "getc"
  /\ rail' = [t \in TrainIds |-> IF job.op = "TRAIN" /\ t = job.id THEN job.state ELSE rail[t]]
  /\ UNCHANGED <<todo, asleep, workQ, client, job, seen, reports, trackQ, again, awaiting,
                 train_speed, sw_states, told, askedSwitches>>

\* The last Putc of a command returns: the track server is told.
WorkerCommands ==
  /\ workAt = "sent" /\ workAt' = "telling"
  /\ trackQ' = Append(trackQ, Message(Worker, job))
  /\ UNCHANGED <<todo, asleep, workQ, client, job, seen, reports, again, awaiting, train_speed,
                 sw_states, rail, told, askedSwitches>>

Report(s, released) == [sensor |-> s, released |-> released]

\* Module by module: pressed before released, the first eight sensors before the
\* second, and of eight the highest first.
Rank(r) ==
  32 * (r.sensor \div 16) + (IF r.released THEN 16 ELSE 0)
    + 8 * ((r.sensor % 16) \div 8) + (7 - (r.sensor % 8))

\* The reports of S in that order.
Ordered(S) ==
  CHOOSE s \in [1..Cardinality(S) -> S] : \A i, j \in DOMAIN s : i < j => Rank(s[i]) < Rank(s[j])

Changes(old, new) ==
  {Report(s, FALSE) : s \in new \ old} \cup {Report(s, TRUE) : s \in old \ new}

\* Mutant of Remembered: a sensor once seen pressed stays so.
RememberedPressed(old, new) == old \cup new

\* What is kept of a reading for the next one.
Remembered(old, new) == new

\* The last byte of a reading has come: any sensors may be pressed.
WorkerReads ==
  /\ workAt = "getc" /\ workAt' = "report"
  /\ \E new \in SUBSET Sensors :
       /\ reports' = Ordered(Changes(seen, new))
       /\ seen' = Remembered(seen, new)
  /\ UNCHANGED <<todo, asleep, workQ, client, job, trackQ, again, awaiting, train_speed, sw_states, rail,
                 told, askedSwitches>>

WorkerReports ==
  /\ workAt = "report" /\ reports # <<>>
  /\ trackQ' = Append(trackQ, Message(Worker,
                 [op |-> "SENSOR", id |-> Head(reports).sensor, state |-> Head(reports).released]))
  /\ reports' = Tail(reports) /\ workAt' = "telling"
  /\ UNCHANGED <<todo, asleep, workQ, client, job, seen, again, awaiting, train_speed, sw_states, rail,
                 told, askedSwitches>>

\* Everything is told: the client is answered.
WorkerDone ==
  /\ workAt = "report" /\ reports = <<>>
  /\ workAt' = "recv"
  /\ Answered({client}, FALSE)
  /\ UNCHANGED <<workQ, client, job, seen, reports, trackQ, again, awaiting, train_speed, sw_states, rail,
                 told, askedSwitches>>

-----------------------------------------------------------------------------
(* The track server.                                                       *)

Gets(op) == again = <<>> /\ trackQ # <<>> /\ Head(trackQ).msg.op = op
Taken == trackQ' = Tail(trackQ)

\* Mutant of LeftWaiting: await_count is not reset.
LeftWaitingAll == awaiting

\* await_list once all on it have been replied to.
LeftWaiting == <<>>

\* A sensor: everyone who awaits one is told of it, then the worker answered.
TrackSensor ==
  /\ Gets("SENSOR") /\ Taken
  /\ LET m == Head(trackQ).msg
     IN /\ Answered(ToSet(awaiting), m.state)
        /\ told' = IF m.state THEN told \ {m.id} ELSE told \cup {m.id}
  /\ awaiting' = LeftWaiting /\ workAt' = "report"
  /\ UNCHANGED <<workQ, client, job, seen, reports, again, train_speed, sw_states, rail, askedSwitches>>

\* Mutants of Stored: the number is stored, and nothing is.
StoredNumber(table, m) == [table EXCEPT ![m.id] = m.id]
StoredNothing(table, m) == table

\* A table entry is overwritten.  Numbers past the table's end write elsewhere:
\* not modelled.
Stored(table, m) == [table EXCEPT ![m.id] = m.state]

TrackSwitch ==
  /\ Gets("SWITCH") /\ Taken
  /\ sw_states' = Stored(sw_states, Head(trackQ).msg)
  /\ workAt' = "report"
  /\ UNCHANGED <<todo, asleep, workQ, client, job, seen, reports, again, awaiting, train_speed, rail, told,
                 askedSwitches>>

TrackTrain ==
  /\ Gets("TRAIN") /\ Taken
  /\ train_speed' = Stored(train_speed, Head(trackQ).msg)
  /\ workAt' = "report"
  /\ UNCHANGED <<todo, asleep, workQ, client, job, seen, reports, again, awaiting, sw_states, rail, told,
                 askedSwitches>>

TrackAwait ==
  /\ Gets("AWAIT") /\ Taken
  /\ awaiting' = Append(awaiting, Head(trackQ).from)
  /\ UNCHANGED <<todo, asleep, workQ, workAt, client, job, seen, reports, again, train_speed, sw_states,
                 rail, told, askedSwitches>>

TrackAnswers ==
  /\ Gets("SPEED_TRAIN") \/ Gets("GET_TRACK_ID")
  /\ Taken
  /\ Answered({Head(trackQ).from}, FALSE)
  /\ UNCHANGED <<workQ, workAt, client, job, seen, reports, again, awaiting, train_speed, sw_states,
                 rail, told, askedSwitches>>

\* GET_SW_STATES has the number of GET_SENSOR_PUSHED: two branches match, and each
\* replies.
TrackSwitchStates ==
  /\ Gets("GET_SW_STATES") /\ Taken
  /\ Answered({Head(trackQ).from}, FALSE)
  /\ again' = <<Head(trackQ).from>> /\ askedSwitches' = TRUE
  /\ UNCHANGED <<workQ, workAt, client, job, seen, reports, awaiting, train_speed, sw_states, rail, told>>

\* The third byte of the switch states is no 0: a task takes it for a release.
TrackAnswersAgain ==
  /\ again # <<>> /\ again' = <<>>
  /\ Answered({Head(again)}, TRUE)
  /\ UNCHANGED <<workQ, workAt, client, job, seen, reports, trackQ, awaiting, train_speed, sw_states,
                 rail, told, askedSwitches>>

-----------------------------------------------------------------------------
WorkerStep == \/ WorkerPuts \/ PutcReturns \/ WorkerCommands
              \/ WorkerReads \/ WorkerReports \/ WorkerDone
TrackStep  == \/ TrackSensor \/ TrackSwitch \/ TrackTrain \/ TrackAwait
              \/ TrackAnswers \/ TrackSwitchStates \/ TrackAnswersAgain

TrainsNext ==
  \/ ReaderAsks \/ WorkerStep \/ TrackStep
  \/ \E t \in Slots : Command(t) \/ Calls(t)

TrainsSpec == TrainsInit /\ [][TrainsNext]_trainVars

-----------------------------------------------------------------------------
(* Properties.                                                             *)

AllCalls ==
  {Read, Pause} \cup {Ask(w) : w \in {"SPEED_TRAIN", "GET_TRACK_ID", "GET_SW_STATES"}}
    \cup {Await(u) : u \in {"release", "any"}}
    \cup {Set(t, v) : t \in TrainIds, v \in Speeds}
    \cup {Solonoid(n, m) : n \in SwitchIds, m \in {"S", "C"}}

\* The programs of commands make these calls; no server has a slot.
ASSUME CommandsAssumption ==
  /\ \A t \in Slots : Commands[t] \subseteq Seq(AllCalls)
  /\ {Reader, Worker} \cap Slots = {}

ReportCalls == [op : {"SENSOR"}, id : Sensors, state : BOOLEAN]

TrainsTypeOK ==
  /\ todo \in [Callers -> Seq(AllCalls)]
  /\ asleep \in [Callers -> {"", "worker", "track"}]
  /\ workQ \in Seq([from : Callers, msg : AllCalls])
  /\ workAt \in {"recv", "putc", "sent", "getc", "telling", "report"}
  /\ client \in Callers /\ job \in AllCalls
  /\ seen \subseteq Sensors /\ told \subseteq Sensors
  /\ reports \in Seq([sensor : Sensors, released : BOOLEAN])
  /\ trackQ \in Seq([from : Callers \cup {Worker}, msg : AllCalls \cup ReportCalls])
  /\ again \in Seq(Slots) /\ awaiting \in Seq(Slots)
  /\ train_speed \in [TrainIds -> Speeds \cup {NoSpeed}] /\ rail \in [TrainIds -> Speeds \cup {NoSpeed}]
  /\ sw_states \in [SwitchIds -> {"?", "S", "C"}]
  /\ askedSwitches \in BOOLEAN

\* The track server's speed of a train is the one last sent to the track, but for
\* the train whose command the worker still puts, or is about to tell the server.
SpeedsAgree ==
  \A t \in TrainIds :
    train_speed[t] # rail[t] =>
      \/ workAt = "sent" /\ job = Set(t, rail[t])
      \/ \E i \in DOMAIN trackQ : trackQ[i] = Message(Worker, Set(t, rail[t]))

\* No change of a sensor is lost and none is reported twice: with what the worker
\* has yet to tell, the track server has been told exactly of the sensors seen.
Untold ==
  ToSet(reports) \cup
    {Report(m.id, m.state) : m \in {trackQ[i].msg : i \in DOMAIN trackQ} \cap ReportCalls}

ReportsComplete == Untold = Changes(told, seen)

\* A task comes back from a call only by the server it called, once that has dealt
\* with the call: the worker has no message of it left, and from await_sensor only
\* when a sensor is reported.
Answers(t) ==
  CASE asleep[t] = "worker" ->
         workAt = "report" /\ client = t /\ workAt' = "recv"
    [] asleep[t] = "track" /\ Head(todo[t]).op = "AWAIT" ->
         t \in ToSet(awaiting) /\ trackQ # <<>> /\ Head(trackQ).msg \in ReportCalls
           /\ trackQ' = Tail(trackQ)
    [] OTHER ->
         trackQ # <<>> /\ Head(trackQ).from = t /\ trackQ' = Tail(trackQ)

AnsweredByCallee ==
  [][\A t \in Callers : asleep[t] # "" /\ asleep'[t] = "" /\ ~ askedSwitches => Answers(t)]_trainVars

=============================================================================
