SPECIFICATION Spec
CONSTANTS
  Tasks = {1, 2, 3, 4}
  NoName = NoName
  Notifier = 1
  Server = 2
  Clients = {3, 4}
  Delays <- MCDelays
  Untils = {4}
  LastCall = 1
  LastTick = 8
  Texts <- MCTexts
  EventSlots = 3
  ReadSlots = 2
  CmdMax = 2
  PromptLen = 1
  MaxOther = 1
  Callers = {"shell", "test"}
  NoCaller = "none"
  Commands <- MCCommands
  NoCall <- MCNoCall
  MaxCalls = 2
  MaxPieces = 3
  Incoming <- MCIncoming
  MaxIncoming = 2
  Conns = {1, 2, 3}
  OSName <- MCOSName
  NoConn = 0
  Talks <- MCTalks
  Listening = {}
  MaxTalk = 2
  MaxGone = 1
INVARIANTS
  TypeOK
  OnceAskedOnceWaiting
  NothingLostOrRepeated
  BurstsInOrder
  ScreenShowsCommand
  OneAnswerPerCall
  EveryLineHandedOn
  TableIsTrue
  LinesAnsweredInOrder
PROPERTIES
  NoDelayEndsEarly
  CallsComeBack
  CharactersArrive
  LinkCallsReturn
CHECK_DEADLOCK FALSE
