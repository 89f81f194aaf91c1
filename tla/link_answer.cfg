SPECIFICATION LanSpec
CONSTANTS
  Callers = {"shell"}
  NoCaller = "none"
  Commands <- LanCommands
  NoCall <- LanNoCall
  MaxCalls = 1
  MaxPieces = 2
  Conns = {1, 2}
  OSName <- LanOSName
  NoConn = 0
  Listening = {1}
  Us = 1
  Talks <- LanTalks
  MaxTalk = 1
  MaxGone = 0
PROPERTIES PingGetsPong
CHECK_DEADLOCK FALSE
