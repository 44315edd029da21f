CONSTANTS  MAX_MASTER_SERVERS = 2
  activision = "activision"  cod2x = "cod2x"  client = "client"
  Name = {"activision", "cod2x"}
  SERVER_MASTER_URI = "cod2x"
  Host <- MCHost  Port <- MCPort
  Client = {"client"}
  FirstNames <- Defaults
  dedicated = 2
  HEARTBEAT_MSEC = 3  STATUS_MSEC = 2  GETIP_DELAY = 3  GETIP_RETRY = 2
  SETTLE = 1  TimeWrap = 8
SPECIFICATION Spec
INVARIANTS TypeOK SentToCurrentMaster KeepsListed 
PROPERTIES GoodbyeToListening
