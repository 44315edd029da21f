CONSTANTS
  a1 = a1  a2 = a2  b1 = b1  loop = loop  NoAddr = NoAddr
  IpOf <- MCIpOf
  Addr = {a1, a2}
  Local = {}
  Lan = {}
  Master = {}
  QPort = {7}
  HWID = {1}
  ClientVersions <- CurrentClients
  Number = {1, 2}
  KeyAnswers <- AnyAnswer
  MAX_CHALLENGES = 2
  sv_maxclients = 1
  sv_privateClients = 0
  sv_reconnectlimit = 1
  AuthTimeout = 0
  net_lanauthorize = FALSE
  sv_cracked = FALSE
  RandRepeats = FALSE
  MaxTime = 3
  MaxBans = 0
SPECIFICATION Spec
INVARIANTS TypeOK PlayersWereTold
PROPERTIES NoAdmissionAfterRefusal AnswerReachesItsClient
