CONSTANTS
  a1 = a1  a2 = a2  b1 = b1  loop = loop  NoAddr = NoAddr
  IpOf <- MCIpOf
  Addr = {a1, b1, loop}
  Local = {loop}
  Lan = {}
  Master = {b1}
  QPort = {7}
  HWID = {1}
  ClientVersions <- CurrentClients
  Number = {1, 2}
  KeyAnswers <- NoAnswers
  MAX_CHALLENGES = 2
  sv_maxclients = 1
  sv_privateClients = 0
  sv_reconnectlimit = 1
  AuthTimeout = 1
  net_lanauthorize = FALSE
  sv_cracked = FALSE
  RandRepeats = FALSE
  MaxTime = 4
  MaxBans = 0
SPECIFICATION FairSpec
PROPERTIES SilenceLetsIn
