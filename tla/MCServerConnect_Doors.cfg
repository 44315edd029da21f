CONSTANTS
  a1 = a1  a2 = a2  b1 = b1  loop = loop  NoAddr = NoAddr
  IpOf <- MCIpOf
  Addr = {a1, b1}
  Local = {}
  Lan = {b1}
  Master = {}
  QPort = {7}
  HWID = {1, 2}
  ClientVersions <- EveryClient
  Number = {1, 2}
  KeyAnswers <- CrackedAnswers
  MAX_CHALLENGES = 1
  sv_maxclients = 1
  sv_privateClients = 1
  sv_reconnectlimit = 1
  AuthTimeout = 0
  net_lanauthorize = FALSE
  sv_cracked = TRUE
  RandRepeats = FALSE
  MaxTime = 2
  MaxBans = 1
SPECIFICATION Spec
PROPERTIES ImplementsPolicy AdmittedUnderUnbannedId ToldForAReason
