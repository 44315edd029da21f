------------------------- MODULE MasterServer_proofs -------------------------
(***************************************************************************)
(* What MasterServer guarantees for any names, machines, periods and       *)
(* configuration.                                                          *)
(***************************************************************************)
EXTENDS MasterServer, TLAPS

\* A stopped server has no status time left over.
WipedWhenStopped == ~running => svs_nextStatusResponseTime = 0

IInv == TypeOK /\ AddressesFresh /\ WipedWhenStopped

-----------------------------------------------------------------------------
LEMMA ResolutionsKnown ==
    ASSUME NEW n \in Name \cup {NoName}
    PROVE  Resolutions(n) \subseteq Known \cup {NA_BAD}
  BY DEF Resolutions, Known

LEMMA InitIInv == Init => IInv
<1> SUFFICES ASSUME Init PROVE IInv
  OBVIOUS
<1> USE MasterAssumption DEF Init
<1>1. TypeOK
  BY DEF TypeOK, Address, MasterPacket, Known, AtOnce
<1>2. AddressesFresh
  BY DEF AddressesFresh
<1>3. WipedWhenStopped
  BY DEF WipedWhenStopped
<1> QED
  BY <1>1, <1>2, <1>3 DEF IInv

\* What a lookup returns is well typed and, if it is not NA_BAD, at the
\* machine the cvar names.
LEMMA LookupTyped ==
    ASSUME IInv, NEW r \in Lookups, NEW i \in Masters
    PROVE  /\ r[i] \in Address
           /\ r[i] \in Resolutions(sv_master[i].string) \/ ~NeedsResolving(i)
           /\ ~NeedsResolving(i) => r[i] = masterServerAddr[i]
<1> DEFINE s == sv_master[i].string
<1>0. s \in Name \cup {NoName} /\ masterServerAddr[i] \in Address
  BY DEF IInv, TypeOK
<1>1. r[i] \in IF NeedsResolving(i) THEN Resolutions(s) ELSE {masterServerAddr[i]}
  BY DEF Lookups
<1>2. Resolutions(s) \subseteq Known \cup {NA_BAD}
  BY <1>0, ResolutionsKnown
<1> QED
  BY <1>0, <1>1, <1>2 DEF Address

LEMMA LookupFresh ==
    ASSUME IInv, NEW r \in Lookups, NEW i \in Masters
    PROVE  r[i] \in Resolutions(sv_master[i].string)
<1>1. CASE NeedsResolving(i)
  BY <1>1, LookupTyped
<1>2. CASE ~NeedsResolving(i)
  <2>1. masterServerAddr[i] # NA_INIT /\ ~sv_master[i].modified
    BY <1>2 DEF NeedsResolving
  <2>2. masterServerAddr[i] \in Resolutions(sv_master[i].string)
    BY <2>1 DEF IInv, AddressesFresh
  <2> QED
    BY <1>2, <2>2, LookupTyped
<1> QED
  BY <1>1, <1>2

LEMMA LookupKeepsIInv ==
    ASSUME IInv, NEW r \in Lookups, NEW I \in SUBSET Masters,
           SV_MasterAddress(I, r)
    PROVE  /\ masterServerAddr' \in [Masters -> Address]
           /\ sv_master' \in [Masters -> [string : Name \cup {NoName},
                                          modified : BOOLEAN]]
           /\ \A i \in Masters : sv_master'[i].string = sv_master[i].string
           /\ AddressesFresh'
<1> USE DEF SV_MasterAddress
<1>1. masterServerAddr' \in [Masters -> Address]
  BY LookupTyped DEF IInv, TypeOK
<1>2. /\ sv_master' \in [Masters -> [string : Name \cup {NoName}, modified : BOOLEAN]]
      /\ \A i \in Masters : sv_master'[i].string = sv_master[i].string
  BY DEF IInv, TypeOK
<1>3. AddressesFresh'
  <2> SUFFICES ASSUME NEW i \in Masters, ~sv_master'[i].modified
               PROVE masterServerAddr'[i] \in
                        {NA_INIT} \cup Resolutions(sv_master[i].string)
    BY <1>2 DEF AddressesFresh, Resolutions
  <2>1. CASE i \in I
    BY <2>1, LookupFresh
  <2>2. CASE i \notin I
    <3>1. sv_master'[i] = sv_master[i] /\ masterServerAddr'[i] = masterServerAddr[i]
      BY <2>2
    <3> QED
      BY <3>1 DEF IInv, AddressesFresh
  <2> QED
    BY <2>1, <2>2
<1> QED
  BY <1>1, <1>2, <1>3

LEMMA PacketsTyped ==
    ASSUME IInv, NEW r \in Lookups, NEW I \in SUBSET Listed,
           NEW kind, NEW p \in Packets(kind, I, r)
    PROVE  /\ p[1] = kind /\ p[2] \in Listed /\ p[3] = r[p[2]]
           /\ p = <<p[1], p[2], p[3]>>
           /\ p[3] \in Known
           /\ IsAt(p[3], Host[sv_master[p[2]].string])
<1>1. PICK i \in I : p = <<kind, i, r[i]>> /\ r[i] # NA_BAD
  BY DEF Packets
<1>2. i \in Masters /\ sv_master[i].string \in Name
  BY DEF Listed, IInv, TypeOK
<1>3. r[i] \in Resolutions(sv_master[i].string)
  BY <1>2, LookupFresh
<1>4. r[i] = <<"ip", Host[sv_master[i].string], PortOf(sv_master[i].string)>>
  BY <1>1, <1>2, <1>3 DEF Resolutions
<1> QED
  BY <1>1, <1>2, <1>4 DEF Known, IsAt, Listed

-----------------------------------------------------------------------------
\* What SV_MasterHeartbeat does to the addresses, cvars and packets.
LEMMA HeartbeatStep ==
    ASSUME IInv, NEW hbname \in {"COD-2", "flatline"}, NEW time \in Nat,
           NEW next \in Nat \cup {AtOnce}, SV_MasterHeartbeat(hbname, time, next)
    PROVE  /\ masterServerAddr' \in [Masters -> Address]
           /\ sv_master' \in [Masters -> [string : Name \cup {NoName},
                                          modified : BOOLEAN]]
           /\ AddressesFresh'
           /\ nextIPTime' = After(GetIpDue(time), nextIPTime, time, GETIP_RETRY)
           /\ sent' \subseteq MasterPacket /\ asked' \subseteq Known
           /\ listening' \subseteq Masters
           /\ SentToCurrentMaster'
<1> DEFINE L == IF HeartbeatDue(time, next) \/ StatusDue(time) THEN Listed ELSE {}
           Q == IF GetIpDue(time) THEN CoD2xMasters ELSE {}
<1>1. PICK r \in Lookups :
         LET heartbeats == IF HeartbeatDue(time, next)
                           THEN Packets(hbname, L, r) ELSE {}
             questions == Packets("getIp", Q, r)
         IN /\ SV_MasterAddress(L \cup Q, r)
            /\ nextIPTime' = After(GetIpDue(time), nextIPTime, time, GETIP_RETRY)
            /\ sent' = heartbeats \cup questions
                         \cup (IF StatusDue(time) THEN Packets("status", L, r)
                                                  ELSE {})
            /\ asked' = asked \cup {p[3] : p \in questions}
            /\ listening' = IF hbname = "COD-2"
                            THEN listening \cup {p[2] : p \in heartbeats}
                            ELSE {}
  BY DEF SV_MasterHeartbeat
<1>2. Q \subseteq Listed /\ L \subseteq Listed /\ Listed \subseteq Masters
  BY MasterAssumption DEF CoD2xMasters, Listed
<1>3. /\ masterServerAddr' \in [Masters -> Address]
      /\ sv_master' \in [Masters -> [string : Name \cup {NoName}, modified : BOOLEAN]]
      /\ \A i \in Masters : sv_master'[i].string = sv_master[i].string
      /\ AddressesFresh'
  BY <1>1, <1>2, LookupKeepsIInv
<1>4. ASSUME NEW p \in sent'
      PROVE  /\ p[1] \in {"COD-2", "flatline", "status", "getIp"}
             /\ p[2] \in Listed /\ p = <<p[1], p[2], p[3]>> /\ p[3] \in Known
             /\ IsAt(p[3], Host[sv_master[p[2]].string])
  <2>1. \/ p \in Packets(hbname, L, r) \/ p \in Packets("getIp", Q, r)
        \/ p \in Packets("status", L, r)
    BY <1>1
  <2>2. CASE p \in Packets(hbname, L, r)
    BY <2>2, <1>2, PacketsTyped
  <2>3. CASE p \in Packets("getIp", Q, r)
    BY <2>3, <1>2, PacketsTyped
  <2>4. CASE p \in Packets("status", L, r)
    BY <2>4, <1>2, PacketsTyped
  <2> QED
    BY <2>1, <2>2, <2>3, <2>4
<1>5. sent' \subseteq MasterPacket
  BY <1>2, <1>4 DEF MasterPacket
<1>6. asked' \subseteq Known
  <2>1. \A p \in Packets("getIp", Q, r) : p[3] \in Known
    BY <1>2, PacketsTyped
  <2> QED
    BY <1>1, <2>1 DEF IInv, TypeOK
<1>7. listening' \subseteq Masters
  <2>1. \A p \in Packets(hbname, L, r) : p[2] \in Masters
    BY <1>2, PacketsTyped
  <2> QED
    BY <1>1, <2>1 DEF IInv, TypeOK
<1>8. SentToCurrentMaster'
  BY <1>2, <1>3, <1>4 DEF SentToCurrentMaster, IsAt, Listed
<1> QED
  BY <1>1, <1>3, <1>5, <1>6, <1>7, <1>8

LEMMA AskingKeepsIInv ==
    ASSUME IInv, NEW machine, NEW r \in Lookups,
           SV_MasterAddress(LookedUp(machine, r), r)
    PROVE  /\ masterServerAddr' \in [Masters -> Address]
           /\ sv_master' \in [Masters -> [string : Name \cup {NoName},
                                          modified : BOOLEAN]]
           /\ AddressesFresh'
<1>1. LookedUp(machine, r) \in SUBSET Masters
  BY DEF LookedUp
<1> QED
  BY <1>1, LookupKeepsIInv

-----------------------------------------------------------------------------
LEMMA WaitedTyped ==
    ASSUME IInv, [Next]_vars
    PROVE  quiet' \in [Masters -> Nat] /\ unasked' \in [Masters -> Nat]
<1>0. quiet \in [Masters -> Nat] /\ unasked \in [Masters -> Nat]
  BY DEF IInv, TypeOK
<1>1. ASSUME NEW f \in {0, 1}, Waited(f)
      PROVE  quiet' \in [Masters -> Nat] /\ unasked' \in [Masters -> Nat]
  BY <1>0, <1>1 DEF Waited
<1>2. CASE SV_SpawnServer \/ UNCHANGED vars
  BY <1>0, <1>2 DEF SV_SpawnServer, vars
<1>3. CASE Frame
  BY <1>1, <1>3 DEF Frame
<1>4. CASE SV_Heartbeat_f
  BY <1>1, <1>4 DEF SV_Heartbeat_f
<1>5. CASE SV_Shutdown
  BY <1>1, <1>5 DEF SV_Shutdown
<1>6. CASE \E i \in Masters, n \in Name \cup {NoName} : SetMaster(i, n)
  BY <1>1, <1>6 DEF SetMaster
<1>7. CASE \E a \in asked : GetIpResponse(a[2])
  BY <1>1, <1>7 DEF GetIpResponse
<1>8. CASE \E c \in Client : AskIfMaster(c)
  BY <1>1, <1>8 DEF AskIfMaster
<1> QED
  BY <1>2, <1>3, <1>4, <1>5, <1>6, <1>7, <1>8 DEF Next

LEMMA NextIInv == IInv /\ [Next]_vars => IInv' /\ (Next => SentToCurrentMaster')
<1> SUFFICES ASSUME IInv, [Next]_vars
             PROVE  IInv' /\ (Next => SentToCurrentMaster')
  OBVIOUS
<1> USE MasterAssumption
<1>0. quiet' \in [Masters -> Nat] /\ unasked' \in [Masters -> Nat]
  BY WaitedTyped
<1>1. CASE Frame
  <2>1. svs_time' \in Nat /\ svs_nextHeartbeatTime \in Nat \cup {AtOnce}
    BY <1>1 DEF Frame, IInv, TypeOK
  <2>2. SV_MasterHeartbeat("COD-2", svs_time', svs_nextHeartbeatTime)
    BY <1>1 DEF Frame
  <2>3. /\ svs_nextHeartbeatTime' \in Nat \cup {AtOnce}
        /\ svs_nextStatusResponseTime' \in Nat /\ nextIPTime' \in Nat
        /\ running' \in BOOLEAN /\ knowsIp' \in BOOLEAN /\ running'
    <3>1. nextIPTime' = After(GetIpDue(svs_time'), nextIPTime, svs_time', GETIP_RETRY)
      BY <2>1, <2>2, HeartbeatStep
    <3>2. nextIPTime' \in Nat
      BY <2>1, <3>1 DEF After, IInv, TypeOK
    <3>3. /\ svs_nextHeartbeatTime' \in Nat \cup {AtOnce}
          /\ svs_nextStatusResponseTime' \in Nat
      BY <1>1, <2>1 DEF Frame, After, IInv, TypeOK
    <3>4. running' \in BOOLEAN /\ knowsIp' \in BOOLEAN /\ running'
      BY <1>1 DEF Frame, IInv, TypeOK
    <3> QED
      BY <3>2, <3>3, <3>4
  <2>4. /\ masterServerAddr' \in [Masters -> Address]
        /\ sv_master' \in [Masters -> [string : Name \cup {NoName},
                                       modified : BOOLEAN]]
        /\ AddressesFresh'
        /\ sent' \subseteq MasterPacket /\ asked' \subseteq Known
        /\ listening' \subseteq Masters
        /\ SentToCurrentMaster'
    BY <2>1, <2>2, HeartbeatStep
  <2>5. TypeOK'
    BY <1>0, <2>1, <2>3, <2>4 DEF TypeOK
  <2>6. WipedWhenStopped'
    BY <2>3 DEF WipedWhenStopped
  <2> QED
    BY <2>4, <2>5, <2>6 DEF IInv
<1>2. CASE SV_Heartbeat_f
  BY <1>0, <1>2 DEF SV_Heartbeat_f, IInv, TypeOK, WipedWhenStopped, AddressesFresh,
              SentToCurrentMaster, MasterPacket, AtOnce
<1>3. CASE SV_SpawnServer
  <2>1. svs_time' \in Nat /\ svs_nextHeartbeatTime' \in Nat \cup {AtOnce}
    BY <1>3 DEF SV_SpawnServer, IInv, TypeOK
  <2>2. nextIPTime' \in Nat
    BY <1>3, <2>1 DEF SV_SpawnServer
  <2>3. TypeOK'
    BY <1>0, <1>3, <2>1, <2>2 DEF SV_SpawnServer, IInv, TypeOK
  <2>4. AddressesFresh' /\ WipedWhenStopped' /\ SentToCurrentMaster'
    BY <1>3 DEF SV_SpawnServer, IInv, AddressesFresh, WipedWhenStopped,
                SentToCurrentMaster
  <2> QED
    BY <2>3, <2>4 DEF IInv
<1>4. CASE SV_Shutdown
  <2>1. svs_time \in Nat /\ AtOnce \in Nat \cup {AtOnce}
    BY DEF IInv, TypeOK
  <2>2. SV_MasterHeartbeat("flatline", svs_time, AtOnce)
    BY <1>4 DEF SV_Shutdown
  <2>3. nextIPTime' \in Nat
    <3>1. nextIPTime' = After(GetIpDue(svs_time), nextIPTime, svs_time, GETIP_RETRY)
      BY <2>2 DEF SV_MasterHeartbeat
    <3> QED
      BY <2>1, <3>1 DEF After, IInv, TypeOK
  <2>4. /\ masterServerAddr' \in [Masters -> Address]
        /\ sv_master' \in [Masters -> [string : Name \cup {NoName},
                                       modified : BOOLEAN]]
        /\ AddressesFresh'
        /\ sent' \subseteq MasterPacket /\ asked' \subseteq Known
        /\ listening' \subseteq Masters
        /\ SentToCurrentMaster'
    BY <2>1, <2>2, HeartbeatStep
  <2>5. TypeOK' /\ WipedWhenStopped'
    BY <1>0, <1>4, <2>1, <2>3, <2>4 DEF SV_Shutdown, IInv, TypeOK, WipedWhenStopped
  <2> QED
    BY <2>4, <2>5 DEF IInv
<1>5. ASSUME NEW i \in Masters, NEW n \in Name \cup {NoName}, SetMaster(i, n)
      PROVE  IInv' /\ SentToCurrentMaster'
  <2>1. sv_master' \in [Masters -> [string : Name \cup {NoName}, modified : BOOLEAN]]
    BY <1>5 DEF SetMaster, IInv, TypeOK
  <2>2. AddressesFresh'
    <3> SUFFICES ASSUME NEW j \in Masters, ~sv_master'[j].modified
                 PROVE  masterServerAddr'[j] \in
                           {NA_INIT} \cup Resolutions(sv_master'[j].string)
      BY DEF AddressesFresh, Resolutions
    <3>1. j # i /\ sv_master'[j] = sv_master[j]
      BY <1>5 DEF SetMaster, IInv, TypeOK
    <3> QED
      BY <1>5, <3>1 DEF SetMaster, IInv, AddressesFresh
  <2> QED
    BY <1>0, <1>5, <2>1, <2>2 DEF SetMaster, IInv, TypeOK, WipedWhenStopped,
                            SentToCurrentMaster, MasterPacket, timers
<1>6. ASSUME NEW a \in asked, GetIpResponse(a[2])
      PROVE  IInv' /\ SentToCurrentMaster'
  <2>1. PICK r \in Lookups :
          /\ SV_MasterAddress(LookedUp(a[2], r), r)
          /\ knowsIp' = (knowsIp \/ server_isAddressMasterServer(a[2], r))
    BY <1>6 DEF GetIpResponse
  <2>2. knowsIp' \in BOOLEAN
    BY <2>1, ZenonT(30) DEF server_isAddressMasterServer, IsAt, IInv, TypeOK
  <2> QED
    BY <1>0, <1>6, <2>1, <2>2, AskingKeepsIInv
       DEF GetIpResponse, IInv, TypeOK, WipedWhenStopped, SentToCurrentMaster,
           MasterPacket
<1>7. ASSUME NEW c \in Client, AskIfMaster(c)
      PROVE  IInv' /\ SentToCurrentMaster'
  <2>1. PICK r \in Lookups : SV_MasterAddress(LookedUp(c, r), r)
    BY <1>7 DEF AskIfMaster
  <2> QED
    BY <1>0, <1>7, <2>1, AskingKeepsIInv
       DEF AskIfMaster, IInv, TypeOK, WipedWhenStopped, SentToCurrentMaster,
           MasterPacket, timers
<1>8. CASE UNCHANGED vars /\ ~Next
  BY <1>8 DEF vars, IInv, TypeOK, AddressesFresh, WipedWhenStopped, Resolutions
<1> QED
  BY <1>1, <1>2, <1>3, <1>4, <1>5, <1>6, <1>7, <1>8 DEF Next

LEMMA InductiveInvariance == Spec => []IInv
<1>1. Init => IInv
  BY InitIInv
<1>2. IInv /\ [Next]_vars => IInv'
  BY NextIInv
<1> QED
  BY <1>1, <1>2, PTL DEF Spec

(* The state of the master connection is well formed, and every packet     *)
(* goes to an address that was resolved.                                   *)
THEOREM MasterTypeCorrect == Spec => []TypeOK
<1>1. IInv => TypeOK
  BY DEF IInv
<1> QED
  BY <1>1, InductiveInvariance, PTL

(* An address not marked as outdated belongs to the current cvar value.    *)
THEOREM AddressesStayFresh == Spec => []AddressesFresh
<1>1. IInv => AddressesFresh
  BY DEF IInv
<1> QED
  BY <1>1, InductiveInvariance, PTL

(* Packets go to the machine the cvar names now.                           *)
THEOREM PacketsReachTheCurrentMaster == Spec => []SentToCurrentMaster
<1>1. Init => SentToCurrentMaster
  BY DEF Init, SentToCurrentMaster
<1>2. IInv /\ SentToCurrentMaster /\ [Next]_vars => SentToCurrentMaster'
  <2> SUFFICES ASSUME IInv, SentToCurrentMaster, [Next]_vars
               PROVE  SentToCurrentMaster'
    OBVIOUS
  <2>1. CASE Next
    BY <2>1, NextIInv
  <2>2. CASE UNCHANGED vars
    BY <2>2 DEF vars, SentToCurrentMaster
  <2> QED
    BY <2>1, <2>2
<1> QED
  BY <1>1, <1>2, InductiveInvariance, PTL DEF Spec

-----------------------------------------------------------------------------
LEMMA NextTimers == IInv /\ TimersWithinPeriod /\ [Next]_vars => TimersWithinPeriod'
<1> SUFFICES ASSUME IInv, TimersWithinPeriod, [Next]_vars, running'
             PROVE  TimersWithinPeriod'
  BY DEF TimersWithinPeriod
<1> USE MasterAssumption
<1>0. /\ svs_time \in Nat /\ svs_nextHeartbeatTime \in Int /\ nextIPTime \in Nat
      /\ svs_nextStatusResponseTime \in Nat
  BY DEF IInv, TypeOK, AtOnce
<1>1. CASE Frame
  <2>1. SV_MasterHeartbeat("COD-2", svs_time', svs_nextHeartbeatTime)
    BY <1>1 DEF Frame
  <2>2. nextIPTime' = After(GetIpDue(svs_time'), nextIPTime, svs_time', GETIP_RETRY)
    BY <2>1 DEF SV_MasterHeartbeat
  <2>3. /\ svs_time' = svs_time + 1 /\ running
        /\ svs_nextHeartbeatTime' \in {svs_nextHeartbeatTime, svs_time' + HEARTBEAT_MSEC}
        /\ svs_nextStatusResponseTime'
              \in {svs_nextStatusResponseTime, svs_time' + STATUS_MSEC}
        /\ nextIPTime' \in {nextIPTime, svs_time' + GETIP_RETRY}
    BY <1>1, <2>2 DEF Frame, After
  <2> QED
    BY <1>0, <2>3 DEF TimersWithinPeriod
<1>2. CASE SV_Heartbeat_f
  BY <1>0, <1>2 DEF SV_Heartbeat_f, TimersWithinPeriod, AtOnce
<1>3. CASE SV_SpawnServer
  BY <1>0, <1>3 DEF SV_SpawnServer, TimersWithinPeriod, AtOnce, IInv, WipedWhenStopped
<1>4. CASE SV_Shutdown
  BY <1>4 DEF SV_Shutdown
<1>5. ASSUME NEW i \in Masters, NEW n \in Name \cup {NoName}, SetMaster(i, n)
      PROVE  TimersWithinPeriod'
  BY <1>0, <1>5 DEF SetMaster, timers, TimersWithinPeriod
<1>6. ASSUME NEW a \in asked, GetIpResponse(a[2])
      PROVE  TimersWithinPeriod'
  BY <1>0, <1>6 DEF GetIpResponse, TimersWithinPeriod
<1>7. ASSUME NEW c \in Client, AskIfMaster(c)
      PROVE  TimersWithinPeriod'
  BY <1>7 DEF AskIfMaster, timers, TimersWithinPeriod
<1>8. CASE UNCHANGED vars
  BY <1>8 DEF vars, TimersWithinPeriod
<1> QED
  BY <1>1, <1>2, <1>3, <1>4, <1>5, <1>6, <1>7, <1>8 DEF Next

(* Nothing the running server owes the masters is further away than its    *)
(* period.                                                                 *)
THEOREM NothingOverdue == Spec => []TimersWithinPeriod
<1>1. Init => TimersWithinPeriod
  BY DEF Init, TimersWithinPeriod
<1> QED
  BY <1>1, NextTimers, InductiveInvariance, PTL DEF Spec

-----------------------------------------------------------------------------
\* A master that was quiet for some time is due that much earlier.
QuietInv ==
    \A i \in Masters :
        /\ ~Reachable(i) => quiet[i] = 0
        /\ quiet[i] <= HEARTBEAT_MSEC
        /\ Reachable(i) => svs_nextHeartbeatTime + quiet[i] <= svs_time + HEARTBEAT_MSEC

\* A heartbeat that is due goes to every master that can be reached.
LEMMA DueIsSent ==
    ASSUME IInv, NEW time \in Nat, NEW next \in Nat \cup {AtOnce},
           SV_MasterHeartbeat("COD-2", time, next), HeartbeatDue(time, next),
           NEW i \in Masters, Reachable(i)'
    PROVE  Got("COD-2", i)'
<1>1. PICK r \in Lookups :
         /\ SV_MasterAddress(Listed \cup (IF GetIpDue(time) THEN CoD2xMasters ELSE {}), r)
         /\ Packets("COD-2", Listed, r) \subseteq sent'
  BY DEF SV_MasterHeartbeat
<1>2. \A j \in Masters : sv_master'[j].string = sv_master[j].string
  BY <1>1 DEF SV_MasterAddress, IInv, TypeOK
<1>3. i \in Listed
  BY <1>2 DEF Reachable, Listed
<1>4. masterServerAddr'[i] = r[i]
  BY <1>1, <1>3 DEF SV_MasterAddress
<1>5. r[i] # NA_BAD
  BY <1>4 DEF Reachable, IsAt, NA_BAD
<1>6. <<"COD-2", i, r[i]>> \in sent'
  BY <1>1, <1>3, <1>5 DEF Packets
<1> QED
  BY <1>6 DEF Got

LEMMA NextQuiet ==
    dedicated = 2 /\ IInv /\ TimersWithinPeriod /\ QuietInv /\ [Next]_vars => QuietInv'
<1> SUFFICES ASSUME dedicated = 2, IInv, TimersWithinPeriod, QuietInv, [Next]_vars,
                    NEW i \in Masters
             PROVE  /\ ~Reachable(i)' => quiet'[i] = 0
                    /\ quiet'[i] <= HEARTBEAT_MSEC
                    /\ Reachable(i)' => svs_nextHeartbeatTime' + quiet'[i]
                                          <= svs_time' + HEARTBEAT_MSEC
  BY DEF QuietInv
<1> USE MasterAssumption
<1>0. /\ svs_time \in Nat /\ svs_nextHeartbeatTime \in Nat \cup {AtOnce}
      /\ quiet \in [Masters -> Nat]
      /\ ~Reachable(i) => quiet[i] = 0
      /\ quiet[i] <= HEARTBEAT_MSEC
      /\ Reachable(i) => svs_nextHeartbeatTime + quiet[i] <= svs_time + HEARTBEAT_MSEC
  BY DEF IInv, TypeOK, QuietInv
<1>1. running => svs_nextHeartbeatTime <= svs_time + HEARTBEAT_MSEC
  BY DEF TimersWithinPeriod
<1>2. CASE Frame
  <2>1. /\ svs_time' = svs_time + 1 /\ running
        /\ svs_nextHeartbeatTime' = After(HeartbeatDue(svs_time', svs_nextHeartbeatTime),
               svs_nextHeartbeatTime, svs_time', HEARTBEAT_MSEC)
        /\ quiet'[i] = IF Reachable(i)' /\ ~Got("COD-2", i)' THEN quiet[i] + 1 ELSE 0
    BY <1>2 DEF Frame, Waited
  <2>2. CASE HeartbeatDue(svs_time', svs_nextHeartbeatTime)
    <3>1. svs_time' \in Nat /\ SV_MasterHeartbeat("COD-2", svs_time', svs_nextHeartbeatTime)
      BY <1>0, <1>2, <2>1 DEF Frame
    <3>2. Reachable(i)' => Got("COD-2", i)'
      BY <1>0, <2>2, <3>1, DueIsSent
    <3> QED
      BY <1>0, <2>1, <2>2, <3>1, <3>2 DEF After
  <2>3. CASE ~HeartbeatDue(svs_time', svs_nextHeartbeatTime)
    <3>1. svs_nextHeartbeatTime' = svs_nextHeartbeatTime
          /\ svs_time' < svs_nextHeartbeatTime
      BY <1>0, <2>1, <2>3 DEF HeartbeatDue, After, AtOnce
    <3>2. svs_nextHeartbeatTime + quiet[i] <= svs_time + HEARTBEAT_MSEC
      BY <1>0, <1>1, <2>1 DEF AtOnce
    <3> QED
      BY <1>0, <2>1, <3>1, <3>2 DEF AtOnce
  <2> QED
    BY <2>2, <2>3
<1>3. ASSUME Waited(0), svs_time' = svs_time,
             svs_nextHeartbeatTime' \in {svs_nextHeartbeatTime, AtOnce},
             running'
      PROVE  /\ ~Reachable(i)' => quiet'[i] = 0
             /\ quiet'[i] <= HEARTBEAT_MSEC
             /\ running /\ Reachable(i)' => svs_nextHeartbeatTime' + quiet'[i]
                                              <= svs_time' + HEARTBEAT_MSEC
  <2>1. /\ quiet'[i] \in {0, quiet[i]}
        /\ ~Reachable(i)' => quiet'[i] = 0
    BY <1>0, <1>3 DEF Waited
  <2> QED
    BY <1>0, <1>1, <1>3, <2>1 DEF AtOnce
<1>4. CASE SV_Heartbeat_f
  BY <1>3, <1>4 DEF SV_Heartbeat_f
<1>5. CASE SV_SpawnServer
  <2>1. /\ quiet' = quiet /\ (Reachable(i) => Reachable(i)')
        /\ svs_nextHeartbeatTime' = AtOnce
        /\ svs_time' \in Nat /\ svs_time' >= svs_time
        /\ (running /\ Reachable(i)' => Reachable(i))
    BY <1>0, <1>5 DEF SV_SpawnServer, Reachable, Listed
  <2>2. ~running => quiet[i] = 0
    BY <1>0 DEF Reachable
  <2> QED
    BY <1>0, <2>1, <2>2 DEF AtOnce, Reachable
<1>6. CASE SV_Shutdown
  <2>1. ~Reachable(i)'
    BY <1>6 DEF SV_Shutdown, Reachable
  <2>2. quiet'[i] = 0
    BY <1>6, <2>1 DEF SV_Shutdown, Waited
  <2> QED
    BY <2>1, <2>2
<1>7. CASE \E j \in Masters, n \in Name \cup {NoName} : SetMaster(j, n)
  <2>1. /\ Waited(0) /\ svs_time' = svs_time /\ running' = running
        /\ svs_nextHeartbeatTime' = svs_nextHeartbeatTime
    BY <1>7 DEF SetMaster, timers
  <2>2. CASE running
    BY <1>3, <2>1, <2>2
  <2>3. CASE ~running
    BY <2>1, <2>3 DEF Waited, Reachable
  <2> QED
    BY <2>2, <2>3
<1>8. CASE \E a \in asked : GetIpResponse(a[2])
  BY <1>3, <1>8 DEF GetIpResponse
<1>9. CASE \E c \in Client : AskIfMaster(c)
  BY <1>3, <1>9 DEF AskIfMaster, timers
<1>10. CASE UNCHANGED vars
  BY <1>0, <1>10 DEF vars, Reachable, Listed
<1> QED
  BY <1>2, <1>4, <1>5, <1>6, <1>7, <1>8, <1>9, <1>10 DEF Next

(* A running internet server keeps being listed by every master it can     *)
(* reach.                                                                  *)
THEOREM ServerKeepsListed == Spec => []KeepsListed
<1>1. CASE dedicated = 2
  <2>1. Init => QuietInv
    BY MasterAssumption DEF Init, QuietInv, Reachable
  <2>2. IInv /\ TimersWithinPeriod /\ QuietInv /\ [Next]_vars => QuietInv'
    BY <1>1, NextQuiet
  <2>3. IInv /\ QuietInv => KeepsListed
    BY DEF QuietInv, KeepsListed
  <2> QED
    BY <2>1, <2>2, <2>3, InductiveInvariance, NothingOverdue, PTL DEF Spec
<1>2. CASE dedicated # 2
  <2>1. KeepsListed
    BY <1>2 DEF KeepsListed
  <2> QED
    BY <2>1, PTL
<1> QED
  BY <1>1, <1>2

-----------------------------------------------------------------------------
\* No longer than it takes to the first question, or to the next.
Soon(n) == n <= GETIP_DELAY \/ n <= GETIP_RETRY

\* A master that was not asked for some time is asked that much earlier.
QuestionInv ==
    \A i \in Masters :
        /\ ~MayBeAsked(i) => unasked[i] = 0
        /\ Soon(unasked[i])
        /\ MayBeAsked(i) => Soon(nextIPTime + unasked[i] - svs_time)

\* A question that is due goes to the CoD2x master if it can be reached.
LEMMA DueIsAsked ==
    ASSUME IInv, NEW time \in Nat, NEW next \in Nat \cup {AtOnce},
           SV_MasterHeartbeat("COD-2", time, next), GetIpDue(time),
           NEW i \in Masters, MayBeAsked(i)'
    PROVE  Got("getIp", i)'
<1>1. PICK r \in Lookups :
         /\ SV_MasterAddress((IF HeartbeatDue(time, next) \/ StatusDue(time) THEN Listed ELSE {})
                                \cup CoD2xMasters, r)
         /\ Packets("getIp", CoD2xMasters, r) \subseteq sent'
  BY DEF SV_MasterHeartbeat
<1>2. \A j \in Masters : sv_master'[j].string = sv_master[j].string
  BY <1>1 DEF SV_MasterAddress, IInv, TypeOK
<1>3. i \in CoD2xMasters
  BY <1>2 DEF MayBeAsked, CoD2xMasters
<1>4. masterServerAddr'[i] = r[i]
  BY <1>1, <1>3 DEF SV_MasterAddress
<1>5. r[i] # NA_BAD
  BY <1>4 DEF MayBeAsked, Reachable, IsAt, NA_BAD
<1>6. <<"getIp", i, r[i]>> \in sent'
  BY <1>1, <1>3, <1>5 DEF Packets
<1> QED
  BY <1>6 DEF Got

LEMMA NextQuestion ==
    dedicated = 2 /\ IInv /\ TimersWithinPeriod /\ QuestionInv /\ [Next]_vars => QuestionInv'
<1> SUFFICES ASSUME dedicated = 2, IInv, TimersWithinPeriod, QuestionInv, [Next]_vars,
                    NEW i \in Masters
             PROVE  /\ ~MayBeAsked(i)' => unasked'[i] = 0
                    /\ Soon(unasked'[i])
                    /\ MayBeAsked(i)' => Soon(nextIPTime' + unasked'[i] - svs_time')
  BY DEF QuestionInv, Soon
<1> USE MasterAssumption
<1>0. /\ svs_time \in Nat /\ nextIPTime \in Nat /\ unasked \in [Masters -> Nat]
      /\ svs_nextHeartbeatTime \in Nat \cup {AtOnce}
      /\ ~MayBeAsked(i) => unasked[i] = 0
      /\ Soon(unasked[i])
      /\ MayBeAsked(i) => Soon(nextIPTime + unasked[i] - svs_time)
  BY DEF IInv, TypeOK, QuestionInv
<1>1. running => Soon(nextIPTime + unasked[i] - svs_time)
  <2>1. running => Soon(nextIPTime - svs_time)
    BY <1>0 DEF TimersWithinPeriod, Soon
  <2> QED
    BY <1>0, <2>1
<1>2. CASE Frame
  <2>1. /\ svs_time' = svs_time + 1 /\ running
        /\ SV_MasterHeartbeat("COD-2", svs_time', svs_nextHeartbeatTime)
        /\ unasked'[i] = IF MayBeAsked(i)' /\ ~Got("getIp", i)' THEN unasked[i] + 1 ELSE 0
    BY <1>2 DEF Frame, Waited
  <2>2. nextIPTime' = After(GetIpDue(svs_time'), nextIPTime, svs_time', GETIP_RETRY)
    BY <2>1 DEF SV_MasterHeartbeat
  <2>3. CASE GetIpDue(svs_time')
    <3>1. MayBeAsked(i)' => Got("getIp", i)'
      BY <1>0, <2>1, <2>3, DueIsAsked
    <3> QED
      BY <1>0, <2>1, <2>2, <2>3, <3>1 DEF After, Soon
  <2>4. CASE ~GetIpDue(svs_time')
    <3>1. nextIPTime' = nextIPTime /\ (nextIPTime > 0 => svs_time' < nextIPTime)
      BY <1>0, <2>1, <2>2, <2>4 DEF GetIpDue, After
    <3>2. MayBeAsked(i)' => nextIPTime > 0
      BY <3>1 DEF MayBeAsked
    <3> QED
      BY <1>0, <1>1, <2>1, <3>1, <3>2 DEF Soon
  <2> QED
    BY <2>3, <2>4
<1>3. ASSUME Waited(0), svs_time' = svs_time, running' => running,
             nextIPTime' \in {nextIPTime, 0}
      PROVE  /\ ~MayBeAsked(i)' => unasked'[i] = 0
             /\ Soon(unasked'[i])
             /\ MayBeAsked(i)' => Soon(nextIPTime' + unasked'[i] - svs_time')
  <2>1. unasked'[i] = IF MayBeAsked(i)' /\ ~Got("getIp", i)' THEN unasked[i] ELSE 0
    BY <1>0, <1>3 DEF Waited
  <2>2. MayBeAsked(i)' => nextIPTime' = nextIPTime /\ running
    BY <1>3 DEF MayBeAsked, Reachable
  <2>3. Soon(0)
    BY DEF Soon
  <2>4. Soon(unasked'[i])
    BY <1>0, <2>1, <2>3
  <2>5. ASSUME MayBeAsked(i)'
        PROVE  Soon(nextIPTime' + unasked'[i] - svs_time')
    <3>1. CASE unasked'[i] = unasked[i]
      BY <1>1, <1>3, <2>2, <2>5, <3>1
    <3>2. CASE unasked'[i] = 0
      BY <1>0, <1>3, <2>2, <2>5, <3>2 DEF TimersWithinPeriod, Soon
    <3> QED
      BY <2>1, <3>1, <3>2
  <2> QED
    BY <2>1, <2>4, <2>5
<1>4. CASE SV_Heartbeat_f \/ \E j \in Masters, n \in Name \cup {NoName} : SetMaster(j, n)
  BY <1>3, <1>4 DEF SV_Heartbeat_f, SetMaster, timers
<1>5. CASE SV_SpawnServer
  <2>1. unasked'[i] = 0 /\ svs_time' \in Nat /\ nextIPTime' = svs_time' + GETIP_DELAY
    BY <1>0, <1>5 DEF SV_SpawnServer
  <2>2. nextIPTime' + unasked'[i] - svs_time' = GETIP_DELAY
    BY <2>1
  <2>3. Soon(0) /\ Soon(GETIP_DELAY)
    BY DEF Soon
  <2> QED
    BY <2>1, <2>2, <2>3
<1>6. CASE SV_Shutdown
  <2>1. ~MayBeAsked(i)'
    BY <1>6 DEF SV_Shutdown, MayBeAsked, Reachable
  <2>2. unasked'[i] = 0
    BY <1>6, <2>1 DEF SV_Shutdown, Waited
  <2>3. Soon(0)
    BY DEF Soon
  <2> QED
    BY <2>1, <2>2, <2>3
<1>7. CASE (\E a \in asked : GetIpResponse(a[2])) \/ \E c \in Client : AskIfMaster(c)
  BY <1>3, <1>7 DEF GetIpResponse, AskIfMaster, timers
<1>8. CASE UNCHANGED vars
  <2>1. MayBeAsked(i)' <=> MayBeAsked(i)
    BY <1>8 DEF vars, MayBeAsked, Reachable, Listed, CoD2xMasters
  <2> QED
    BY <1>0, <1>8, <2>1 DEF vars
<1> QED
  BY <1>2, <1>4, <1>5, <1>6, <1>7, <1>8 DEF Next

(* A server that does not know its address asks every CoD2x master it can  *)
(* reach again and again, however often maps change in between.            *)
THEOREM ServerKeepsAsking == Spec => []QuestionIsRepeated
<1>1. CASE dedicated = 2
  <2>1. Init => QuestionInv
    BY MasterAssumption DEF Init, QuestionInv, MayBeAsked, Reachable, Soon
  <2>2. IInv /\ TimersWithinPeriod /\ QuestionInv /\ [Next]_vars => QuestionInv'
    BY <1>1, NextQuestion
  <2>3. QuestionInv => QuestionIsRepeated
    BY DEF QuestionInv, QuestionIsRepeated, Soon
  <2> QED
    BY <2>1, <2>2, <2>3, InductiveInvariance, NothingOverdue, PTL DEF Spec
<1>2. CASE dedicated # 2
  <2>1. QuestionIsRepeated
    BY <1>2 DEF QuestionIsRepeated
  <2> QED
    BY <2>1, PTL
<1> QED
  BY <1>1, <1>2

-----------------------------------------------------------------------------
\* The address of a master that lists the server is known and stays known.
KnownForGood(i) == /\ i \in Listed /\ ~sv_master[i].modified
                 /\ masterServerAddr[i] \notin {NA_INIT, NA_BAD}

ListenInv == \A i \in listening : i \in Masters /\ KnownForGood(i) /\ dedicated = 2

LEMMA LookupKeepsKnown ==
    ASSUME IInv, NEW r \in Lookups, NEW I \in SUBSET Masters,
           SV_MasterAddress(I, r), NEW i \in Masters
    PROVE  /\ KnownForGood(i) => KnownForGood(i)' /\ r[i] = masterServerAddr[i]
           /\ i \in I \cap Listed /\ r[i] # NA_BAD => KnownForGood(i)'
<1>1. /\ sv_master'[i].string = sv_master[i].string
      /\ ~sv_master[i].modified => ~sv_master'[i].modified
      /\ i \in I /\ NeedsResolving(i) => ~sv_master'[i].modified
      /\ masterServerAddr'[i] = IF i \in I THEN r[i] ELSE masterServerAddr[i]
  BY DEF SV_MasterAddress, IInv, TypeOK
<1>2. ~NeedsResolving(i) => r[i] = masterServerAddr[i]
  BY LookupTyped
<1>3. r[i] # NA_INIT
  <2>1. r[i] \in Resolutions(sv_master[i].string)
    BY LookupFresh
  <2> QED
    BY <2>1 DEF Resolutions, NA_INIT, NA_BAD
<1>4. i \in Listed => i \in Listed'
  BY <1>1 DEF Listed
<1>5. KnownForGood(i) => KnownForGood(i)' /\ r[i] = masterServerAddr[i]
  BY <1>1, <1>2, <1>4 DEF KnownForGood, NeedsResolving
<1>6. ASSUME i \in I \cap Listed, r[i] # NA_BAD
      PROVE  KnownForGood(i)'
  <2>1. ~sv_master'[i].modified
    BY <1>1, <1>6 DEF NeedsResolving
  <2> QED
    BY <1>1, <1>3, <1>4, <1>6, <2>1 DEF KnownForGood
<1> QED
  BY <1>5, <1>6

LEMMA NextListen == IInv /\ ListenInv /\ [Next]_vars => ListenInv'
<1> SUFFICES ASSUME IInv, ListenInv, [Next]_vars, NEW i \in listening'
             PROVE  i \in Masters /\ KnownForGood(i)' /\ dedicated = 2
  BY DEF ListenInv
<1> USE MasterAssumption
<1>0. /\ \A j \in listening : j \in Masters /\ KnownForGood(j) /\ dedicated = 2
      /\ CoD2xMasters \subseteq Masters /\ Listed \subseteq Masters
  BY DEF ListenInv, CoD2xMasters, Listed
<1>1. CASE Frame
  <2> DEFINE due == HeartbeatDue(svs_time', svs_nextHeartbeatTime)
             L == IF due \/ StatusDue(svs_time') THEN Listed ELSE {}
             I == L \cup (IF GetIpDue(svs_time') THEN CoD2xMasters ELSE {})
  <2>1. PICK r \in Lookups :
           /\ SV_MasterAddress(I, r)
           /\ listening' = listening \cup
                 {p[2] : p \in (IF due THEN Packets("COD-2", L, r) ELSE {})}
    BY <1>1 DEF Frame, SV_MasterHeartbeat
  <2>2. CASE i \in listening
    BY <1>0, <2>1, <2>2, LookupKeepsKnown
  <2>3. CASE i \notin listening
    <3>1. due /\ \E p \in Packets("COD-2", L, r) : i = p[2]
      BY <2>1, <2>3
    <3>2. i \in L /\ L = Listed /\ r[i] # NA_BAD
      BY <3>1 DEF Packets
    <3> QED
      BY <1>0, <2>1, <3>1, <3>2, LookupKeepsKnown DEF HeartbeatDue
  <2> QED
    BY <2>2, <2>3
<1>2. CASE SV_Heartbeat_f \/ SV_SpawnServer \/ UNCHANGED vars
  <2>1. /\ listening' = listening /\ sv_master' = sv_master
        /\ masterServerAddr' = masterServerAddr
    BY <1>2 DEF SV_Heartbeat_f, SV_SpawnServer, vars
  <2> QED
    BY <1>0, <2>1 DEF KnownForGood, Listed
<1>3. CASE SV_Shutdown
  <2>1. listening' = {}
    BY <1>3 DEF SV_Shutdown, SV_MasterHeartbeat
  <2> QED
    BY <2>1
<1>4. ASSUME NEW j \in Masters, NEW n \in Name \cup {NoName}, SetMaster(j, n)
      PROVE  i \in Masters /\ KnownForGood(i)' /\ dedicated = 2
  <2>1. i \in listening /\ i # j
    BY <1>4 DEF SetMaster
  <2>2. sv_master'[i] = sv_master[i] /\ masterServerAddr' = masterServerAddr
    BY <1>0, <1>4, <2>1 DEF SetMaster, IInv, TypeOK
  <2> QED
    BY <1>0, <2>1, <2>2 DEF KnownForGood, Listed
<1>5. ASSUME NEW machine, GetIpResponse(machine) \/ AskIfMaster(machine)
      PROVE  i \in Masters /\ KnownForGood(i)' /\ dedicated = 2
  <2>1. PICK r \in Lookups : SV_MasterAddress(LookedUp(machine, r), r)
    BY <1>5 DEF GetIpResponse, AskIfMaster
  <2>2. LookedUp(machine, r) \in SUBSET Masters
    BY DEF LookedUp
  <2>3. i \in listening
    BY <1>5 DEF GetIpResponse, AskIfMaster
  <2> QED
    BY <1>0, <2>1, <2>2, <2>3, LookupKeepsKnown
<1> QED
  BY <1>1, <1>2, <1>3, <1>4, <1>5 DEF Next

LEMMA ShutdownSaysGoodbye ==
    ASSUME IInv, ListenInv, [Next]_vars, running, ~running', NEW i \in listening
    PROVE  \E p \in sent' : p[1] = "flatline" /\ p[2] = i
<1>1. SV_Shutdown
  BY DEF Next, Frame, SV_Heartbeat_f, SV_SpawnServer, SetMaster, GetIpResponse,
         AskIfMaster, vars
<1>2. i \in Masters /\ KnownForGood(i) /\ dedicated = 2
  BY DEF ListenInv
<1>3. HeartbeatDue(svs_time, AtOnce)
  BY <1>2 DEF HeartbeatDue, AtOnce, IInv, TypeOK
<1> DEFINE I == Listed \cup (IF GetIpDue(svs_time) THEN CoD2xMasters ELSE {})
<1>4. PICK r \in Lookups :
         SV_MasterAddress(I, r) /\ Packets("flatline", Listed, r) \subseteq sent'
  BY <1>1, <1>3 DEF SV_Shutdown, SV_MasterHeartbeat
<1>5. I \in SUBSET Masters
  BY DEF Listed, CoD2xMasters
<1>6. r[i] = masterServerAddr[i]
  BY <1>2, <1>4, <1>5, LookupKeepsKnown
<1>7. <<"flatline", i, r[i]>> \in sent'
  BY <1>2, <1>4, <1>6 DEF Packets, KnownForGood
<1> QED
  BY <1>7

(* A server that stops says goodbye to every master that lists it.         *)
THEOREM GoodbyeIsSaid == Spec => GoodbyeToListening
<1>1. Init => ListenInv
  BY DEF Init, ListenInv
<1>2. IInv /\ ListenInv /\ [Next]_vars =>
        [running /\ ~running' =>
           \A i \in listening : \E p \in sent' : p[1] = "flatline" /\ p[2] = i]_vars
  BY ShutdownSaysGoodbye
<1> QED
  BY <1>1, <1>2, NextListen, InductiveInvariance, PTL DEF Spec, GoodbyeToListening

=============================================================================
