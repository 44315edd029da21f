------------------------ MODULE ServerConnect_proofs ------------------------
(***************************************************************************)
(* Proofs about ServerConnect, for every value of its constants.           *)
(***************************************************************************)
EXTENDS ServerConnect, TLAPS

-----------------------------------------------------------------------------
(* Type correctness.                                                       *)

LEMMA EmptySlotType == EmptySlot \in ChallengeSlot
  BY ConstantsAssumption DEF EmptySlot, ChallengeSlot

LEMMA FreeSeatType == FreeSeat \in ClientSeat
  BY ConstantsAssumption DEF FreeSeat, ClientSeat

LEMMA InitType == Init => TypeOK
  BY EmptySlotType, FreeSeatType, ConstantsAssumption DEF Init, TypeOK, Message

\* A fresh slot is well formed and belongs to the address that asked.
LEMMA NewChallengeType ==
    ASSUME TypeOK, NEW i \in Slot, NEW from \in Remote, NEW c \in Number \cup {0}
    PROVE  /\ NewChallenge(i, from, c) \in ChallengeSlot
           /\ NewChallenge(i, from, c).adr = from
           /\ NewChallenge(i, from, c).challenge = c
           /\ NewChallenge(i, from, c).firstTime = svs_time
  BY DEF TypeOK, NewChallenge, ChallengeSlot, Remote

\* Answering a challenge keeps the parts it changes well formed.
LEMMA AnswerChallengeType ==
    ASSUME TypeOK, NEW slot \in ChallengeSlot, slot.adr \in Remote,
           AnswerChallenge(slot)
    PROVE  /\ svs_authorizeAddress' \in {"init", "resolved", "bad"}
           /\ reply' \in [to : Addr \cup {NoAddr}, msg : Message]
           /\ asked' \subseteq (Number \cup {0}) \X Remote
           /\ told' \subseteq (Number \cup {0}) \X (Remote \cup {NoAddr})
  <1>0. slot.challenge \in Number \cup {0} /\ slot.adr \in Addr
    BY DEF ChallengeSlot, Remote
  <1>1. CASE LanAnswer(slot)
    BY <1>0, <1>1 DEF LanAnswer, TellChallenge, Send, TypeOK, Message
  <1>2. CASE ResolveFails(slot)
    BY <1>0, <1>2 DEF ResolveFails, Silence, Send, TypeOK, Message
  <1>3. CASE AskOrTimeOut(slot)
    BY <1>0, <1>3 DEF AskOrTimeOut, TellChallenge, Silence, Send, TypeOK, Message
  <1>4. QED BY <1>1, <1>2, <1>3 DEF AnswerChallenge

LEMMA GetChallengeType ==
    ASSUME TypeOK, NEW from \in Remote, SV_GetChallenge(from)
    PROVE  TypeOK'
  <1>1. ASSUME NEW i \in Slot, IsFirst(i, OpenSlots(from)),
               AnswerChallenge(svs_challenges[i]),
               UNCHANGED <<svs_challenges, issuedTo, issuedAt>>
        PROVE  TypeOK'
    <2>1. svs_challenges[i] \in ChallengeSlot /\ svs_challenges[i].adr \in Remote
      BY <1>1 DEF TypeOK, IsFirst, OpenSlots
    <2>2. QED BY <1>1, <2>1, AnswerChallengeType DEF TypeOK, SV_GetChallenge, bans
  <1>2. ASSUME NEW i \in Slot, NEW c \in NewNumbers,
               svs_challenges' =
                 [svs_challenges EXCEPT ![i] = NewChallenge(i, from, c)],
               issuedTo' = [issuedTo EXCEPT ![c] = from],
               issuedAt' = [issuedAt EXCEPT ![c] = svs_time],
               AnswerChallenge(NewChallenge(i, from, c))
        PROVE  TypeOK'
    <2>1. c \in Number \cup {0} BY DEF NewNumbers
    <2>2. /\ NewChallenge(i, from, c) \in ChallengeSlot
          /\ NewChallenge(i, from, c).adr \in Remote
      BY <2>1, NewChallengeType
    <2>3. /\ svs_authorizeAddress' \in {"init", "resolved", "bad"}
          /\ reply' \in [to : Addr \cup {NoAddr}, msg : Message]
          /\ asked' \subseteq (Number \cup {0}) \X Remote
          /\ told' \subseteq (Number \cup {0}) \X (Remote \cup {NoAddr})
      BY <1>2, <2>2, AnswerChallengeType
    <2>4. svs_challenges' \in [Slot -> ChallengeSlot]
      BY <1>2, <2>2 DEF TypeOK
    <2>5. /\ issuedTo' \in [Number \cup {0} -> Addr \cup {NoAddr}]
          /\ issuedAt' \in [Number \cup {0} -> Nat]
      BY <1>2, <2>1 DEF TypeOK, Remote
    <2>6. QED BY <2>3, <2>4, <2>5 DEF TypeOK, SV_GetChallenge, bans
  <1>3. QED BY <1>1, <1>2 DEF SV_GetChallenge

LEMMA AuthorizeType ==
    ASSUME TypeOK, NEW p \in asked, NEW answer \in Answer,
           SV_AuthorizeIpPacket(p[1], p[2], answer)
    PROVE  TypeOK'
  <1>1. PICK i \in Slot : IF Accepts(answer) THEN AuthAccept(i)
                                             ELSE AuthRefuse(i, answer)
    BY DEF SV_AuthorizeIpPacket
  <1>2. /\ svs_challenges[i] \in ChallengeSlot
        /\ svs_challenges[i].challenge \in Number \cup {0}
        /\ svs_challenges[i].adr \in Remote \cup {NoAddr}
        /\ svs_challenges[i].adr \in Addr \cup {NoAddr}
    BY DEF TypeOK, ChallengeSlot, Remote
  <1>3. CASE AuthAccept(i)
    BY <1>2, <1>3 DEF AuthAccept, TellChallenge, Silence, Send, Message, TypeOK,
                      SV_AuthorizeIpPacket, bans
  <1>4. CASE AuthRefuse(i, answer)
    <2>1. reply' \in [to : Addr \cup {NoAddr}, msg : Message]
      BY <1>2, <1>4 DEF AuthRefuse, Send, Message
    <2>2. svs_challenges' \in [Slot -> ChallengeSlot]
      BY <1>4, EmptySlotType DEF AuthRefuse, TypeOK
    <2>3. QED
      BY <1>2, <1>4, <2>1, <2>2 DEF AuthRefuse, TypeOK, SV_AuthorizeIpPacket, bans
  <1>5. QED BY <1>1, <1>3, <1>4

LEMMA TakeSeatType ==
    ASSUME TypeOK, NEW from \in Addr, NEW c \in Number \cup {0}, NEW q \in QPort,
           NEW guid \in HWID \cup {0}, TakeSeat(from, c, q, guid)
    PROVE  /\ clients' \in [Seat -> ClientSeat]
           /\ reply' \in [to : Addr \cup {NoAddr}, msg : Message]
  <1>1. /\ NewClient(from, q, c, guid) \in ClientSeat
        /\ Connected(NewClient(from, q, c, guid)) \in ClientSeat
    BY FreeSeatType DEF NewClient, Connected, FreeSeat, ClientSeat, TypeOK
  <1>2. reply' \in [to : Addr \cup {NoAddr}, msg : Message]
    BY DEF TakeSeat, Send, Message
  <1>3. QED BY <1>1, <1>2 DEF TakeSeat, TypeOK

LEMMA OriginalType ==
    ASSUME TypeOK, NEW tbl \in [Slot -> ChallengeSlot], NEW from \in Addr,
           NEW i \in Slot, NEW c \in Number \cup {0}, NEW q \in QPort,
           OriginalDirectConnect(tbl, from, i, c, q)
    PROVE  /\ svs_challenges' \in [Slot -> ChallengeSlot]
           /\ clients' \in [Seat -> ClientSeat]
           /\ reply' \in [to : Addr \cup {NoAddr}, msg : Message]
  <1>1. CASE ReconnectTooSoon(from, q)
    BY <1>1 DEF OriginalDirectConnect, Silence, Send, Message, TypeOK
  <1>2. CASE ~ReconnectTooSoon(from, q) /\ from \in Local
    BY <1>2, TakeSeatType DEF OriginalDirectConnect
  <1>3. CASE ~ReconnectTooSoon(from, q) /\ from \notin Local
    <2>1. tbl[i].guid \in HWID \cup {0} BY DEF ChallengeSlot
    <2>2. svs_challenges' \in [Slot -> ChallengeSlot]
      BY <1>3 DEF OriginalDirectConnect, ChallengeSlot
    <2>3. QED BY <1>3, <2>1, <2>2, TakeSeatType DEF OriginalDirectConnect
  <1>4. QED BY <1>1, <1>2, <1>3

LEMMA ConnectType ==
    ASSUME TypeOK, NEW from \in Addr, NEW v \in ClientVersions,
           NEW hwid \in HWID \cup {0}, NEW c \in Presented, NEW q \in QPort,
           SV_DirectConnect(from, v[1], v[2], hwid, c, q)
    PROVE  TypeOK'
  <1>0. c \in Number \cup {0} BY DEF Presented, TypeOK
  <1>a. UNCHANGED <<svs_time, svs_authorizeAddress, bans, asked, observed>>
    BY DEF SV_DirectConnect
  <1>b. SUFFICES /\ svs_challenges' \in [Slot -> ChallengeSlot]
                 /\ clients' \in [Seat -> ClientSeat]
                 /\ reply' \in [to : Addr \cup {NoAddr}, msg : Message]
    BY <1>a DEF TypeOK, bans, observed
  <1>1. CASE RefuseUnwelcome(from)
    BY <1>1 DEF RefuseUnwelcome, Send, Message, TypeOK
  <1>2. CASE IgnoreUnknown(from)
    BY <1>2 DEF IgnoreUnknown, Silence, Send, Message, TypeOK
  <1>3. CASE ConnectLocal(from, hwid, c, q)
    <2>1. CASE Banned(hwid)
      <3>1. \A i \in Slot : svs_challenges[i].adr \in Addr \cup {NoAddr}
        BY DEF TypeOK, ChallengeSlot, Remote
      <3>2. QED
        BY <1>3, <2>1, <3>1, EmptySlotType
        DEF ConnectLocal, Silence, Send, Message, TypeOK
    <2>2. CASE ~Banned(hwid)
      <3>1. 0 \in Slot BY ConstantsAssumption DEF Slot
      <3>2. svs_challenges \in [Slot -> ChallengeSlot] BY DEF TypeOK
      <3>3. OriginalDirectConnect(svs_challenges, from, 0, c, q)
        BY <1>3, <2>2 DEF ConnectLocal
      <3>4. QED BY <1>0, <3>1, <3>2, <3>3, OriginalType
    <2>3. QED BY <2>1, <2>2
  <1>4. ASSUME NEW i \in Slot, ConnectRemote(from, i, hwid, c, q)
        PROVE  /\ svs_challenges' \in [Slot -> ChallengeSlot]
               /\ clients' \in [Seat -> ClientSeat]
               /\ reply' \in [to : Addr \cup {NoAddr}, msg : Message]
    <2>1. CASE Banned(hwid)
      <3>1. svs_challenges[i].adr \in Addr \cup {NoAddr}
        BY DEF TypeOK, ChallengeSlot, Remote
      <3>2. QED
        BY <1>4, <2>1, <3>1, EmptySlotType
        DEF ConnectRemote, Send, Message, TypeOK
    <2>2. CASE ~Banned(hwid)
      <3>1. WithGuid(i, hwid) \in [Slot -> ChallengeSlot]
        BY DEF WithGuid, TypeOK, ChallengeSlot
      <3>2. OriginalDirectConnect(WithGuid(i, hwid), from, i, c, q)
        BY <1>4, <2>2 DEF ConnectRemote
      <3>3. QED BY <1>0, <3>1, <3>2, OriginalType
    <2>3. QED BY <2>1, <2>2
  <1>5. QED BY <1>1, <1>2, <1>3, <1>4 DEF SV_DirectConnect

LEMMA DropType ==
    ASSUME TypeOK, NEW k \in Seat, NEW final \in {"zombie", "free"},
           DropClient(k, final)
    PROVE  /\ clients' \in [Seat -> ClientSeat]
           /\ svs_challenges' \in [Slot -> ChallengeSlot]
  <1>1. clients' \in [Seat -> ClientSeat]
    BY DEF DropClient, TypeOK, ClientSeat
  <1>2. \A i \in Slot : /\ svs_challenges[i] \in ChallengeSlot
                        /\ [svs_challenges[i] EXCEPT !.connected = FALSE]
                             \in ChallengeSlot
    BY DEF TypeOK, ChallengeSlot
  <1>3. QED BY <1>1, <1>2 DEF DropClient

LEMMA SeatStepsType ==
    ASSUME TypeOK, NEW k \in Seat,
           \/ \E final \in {"zombie", "free"} : Leave(k, final)
           \/ ZombieEnds(k) \/ BanClient(k) \/ TempBanClient(k)
    PROVE  TypeOK'
  <1>0. clients[k].guid \in HWID \cup {0} BY DEF TypeOK, ClientSeat
  <1>1. ASSUME NEW final \in {"zombie", "free"}, Leave(k, final) PROVE TypeOK'
    BY <1>1, DropType DEF Leave, DropClient, TypeOK, bans, observed
  <1>2. CASE ZombieEnds(k)
    <2>1. clients' \in [Seat -> ClientSeat]
      BY <1>2 DEF ZombieEnds, TypeOK, ClientSeat
    <2>2. QED BY <1>2, <2>1 DEF ZombieEnds, TypeOK, bans, observed
  <1>3. CASE BanClient(k)
    <2>1. DropClient(k, "zombie") /\ permBanned' \subseteq HWID
      BY <1>0, <1>3 DEF BanClient, TypeOK
    <2>2. QED BY <1>3, <2>1, DropType DEF BanClient, DropClient, TypeOK, observed
  <1>4. CASE TempBanClient(k)
    <2>1. DropClient(k, "zombie") /\ tempBanned' \subseteq HWID
      BY <1>0, <1>4 DEF TempBanClient, TypeOK
    <2>2. QED BY <1>4, <2>1, DropType DEF TempBanClient, DropClient, TypeOK, observed
  <1>5. QED BY <1>1, <1>2, <1>3, <1>4

LEMMA NextType == TypeOK /\ [Next]_vars => TypeOK'
  <1> SUFFICES ASSUME TypeOK, [Next]_vars PROVE TypeOK'
    OBVIOUS
  <1>1. ASSUME NEW from \in Remote, SV_GetChallenge(from) PROVE TypeOK'
    BY <1>1, GetChallengeType
  <1>2. ASSUME NEW p \in asked, NEW answer \in Answer,
               SV_AuthorizeIpPacket(p[1], p[2], answer)
        PROVE  TypeOK'
    BY <1>2, AuthorizeType
  <1>3. ASSUME NEW from \in Addr, NEW v \in ClientVersions,
               NEW hwid \in HWID \cup {0}, NEW c \in Presented, NEW q \in QPort,
               SV_DirectConnect(from, v[1], v[2], hwid, c, q)
        PROVE  TypeOK'
    BY <1>3, ConnectType
  <1>4. ASSUME NEW k \in Seat,
               \/ \E final \in {"zombie", "free"} : Leave(k, final)
               \/ ZombieEnds(k) \/ BanClient(k) \/ TempBanClient(k)
        PROVE  TypeOK'
    BY <1>4, SeatStepsType
  <1>5. CASE (\E h \in HWID : TempBanEnds(h)) \/ unbanAll \/ Tick
    BY <1>5 DEF TempBanEnds, unbanAll, Tick, TypeOK, bans, observed
  <1>6. CASE UNCHANGED vars
    BY <1>6 DEF vars, TypeOK
  <1>7. CASE Restart
    BY <1>7, EmptySlotType, FreeSeatType DEF Restart, TypeOK, observed
  <1>8. QED BY <1>1, <1>2, <1>3, <1>4, <1>5, <1>6, <1>7 DEF Next

(* Every reachable state of the handshake is well formed: in particular,   *)
(* no slot and no packet ever names an address or a number nobody issued.  *)
THEOREM TypeCorrect == Spec => []TypeOK
  BY InitType, NextType, PTL DEF Spec

-----------------------------------------------------------------------------
(* The history invariant.  Who gets in depends on a number found in the    *)
(* table, and the table forgets: it is the agreement between table,        *)
(* packets and history, not any property of a single state's table, that   *)
(* the steps preserve.  Fresh numbers are assumed.                         *)

\* What a step does to the table when it issues no number.
SameOrCleared ==
    \A i \in Slot :
        \/ svs_challenges'[i] = EmptySlot
        \/ /\ svs_challenges'[i].adr = svs_challenges[i].adr
           /\ svs_challenges'[i].challenge = svs_challenges[i].challenge
           /\ svs_challenges'[i].firstTime = svs_challenges[i].firstTime

LEMMA SameSlots ==
    ASSUME svs_challenges' = svs_challenges
    PROVE  SameOrCleared
  BY DEF SameOrCleared

LEMMA ClearedSlot ==
    ASSUME TypeOK, NEW i \in Slot,
           svs_challenges' = [svs_challenges EXCEPT ![i] = EmptySlot]
    PROVE  SameOrCleared
  BY DEF SameOrCleared, TypeOK

LEMMA SameOrClearedHistory ==
    ASSUME HistoryInv, SameOrCleared, UNCHANGED <<issuedTo, issuedAt, denied>>
    PROVE  TableMatchesHistory'
  <1>1. ASSUME NEW i \in Slot PROVE SlotMatchesHistory(svs_challenges[i])'
    <2>1. SlotMatchesHistory(svs_challenges[i])
      BY DEF HistoryInv, TableMatchesHistory
    <2>2. CASE svs_challenges'[i] = EmptySlot
      BY <2>2 DEF SlotMatchesHistory, EmptySlot
    <2>3. CASE svs_challenges'[i] # EmptySlot
      BY <2>1, <2>3 DEF SameOrCleared, SlotMatchesHistory
    <2>4. QED BY <2>2, <2>3
  <1>2. ASSUME NEW i \in Slot, NEW j \in Slot, i # j,
               svs_challenges'[i].challenge = svs_challenges'[j].challenge
        PROVE  svs_challenges'[i].challenge = 0
    <2>1. CASE svs_challenges'[i] = EmptySlot \/ svs_challenges'[j] = EmptySlot
      BY <1>2, <2>1 DEF EmptySlot
    <2>2. CASE svs_challenges'[i] # EmptySlot /\ svs_challenges'[j] # EmptySlot
      BY <1>2, <2>2 DEF SameOrCleared, HistoryInv, TableMatchesHistory
    <2>3. QED BY <2>1, <2>2
  <1>3. QED BY <1>1, <1>2 DEF TableMatchesHistory

\* A step that issues nothing and processes no answer keeps the invariant.
LEMMA QuietStep ==
    ASSUME HistoryInv, SameOrCleared, UNCHANGED <<asked, observed>>
    PROVE  HistoryInv'
  BY SameOrClearedHistory DEF HistoryInv, PacketsMatchHistory, observed

\* The packets an answer to "getchallenge" adds are about its slot.
LEMMA AnswerChallengePackets ==
    ASSUME NEW slot, AnswerChallenge(slot)
    PROVE  /\ asked' \subseteq asked \cup {<<slot.challenge, slot.adr>>}
           /\ told' \subseteq told \cup {<<slot.challenge, slot.adr>>}
  BY DEF AnswerChallenge, LanAnswer, ResolveFails, AskOrTimeOut, TellChallenge,
         Silence, Send

LEMMA GetChallengeHistory ==
    ASSUME TypeOK, HistoryInv, ~RandRepeats, NEW from \in Remote,
           SV_GetChallenge(from)
    PROVE  HistoryInv'
  <1>0. UNCHANGED <<accepted, denied>> BY DEF SV_GetChallenge
  <1>1. ASSUME NEW i \in Slot, IsFirst(i, OpenSlots(from)),
               AnswerChallenge(svs_challenges[i]),
               UNCHANGED <<svs_challenges, issuedTo, issuedAt>>
        PROVE  HistoryInv'
    <2>1. TableMatchesHistory'
      BY <1>0, <1>1, SameSlots, SameOrClearedHistory
    <2>2. svs_challenges[i].adr \in Remote /\ svs_challenges[i].adr # NoAddr
      BY <1>1, ConstantsAssumption DEF IsFirst, OpenSlots, Remote
    <2>3. /\ svs_challenges[i].challenge # 0
          /\ issuedTo[svs_challenges[i].challenge] = svs_challenges[i].adr
      BY <2>2 DEF HistoryInv, TableMatchesHistory, SlotMatchesHistory
    <2>4. PacketsMatchHistory'
      BY <1>0, <1>1, <2>2, <2>3, AnswerChallengePackets
      DEF HistoryInv, PacketsMatchHistory
    <2>5. QED BY <2>1, <2>4 DEF HistoryInv
  <1>2. ASSUME NEW i \in Slot, NEW c \in NewNumbers,
               svs_challenges' =
                 [svs_challenges EXCEPT ![i] = NewChallenge(i, from, c)],
               issuedTo' = [issuedTo EXCEPT ![c] = from],
               issuedAt' = [issuedAt EXCEPT ![c] = svs_time],
               AnswerChallenge(NewChallenge(i, from, c))
        PROVE  HistoryInv'
    <2>1. c \in Number /\ c # 0 /\ issuedTo[c] = NoAddr /\ from # NoAddr
      BY ConstantsAssumption DEF NewNumbers, Remote
    <2>2. /\ NewChallenge(i, from, c).adr = from
          /\ NewChallenge(i, from, c).challenge = c
          /\ NewChallenge(i, from, c).firstTime = svs_time
      BY <2>1, NewChallengeType
    <2>3. /\ issuedTo'[c] = from /\ issuedAt'[c] = svs_time
          /\ \A d \in Number \cup {0} : d # c => /\ issuedTo'[d] = issuedTo[d]
                                                 /\ issuedAt'[d] = issuedAt[d]
      BY <1>2, <2>1 DEF TypeOK
    <2>4. c \notin accepted \cup denied
      BY <2>1 DEF HistoryInv, PacketsMatchHistory
    <2>5. ASSUME NEW j \in Slot, j # i
          PROVE  /\ svs_challenges'[j] = svs_challenges[j]
                 /\ svs_challenges[j].challenge \in Number \cup {0}
                 /\ svs_challenges[j].challenge # c
      <3>1. svs_challenges'[j] = svs_challenges[j] BY <1>2, <2>5 DEF TypeOK
      <3>2. svs_challenges[j].challenge \in Number \cup {0}
        BY DEF TypeOK, ChallengeSlot
      <3>3. svs_challenges[j].challenge # c
        BY <2>1, ConstantsAssumption
        DEF HistoryInv, TableMatchesHistory, SlotMatchesHistory, Remote
      <3>4. QED BY <3>1, <3>2, <3>3
    <2>6. svs_challenges'[i] = NewChallenge(i, from, c) BY <1>2 DEF TypeOK
    <2>7. ASSUME NEW j \in Slot PROVE SlotMatchesHistory(svs_challenges[j])'
      <3>1. CASE j = i
        BY <1>0, <2>1, <2>2, <2>3, <2>4, <2>6, <3>1 DEF SlotMatchesHistory
      <3>2. CASE j # i
        BY <1>0, <2>3, <2>5, <3>2
        DEF SlotMatchesHistory, HistoryInv, TableMatchesHistory
      <3>3. QED BY <3>1, <3>2
    <2>8. TableMatchesHistory'
      BY <2>2, <2>5, <2>6, <2>7 DEF TableMatchesHistory, HistoryInv
    <2>9. PacketsMatchHistory'
      <3>1. ASSUME NEW p \in asked' \cup told'
            PROVE  p[1] # 0 /\ p[2] \in Remote /\ issuedTo'[p[1]] = p[2]
        <4>1. CASE p = <<c, from>> BY <2>1, <2>3, <4>1
        <4>2. CASE p \in asked \cup told
          <5>1. /\ p[1] # 0 /\ p[2] \in Remote /\ issuedTo[p[1]] = p[2]
                /\ p[1] \in Number \cup {0}
            BY <4>2 DEF HistoryInv, PacketsMatchHistory, TypeOK
          <5>2. p[1] # c BY <2>1, <5>1, ConstantsAssumption DEF Remote
          <5>3. QED BY <2>3, <5>1, <5>2
        <4>3. QED BY <1>2, <2>2, <3>1, <4>1, <4>2, AnswerChallengePackets
      <3>2. ASSUME NEW d \in accepted' \cup denied' PROVE issuedTo'[d] # NoAddr
        BY <1>0, <2>1, <2>3 DEF HistoryInv, PacketsMatchHistory, TypeOK
      <3>3. QED BY <3>1, <3>2 DEF PacketsMatchHistory
    <2>10. QED BY <2>8, <2>9 DEF HistoryInv
  <1>3. QED BY <1>1, <1>2 DEF SV_GetChallenge

LEMMA AuthorizeHistory ==
    ASSUME TypeOK, HistoryInv, NEW p \in asked, NEW answer \in Answer,
           SV_AuthorizeIpPacket(p[1], p[2], answer)
    PROVE  HistoryInv' /\ reply'.to = p[2]
  <1>0. /\ UNCHANGED <<asked, issuedTo, issuedAt>>
        /\ p[1] # 0 /\ p[2] \in Remote /\ issuedTo[p[1]] = p[2]
    BY DEF SV_AuthorizeIpPacket, HistoryInv, PacketsMatchHistory
  <1>1. PICK i \in Slot : /\ svs_challenges[i].challenge = p[1]
                          /\ IF Accepts(answer) THEN AuthAccept(i)
                                                ELSE AuthRefuse(i, answer)
    BY DEF SV_AuthorizeIpPacket, IsFirst
  <1>2. svs_challenges[i].adr = p[2] /\ issuedTo[p[1]] # NoAddr
    BY <1>0, <1>1, ConstantsAssumption
    DEF HistoryInv, TableMatchesHistory, SlotMatchesHistory, Remote
  <1>3. CASE AuthAccept(i)
    <2>1. UNCHANGED <<svs_challenges, denied>> /\ accepted' = accepted \cup {p[1]}
      BY <1>1, <1>3 DEF AuthAccept
    <2>2. told' \subseteq told \cup {p}
      <3>1. p = <<p[1], p[2]>> BY DEF TypeOK
      <3>2. QED BY <1>1, <1>2, <1>3, <3>1 DEF AuthAccept, TellChallenge
    <2>3. TableMatchesHistory' BY <1>0, <2>1, SameSlots, SameOrClearedHistory
    <2>4. PacketsMatchHistory'
      BY <1>0, <1>2, <2>1, <2>2 DEF HistoryInv, PacketsMatchHistory
    <2>5. reply'.to = p[2]
      BY <1>2, <1>3 DEF AuthAccept, TellChallenge, Silence, Send
    <2>6. QED BY <2>3, <2>4, <2>5 DEF HistoryInv
  <1>4. CASE AuthRefuse(i, answer)
    <2>1. /\ svs_challenges' = [svs_challenges EXCEPT ![i] = EmptySlot]
          /\ denied' = denied \cup {p[1]}
          /\ UNCHANGED <<told, accepted>>
          /\ reply'.to = p[2]
      BY <1>1, <1>2, <1>4 DEF AuthRefuse, Send
    <2>2. svs_challenges'[i] = EmptySlot
      BY <2>1 DEF TypeOK
    <2>3. ASSUME NEW j \in Slot, j # i
          PROVE  /\ svs_challenges'[j] = svs_challenges[j]
                 /\ svs_challenges[j].challenge # p[1]
      BY <1>0, <1>1, <2>1, <2>3 DEF HistoryInv, TableMatchesHistory, TypeOK
    <2>4. ASSUME NEW j \in Slot PROVE SlotMatchesHistory(svs_challenges[j])'
      <3>1. CASE j = i
        BY <2>2, <3>1 DEF SlotMatchesHistory, EmptySlot
      <3>2. CASE j # i
        BY <1>0, <2>1, <2>3, <3>2
        DEF SlotMatchesHistory, HistoryInv, TableMatchesHistory
      <3>3. QED BY <3>1, <3>2
    <2>5. TableMatchesHistory'
      BY <2>2, <2>3, <2>4 DEF TableMatchesHistory, HistoryInv, EmptySlot
    <2>6. PacketsMatchHistory'
      BY <1>0, <1>2, <2>1 DEF HistoryInv, PacketsMatchHistory
    <2>7. QED BY <2>1, <2>5, <2>6 DEF HistoryInv
  <1>5. QED BY <1>1, <1>3, <1>4

\* The original handler only marks a slot as connected.
LEMMA OriginalTable ==
    ASSUME TypeOK, NEW tbl \in [Slot -> ChallengeSlot], NEW from \in Addr,
           NEW i \in Slot, NEW c, NEW q,
           OriginalDirectConnect(tbl, from, i, c, q),
           \A j \in Slot : /\ tbl[j].adr = svs_challenges[j].adr
                           /\ tbl[j].challenge = svs_challenges[j].challenge
                           /\ tbl[j].firstTime = svs_challenges[j].firstTime
    PROVE  SameOrCleared
  <1>1. svs_challenges' = tbl \/ svs_challenges' = [tbl EXCEPT ![i].connected = TRUE]
    BY DEF OriginalDirectConnect
  <1>2. CASE svs_challenges' = tbl
    BY <1>2 DEF SameOrCleared
  <1>3. CASE svs_challenges' = [tbl EXCEPT ![i].connected = TRUE]
    BY <1>3 DEF SameOrCleared, ChallengeSlot
  <1>4. QED BY <1>1, <1>2, <1>3

LEMMA ConnectTable ==
    ASSUME TypeOK, NEW from \in Addr, NEW protocol, NEW protocol_cod2x,
           NEW hwid \in HWID \cup {0}, NEW c \in Presented, NEW q \in QPort,
           SV_DirectConnect(from, protocol, protocol_cod2x, hwid, c, q)
    PROVE  SameOrCleared
  <1>1. CASE RefuseUnwelcome(from) \/ IgnoreUnknown(from)
    BY <1>1, SameSlots DEF RefuseUnwelcome, IgnoreUnknown
  <1>2. CASE ConnectLocal(from, hwid, c, q)
    <2>1. CASE Banned(hwid)
      BY <1>2, <2>1, SameSlots, ClearedSlot DEF ConnectLocal
    <2>2. CASE ~Banned(hwid)
      <3>1. 0 \in Slot BY ConstantsAssumption DEF Slot
      <3>2. svs_challenges \in [Slot -> ChallengeSlot] BY DEF TypeOK
      <3>3. OriginalDirectConnect(svs_challenges, from, 0, c, q)
        BY <1>2, <2>2 DEF ConnectLocal
      <3>4. QED BY <3>1, <3>2, <3>3, OriginalTable
    <2>3. QED BY <2>1, <2>2
  <1>3. ASSUME NEW i \in Slot, ConnectRemote(from, i, hwid, c, q)
        PROVE  SameOrCleared
    <2>1. CASE Banned(hwid)
      BY <1>3, <2>1, ClearedSlot DEF ConnectRemote
    <2>2. CASE ~Banned(hwid)
      <3>1. /\ WithGuid(i, hwid) \in [Slot -> ChallengeSlot]
            /\ \A j \in Slot :
                 /\ WithGuid(i, hwid)[j].adr = svs_challenges[j].adr
                 /\ WithGuid(i, hwid)[j].challenge = svs_challenges[j].challenge
                 /\ WithGuid(i, hwid)[j].firstTime = svs_challenges[j].firstTime
        BY DEF WithGuid, TypeOK, ChallengeSlot
      <3>2. OriginalDirectConnect(WithGuid(i, hwid), from, i, c, q)
        BY <1>3, <2>2 DEF ConnectRemote
      <3>3. QED BY <3>1, <3>2, OriginalTable
    <2>3. QED BY <2>1, <2>2
  <1>4. QED BY <1>1, <1>2, <1>3 DEF SV_DirectConnect

LEMMA DropTable ==
    ASSUME TypeOK, NEW k \in Seat, NEW final, DropClient(k, final)
    PROVE  SameOrCleared
  <1>1. \A i \in Slot :
          LET s == [svs_challenges[i] EXCEPT !.connected = FALSE]
          IN  /\ s.adr = svs_challenges[i].adr
              /\ s.challenge = svs_challenges[i].challenge
              /\ s.firstTime = svs_challenges[i].firstTime
    BY DEF TypeOK, ChallengeSlot
  <1>2. QED BY <1>1 DEF DropClient, SameOrCleared

LEMMA InitHistory == Init => HistoryInv
  BY DEF Init, HistoryInv, TableMatchesHistory, SlotMatchesHistory,
         PacketsMatchHistory, EmptySlot

LEMMA NextHistory ==
    ASSUME TypeOK, HistoryInv, ~RandRepeats, [Next]_vars
    PROVE  HistoryInv'
  <1>1. ASSUME NEW from \in Remote, SV_GetChallenge(from) PROVE HistoryInv'
    BY <1>1, GetChallengeHistory
  <1>2. ASSUME NEW p \in asked, NEW answer \in Answer,
               SV_AuthorizeIpPacket(p[1], p[2], answer)
        PROVE  HistoryInv'
    BY <1>2, AuthorizeHistory
  <1>3. ASSUME NEW from \in Addr, NEW v \in ClientVersions,
               NEW hwid \in HWID \cup {0}, NEW c \in Presented, NEW q \in QPort,
               SV_DirectConnect(from, v[1], v[2], hwid, c, q)
        PROVE  HistoryInv'
    <2>1. UNCHANGED <<asked, observed>> BY <1>3 DEF SV_DirectConnect
    <2>2. SameOrCleared BY <1>3, ConnectTable
    <2>3. QED BY <2>1, <2>2, QuietStep
  <1>4. ASSUME NEW k \in Seat,
               \/ \E final \in {"zombie", "free"} : Leave(k, final)
               \/ BanClient(k) \/ TempBanClient(k)
        PROVE  HistoryInv'
    <2>1. \E final : DropClient(k, final)
      BY <1>4 DEF Leave, BanClient, TempBanClient
    <2>2. UNCHANGED <<asked, observed>> BY <2>1 DEF DropClient
    <2>3. QED BY <2>1, <2>2, DropTable, QuietStep
  <1>5. CASE \/ \E k \in Seat : ZombieEnds(k)
             \/ \E h \in HWID : TempBanEnds(h)
             \/ unbanAll \/ Tick
    <2>1. UNCHANGED <<svs_challenges, asked, observed>>
      BY <1>5 DEF ZombieEnds, TempBanEnds, unbanAll, Tick
    <2>2. QED BY <2>1, SameSlots, QuietStep
  <1>6. CASE UNCHANGED vars
    <2>1. UNCHANGED <<svs_challenges, asked, observed>>
      BY <1>6 DEF vars, observed
    <2>2. QED BY <2>1, SameSlots, QuietStep
  <1>7. CASE Restart
    <2>1. SameOrCleared /\ UNCHANGED <<asked, observed>>
      BY <1>7 DEF Restart, SameOrCleared
    <2>2. QED BY <2>1, QuietStep
  <1>8. QED BY <1>1, <1>2, <1>3, <1>4, <1>5, <1>6, <1>7 DEF Next

(* When rand() never repeats, the challenge table and the packets under    *)
(* way always agree with the history of the numbers: no late, repeated or  *)
(* reordered packet, dropped client or recycled slot mixes two addresses   *)
(* up or revives a refused number.                                         *)
THEOREM HistoryCorrect == ~RandRepeats /\ Spec => []HistoryInv
  <1> SUFFICES ASSUME ~RandRepeats PROVE Spec => []HistoryInv
    OBVIOUS
  <1>1. TypeOK /\ HistoryInv /\ [Next]_vars => HistoryInv'
    BY NextHistory
  <1>2. QED BY <1>1, InitHistory, TypeCorrect, PTL DEF Spec

-----------------------------------------------------------------------------
(* Admissions.                                                             *)

LEMMA TakeSeatAdmits ==
    ASSUME TypeOK, NEW k \in Seat, NEW from, NEW c, NEW q, NEW guid,
           TakeSeat(from, c, q, guid), clients'[k] # clients[k]
    PROVE  /\ clients'[k].adr = from
           /\ clients'[k].challenge = c
           /\ clients'[k].guid = guid
  <1>1. \/ clients'[k] = Connected(NewClient(from, q, c, guid))
        \/ clients'[k] = NewClient(from, q, c, guid)
    BY DEF TakeSeat, TypeOK
  <1>2. QED BY <1>1 DEF Connected, NewClient, FreeSeat

LEMMA RemoteConnectAdmits ==
    ASSUME TypeOK, NEW k \in Seat, NEW from \in Remote, NEW i \in Slot, NEW c,
           NEW q, NEW hwid \in HWID, ConnectRemote(from, i, hwid, c, q),
           clients'[k] # clients[k]
    PROVE  /\ ~Banned(hwid)
           /\ clients'[k].adr = from
           /\ clients'[k].challenge = c
           /\ clients'[k].guid = hwid
  <1>1. ~Banned(hwid) BY DEF ConnectRemote
  <1>2. OriginalDirectConnect(WithGuid(i, hwid), from, i, c, q)
    BY <1>1 DEF ConnectRemote
  <1>3. WithGuid(i, hwid)[i].guid = hwid
    BY DEF WithGuid, TypeOK, ChallengeSlot
  <1>4. TakeSeat(from, c, q, hwid)
    BY <1>2, <1>3 DEF OriginalDirectConnect, Remote
  <1>5. QED BY <1>1, <1>4, TakeSeatAdmits

LEMMA LocalConnectAdmits ==
    ASSUME TypeOK, NEW k \in Seat, NEW from \in Local, NEW c, NEW q, NEW hwid,
           ConnectLocal(from, hwid, c, q), clients'[k] # clients[k]
    PROVE  clients'[k].adr = from
  <1>1. ~Banned(hwid) BY DEF ConnectLocal
  <1>2. TakeSeat(from, c, q, 0)
    BY <1>1 DEF ConnectLocal, OriginalDirectConnect
  <1>3. QED BY <1>2, TakeSeatAdmits

\* Only a "connect" admits a remote client: one whose address and number
\* stand together in the table and whose own hardware id is not banned.
LEMMA AdmissionByConnect ==
    ASSUME TypeOK, [Next]_vars, NEW k \in Seat, Admits(k)
    PROVE  /\ \E i \in Slot : /\ svs_challenges[i].adr = clients'[k].adr
                              /\ svs_challenges[i].challenge = clients'[k].challenge
           /\ clients'[k].challenge \in Presented
           /\ clients'[k].guid \in HWID
           /\ ~Banned(clients'[k].guid)
  <1> DEFINE Goal == /\ \E i \in Slot :
                          /\ svs_challenges[i].adr = clients'[k].adr
                          /\ svs_challenges[i].challenge = clients'[k].challenge
                     /\ clients'[k].challenge \in Presented
                     /\ clients'[k].guid \in HWID
                     /\ ~Banned(clients'[k].guid)
  <1>0. /\ clients'[k] # clients[k]
        /\ clients'[k].state = "connected"
        /\ clients'[k].adr \in Remote
    BY DEF Admits
  <1>1. ASSUME NEW from \in Addr, NEW v \in ClientVersions,
               NEW hwid \in HWID \cup {0}, NEW c \in Presented, NEW q \in QPort,
               SV_DirectConnect(from, v[1], v[2], hwid, c, q)
        PROVE  Goal
    <2>1. CASE RefuseUnwelcome(from) \/ IgnoreUnknown(from)
      BY <1>0, <2>1 DEF RefuseUnwelcome, IgnoreUnknown
    <2>2. CASE from \in Local /\ ConnectLocal(from, hwid, c, q)
      BY <1>0, <2>2, LocalConnectAdmits DEF Remote
    <2>3. ASSUME from \in Remote, Welcome(v[1], v[2], hwid), NEW i \in Slot,
                 i \in SlotsOf(from, c), ConnectRemote(from, i, hwid, c, q)
          PROVE  Goal
      <3>1. hwid \in HWID BY <2>3 DEF Welcome
      <3>2. svs_challenges[i].adr = from /\ svs_challenges[i].challenge = c
        BY <2>3 DEF SlotsOf
      <3>3. /\ ~Banned(hwid)
            /\ clients'[k].adr = from
            /\ clients'[k].challenge = c
            /\ clients'[k].guid = hwid
        BY <1>0, <2>3, <3>1, RemoteConnectAdmits
      <3>4. QED BY <3>1, <3>2, <3>3
    <2>4. QED
      BY <1>1, <2>1, <2>2, <2>3 DEF SV_DirectConnect, IsFirst, Remote
  <1>2. ASSUME NEW j \in Seat, NEW final \in {"zombie", "free"},
               clients' = [clients EXCEPT ![j].state = final]
        PROVE  FALSE
    BY <1>0, <1>2 DEF TypeOK, ClientSeat
  <1>3. ASSUME NEW j \in Seat,
               \/ \E final \in {"zombie", "free"} : Leave(j, final)
               \/ ZombieEnds(j) \/ BanClient(j) \/ TempBanClient(j)
        PROVE  FALSE
    BY <1>2, <1>3 DEF Leave, ZombieEnds, BanClient, TempBanClient, DropClient
  <1>4. ASSUME \/ \E from \in Remote : SV_GetChallenge(from)
               \/ \E p \in asked, answer \in Answer :
                     SV_AuthorizeIpPacket(p[1], p[2], answer)
               \/ \E h \in HWID : TempBanEnds(h)
               \/ unbanAll \/ Tick \/ UNCHANGED vars
        PROVE  FALSE
    BY <1>0, <1>4
    DEF SV_GetChallenge, SV_AuthorizeIpPacket, TempBanEnds, unbanAll, Tick, vars
  <1>5. ASSUME Restart PROVE FALSE
    BY <1>0, <1>5 DEF Restart, FreeSeat
  <1>6. QED BY <1>1, <1>3, <1>4, <1>5 DEF Next

LEMMA ToldGrows == [Next]_vars => told \subseteq told'
  <1> SUFFICES ASSUME [Next]_vars PROVE told \subseteq told'
    OBVIOUS
  <1>1. ASSUME NEW slot, AnswerChallenge(slot) PROVE told \subseteq told'
    BY <1>1 DEF AnswerChallenge, LanAnswer, ResolveFails, AskOrTimeOut, TellChallenge
  <1>2. ASSUME NEW from \in Remote, SV_GetChallenge(from) PROVE told \subseteq told'
    BY <1>1, <1>2 DEF SV_GetChallenge
  <1>3. ASSUME NEW c, NEW a, NEW answer, SV_AuthorizeIpPacket(c, a, answer)
        PROVE  told \subseteq told'
    BY <1>3 DEF SV_AuthorizeIpPacket, AuthAccept, AuthRefuse, TellChallenge
  <1>4. QED
    BY <1>2, <1>3
    DEF Next, SV_DirectConnect, Leave, DropClient, ZombieEnds, BanClient,
        TempBanClient, TempBanEnds, unbanAll, Tick, Restart, vars, observed

\* What the table and the history say about an admission.
LEMMA AdmissionWasTold ==
    ASSUME TypeOK, HistoryInv, [Next]_vars, NEW k \in Seat, Admits(k)
    PROVE  /\ <<clients'[k].challenge, clients'[k].adr>> \in told
           /\ clients'[k].challenge \notin denied
  <1>1. clients'[k].adr \in Remote /\ clients'[k].adr # NoAddr
    BY ConstantsAssumption DEF Admits, Remote
  <1>2. PICK i \in Slot : /\ svs_challenges[i].adr = clients'[k].adr
                          /\ svs_challenges[i].challenge = clients'[k].challenge
    BY AdmissionByConnect
  <1>3. SlotMatchesHistory(svs_challenges[i])
    BY DEF HistoryInv, TableMatchesHistory
  <1>4. /\ clients'[k].challenge # 0
        /\ clients'[k].challenge \notin denied
        /\ issuedTo[clients'[k].challenge] = clients'[k].adr
    BY <1>1, <1>2, <1>3 DEF SlotMatchesHistory
  <1>5. PICK p \in told : p[1] = clients'[k].challenge
    BY <1>4, AdmissionByConnect DEF Presented
  <1>6. p[2] = clients'[k].adr
    BY <1>4, <1>5 DEF HistoryInv, PacketsMatchHistory
  <1>7. p = <<p[1], p[2]>> BY DEF TypeOK
  <1>8. QED BY <1>4, <1>5, <1>6, <1>7

(* However many clients, slots and numbers there are, every remote player  *)
(* holds a number the server sent to exactly the player's address.         *)
THEOREM PlayersTold == ~RandRepeats /\ Spec => []PlayersWereTold
  <1> SUFFICES ASSUME ~RandRepeats PROVE Spec => []PlayersWereTold
    OBVIOUS
  <1>1. Init => PlayersWereTold
    BY DEF Init, PlayersWereTold, Players, FreeSeat
  <1>2. ASSUME TypeOK, HistoryInv, PlayersWereTold, [Next]_vars
        PROVE  PlayersWereTold'
    <2>1. SUFFICES ASSUME NEW k \in Seat, clients'[k].state = "connected",
                          clients'[k].adr \in Remote
                   PROVE  <<clients'[k].challenge, clients'[k].adr>> \in told'
      BY DEF PlayersWereTold, Players
    <2>2. CASE clients'[k] = clients[k]
      BY <1>2, <2>1, <2>2, ToldGrows DEF PlayersWereTold, Players
    <2>3. CASE clients'[k] # clients[k]
      BY <1>2, <2>1, <2>3, AdmissionWasTold, ToldGrows DEF Admits
    <2>4. QED BY <2>2, <2>3
  <1>3. QED BY <1>1, <1>2, TypeCorrect, HistoryCorrect, PTL DEF Spec

(* A refusal is final: no packet that arrives after it was processed lets  *)
(* anybody in with the refused number.                                     *)
THEOREM RefusalIsFinal == ~RandRepeats /\ Spec => NoAdmissionAfterRefusal
  <1> SUFFICES ASSUME ~RandRepeats PROVE Spec => NoAdmissionAfterRefusal
    OBVIOUS
  <1>1. ASSUME TypeOK, HistoryInv, [Next]_vars
        PROVE  [\A k \in Seat : Admits(k) => clients'[k].challenge \notin denied]_vars
    BY <1>1, AdmissionWasTold
  <1>2. QED
    BY <1>1, TypeCorrect, HistoryCorrect, PTL DEF Spec, NoAdmissionAfterRefusal

(* The authorization server's answer is passed on to the client it is      *)
(* about.                                                                  *)
THEOREM AnswersReachClients == ~RandRepeats /\ Spec => AnswerReachesItsClient
  <1> SUFFICES ASSUME ~RandRepeats PROVE Spec => AnswerReachesItsClient
    OBVIOUS
  <1>1. ASSUME TypeOK, HistoryInv, [Next]_vars
        PROVE  [\A p \in asked, answer \in Answer :
                  SV_AuthorizeIpPacket(p[1], p[2], answer) => reply'.to = p[2]]_vars
    BY <1>1, AuthorizeHistory
  <1>2. QED
    BY <1>1, TypeCorrect, HistoryCorrect, PTL DEF Spec, AnswerReachesItsClient

(* Whatever rand() yields, a player is admitted only under a hardware id   *)
(* that is neither 0 nor banned at that moment.                            *)
THEOREM AdmissionsUnbanned == Spec => AdmittedUnderUnbannedId
  <1>1. ASSUME TypeOK, [Next]_vars
        PROVE  [\A k \in Seat : Admits(k) => /\ clients'[k].guid \in HWID
                                             /\ ~Banned(clients'[k].guid)]_vars
    BY <1>1, AdmissionByConnect
  <1>2. QED BY <1>1, TypeCorrect, PTL DEF Spec, AdmittedUnderUnbannedId

-----------------------------------------------------------------------------
(* Why a number is told.                                                   *)

\* The reason, as the property states it for a number told in a step.
NewlyReasoned(p) ==
    \/ p[2] \in Lan /\ ~net_lanauthorize
    \/ p[1] \in accepted'
    \/ svs_time - issuedAt'[p[1]] > AuthTimeout

\* The answer to "getchallenge" tells the number of the slot with a reason.
LEMMA AnswerChallengeReason ==
    ASSUME NEW slot, AnswerChallenge(slot),
           issuedAt'[slot.challenge] = slot.firstTime,
           NEW p \in told' \ told
    PROVE  NewlyReasoned(p)
  <1>1. p = <<slot.challenge, slot.adr>>
    BY AnswerChallengePackets
  <1>2. \/ slot.adr \in Lan /\ ~net_lanauthorize
        \/ svs_time - slot.firstTime > AuthTimeout
    BY DEF AnswerChallenge, LanAnswer, ResolveFails, AskOrTimeOut
  <1>3. QED BY <1>1, <1>2 DEF NewlyReasoned

LEMMA NewlyToldReasoned ==
    ASSUME TypeOK, HistoryInv, ~RandRepeats, [Next]_vars, NEW p \in told' \ told
    PROVE  NewlyReasoned(p)
  <1>1. ASSUME NEW from \in Remote, SV_GetChallenge(from) PROVE NewlyReasoned(p)
    <2>1. ASSUME NEW i \in Slot, IsFirst(i, OpenSlots(from)),
                 AnswerChallenge(svs_challenges[i]), UNCHANGED issuedAt
          PROVE  NewlyReasoned(p)
      <3>1. svs_challenges[i].adr # NoAddr
        BY <2>1, ConstantsAssumption DEF IsFirst, OpenSlots, Remote
      <3>2. issuedAt[svs_challenges[i].challenge] = svs_challenges[i].firstTime
        BY <3>1 DEF HistoryInv, TableMatchesHistory, SlotMatchesHistory
      <3>3. QED BY <2>1, <3>2, AnswerChallengeReason
    <2>2. ASSUME NEW i \in Slot, NEW c \in NewNumbers,
                 issuedAt' = [issuedAt EXCEPT ![c] = svs_time],
                 AnswerChallenge(NewChallenge(i, from, c))
          PROVE  NewlyReasoned(p)
      <3>1. c \in Number
        BY DEF NewNumbers
      <3>2. /\ NewChallenge(i, from, c).challenge = c
            /\ NewChallenge(i, from, c).firstTime = svs_time
        BY <3>1, NewChallengeType
      <3>3. issuedAt'[c] = svs_time BY <2>2, <3>1 DEF TypeOK
      <3>4. QED BY <2>2, <3>2, <3>3, AnswerChallengeReason
    <2>3. QED BY <1>1, <2>1, <2>2 DEF SV_GetChallenge
  <1>2. ASSUME NEW c, NEW a, NEW answer, SV_AuthorizeIpPacket(c, a, answer)
        PROVE  NewlyReasoned(p)
    BY <1>2
    DEF SV_AuthorizeIpPacket, AuthAccept, AuthRefuse, TellChallenge, NewlyReasoned
  <1>3. ASSUME UNCHANGED told PROVE FALSE
    BY <1>3
  <1>4. QED
    BY <1>1, <1>2, <1>3
    DEF Next, SV_DirectConnect, Leave, DropClient, ZombieEnds, BanClient,
        TempBanClient, TempBanEnds, unbanAll, Tick, Restart, vars, observed

(* Nobody is told a number without a reason: LAN, accept or timeout.       *)
THEOREM ToldWithReason == ~RandRepeats /\ Spec => ToldForAReason
  <1> SUFFICES ASSUME ~RandRepeats PROVE Spec => ToldForAReason
    OBVIOUS
  <1>1. ASSUME TypeOK, HistoryInv, [Next]_vars
        PROVE  [\A p \in told' \ told :
                  \/ p[2] \in Lan /\ ~net_lanauthorize
                  \/ p[1] \in accepted'
                  \/ svs_time - issuedAt'[p[1]] > AuthTimeout]_vars
    BY <1>1, NewlyToldReasoned DEF NewlyReasoned
  <1>2. QED BY <1>1, TypeCorrect, HistoryCorrect, PTL DEF Spec, ToldForAReason

-----------------------------------------------------------------------------
(***************************************************************************)
(* The handshake implements AdmissionPolicy, for every value of the        *)
(* constants, when rand() never repeats: each step of the server is a step *)
(* of the policy or leaves what the policy sees alone.                     *)
(***************************************************************************)

\* What the policy sees.
Tickets == [c \in Number |-> TicketState(c)]
MadeFor == [c \in Number |-> issuedTo[c]]
SeatView == [k \in Seat |-> Player(k)]
BannedView == permBanned \cup tempBanned
PolicyView == <<MadeFor, Tickets, SeatView, BannedView>>

PolicyStep == Policy!PolicyNext \/ UNCHANGED PolicyView

-----------------------------------------------------------------------------
(* Tickets.                                                                *)

\* A step on numbers leaves seats and bans as they are.
LEMMA NumbersOnly ==
    ASSUME UNCHANGED <<clients, permBanned, tempBanned>>
    PROVE  UNCHANGED <<SeatView, BannedView>>
  BY DEF SeatView, Player, BannedView

LEMMA TicketsKept ==
    ASSUME UNCHANGED <<issuedTo, told, denied>>
    PROVE  UNCHANGED <<MadeFor, Tickets>>
  BY DEF MadeFor, Tickets, TicketState

LEMMA NothingSeen ==
    ASSUME UNCHANGED <<issuedTo, told, denied, clients, permBanned, tempBanned>>
    PROVE  PolicyStep
  BY NumbersOnly, TicketsKept DEF PolicyStep, PolicyView

\* Telling a number that is in the table: a Tell, or nothing new.
LEMMA TellingSlot ==
    ASSUME TypeOK, HistoryInv, NEW c \in Number, NEW a \in Remote,
           issuedTo[c] = a, c \notin denied,
           told' = told \/ told' = told \cup {<<c, a>>},
           UNCHANGED <<issuedTo, denied, clients, permBanned, tempBanned>>
    PROVE  PolicyStep
  <1>1. UNCHANGED <<MadeFor, SeatView, BannedView>>
    BY NumbersOnly DEF MadeFor
  <1>2. CASE told' = told
    BY <1>2, NothingSeen
  <1>3. CASE told' = told \cup {<<c, a>>} /\ \E p \in told : p[1] = c
    <2>1. ASSUME NEW d \in Number PROVE TicketState(d)' = TicketState(d)
      <3>1. CASE d = c
        BY <1>3, <3>1 DEF TicketState
      <3>2. CASE d # c
        BY <1>3, <3>2 DEF TicketState
      <3>3. QED BY <3>1, <3>2
    <2>2. QED BY <1>1, <2>1 DEF PolicyStep, PolicyView, Tickets
  <1>4. CASE told' = told \cup {<<c, a>>} /\ ~ \E p \in told : p[1] = c
    <2>1. a # NoAddr BY ConstantsAssumption DEF Remote
    <2>2. TicketState(c) = "held" /\ TicketState(c)' = "told"
      <3>1. <<c, a>> \in told' /\ <<c, a>>[1] = c BY <1>4
      <3>2. TicketState(c)' = "told" BY <3>1 DEF TicketState
      <3>3. QED BY <1>4, <2>1, <3>2 DEF TicketState
    <2>3. ASSUME NEW d \in Number, d # c PROVE TicketState(d)' = TicketState(d)
      BY <1>4, <2>3 DEF TicketState
    <2>4. Tickets' = [Tickets EXCEPT ![c] = "told"]
      BY <2>2, <2>3 DEF Tickets
    <2>5. Tickets[c] = "held" BY <2>2 DEF Tickets
    <2>6. Policy!Tell(c)
      BY <1>1, <2>4, <2>5
      DEF Policy!Tell, Tickets, MadeFor, SeatView, BannedView
    <2>7. QED BY <2>6 DEF PolicyStep, Policy!PolicyNext
  <1>5. QED BY <1>2, <1>3, <1>4

LEMMA GetChallengeStep ==
    ASSUME TypeOK, HistoryInv, ~RandRepeats, NEW from \in Remote,
           SV_GetChallenge(from)
    PROVE  PolicyStep
  <1>0. UNCHANGED <<clients, permBanned, tempBanned, accepted, denied>>
    BY DEF SV_GetChallenge, bans
  <1>1. ASSUME NEW i \in Slot, IsFirst(i, OpenSlots(from)),
               AnswerChallenge(svs_challenges[i]),
               UNCHANGED <<svs_challenges, issuedTo, issuedAt>>
        PROVE  PolicyStep
    <2> DEFINE c == svs_challenges[i].challenge
    <2>1. svs_challenges[i].adr = from /\ from # NoAddr
      BY <1>1, ConstantsAssumption DEF IsFirst, OpenSlots, Remote
    <2>2. c \in Number \cup {0} BY DEF TypeOK, ChallengeSlot
    <2>3. c \in Number /\ issuedTo[c] = from /\ c \notin denied
      BY <2>1, <2>2 DEF HistoryInv, TableMatchesHistory, SlotMatchesHistory
    <2>4. told' = told \/ told' = told \cup {<<c, from>>}
      BY <1>1, <2>1
      DEF AnswerChallenge, LanAnswer, ResolveFails, AskOrTimeOut, TellChallenge
    <2>5. QED BY <1>0, <1>1, <2>3, <2>4, TellingSlot
  <1>2. ASSUME NEW i \in Slot, NEW c \in NewNumbers,
               issuedTo' = [issuedTo EXCEPT ![c] = from],
               AnswerChallenge(NewChallenge(i, from, c))
        PROVE  PolicyStep
    <2>1. c \in Number /\ issuedTo[c] = NoAddr /\ from # NoAddr
      BY ConstantsAssumption DEF NewNumbers, Remote
    <2>2. /\ NewChallenge(i, from, c).adr = from
          /\ NewChallenge(i, from, c).challenge = c
      BY <2>1, NewChallengeType
    <2>3. told' = told \/ told' = told \cup {<<c, from>>}
      BY <1>2, <2>2
      DEF AnswerChallenge, LanAnswer, ResolveFails, AskOrTimeOut, TellChallenge
    <2>4. c \notin denied /\ ~ \E p \in told : p[1] = c
      BY <2>1, ConstantsAssumption DEF HistoryInv, PacketsMatchHistory, Remote
    <2>5. issuedTo'[c] = from /\ \A d \in Number : d # c => issuedTo'[d] = issuedTo[d]
      BY <1>2, <2>1 DEF TypeOK
    <2>6. TicketState(c) = "unused" /\ TicketState(c)' \in {"held", "told"}
      BY <1>0, <2>1, <2>3, <2>4, <2>5 DEF TicketState
    <2>7. ASSUME NEW d \in Number, d # c PROVE TicketState(d)' = TicketState(d)
      BY <1>0, <2>3, <2>5, <2>7 DEF TicketState
    <2>8. PICK s \in {"held", "told"} : Tickets' = [Tickets EXCEPT ![c] = s]
      <3>1. Tickets' = [Tickets EXCEPT ![c] = TicketState(c)']
        BY <2>7 DEF Tickets
      <3>2. QED BY <2>6, <3>1
    <2>9. MadeFor' = [MadeFor EXCEPT ![c] = from]
      BY <2>5 DEF MadeFor
    <2>10. Policy!Issue(c, from)
      BY <1>0, <2>1, <2>6, <2>8, <2>9, NumbersOnly
      DEF Policy!Issue, Tickets, MadeFor, SeatView, BannedView
    <2>11. QED BY <2>1, <2>10 DEF PolicyStep, Policy!PolicyNext
  <1>3. QED BY <1>1, <1>2 DEF SV_GetChallenge

LEMMA AuthorizeStep ==
    ASSUME TypeOK, HistoryInv, NEW p \in asked, NEW answer \in Answer,
           SV_AuthorizeIpPacket(p[1], p[2], answer)
    PROVE  PolicyStep
  <1>0. /\ UNCHANGED <<clients, permBanned, tempBanned, issuedTo>>
        /\ p[1] \in Number /\ p[2] \in Remote /\ issuedTo[p[1]] = p[2]
        /\ p[2] # NoAddr
    BY ConstantsAssumption
    DEF SV_AuthorizeIpPacket, HistoryInv, PacketsMatchHistory, TypeOK, bans, Remote
  <1>1. PICK i \in Slot : /\ svs_challenges[i].challenge = p[1]
                          /\ IF Accepts(answer) THEN AuthAccept(i)
                                                ELSE AuthRefuse(i, answer)
    BY DEF SV_AuthorizeIpPacket, IsFirst
  <1>2. svs_challenges[i].adr = p[2] /\ p[1] \notin denied
    BY <1>0, <1>1, ConstantsAssumption
    DEF HistoryInv, TableMatchesHistory, SlotMatchesHistory
  <1>3. CASE AuthAccept(i)
    <2>1. told' = told \/ told' = told \cup {<<p[1], p[2]>>}
      BY <1>1, <1>2, <1>3 DEF AuthAccept, TellChallenge
    <2>2. UNCHANGED denied BY <1>3 DEF AuthAccept
    <2>3. QED BY <1>0, <1>2, <2>1, <2>2, TellingSlot
  <1>4. CASE AuthRefuse(i, answer)
    <2>1. denied' = denied \cup {p[1]} /\ UNCHANGED told
      BY <1>1, <1>4 DEF AuthRefuse
    <2>2. TicketState(p[1]) # "unused" /\ TicketState(p[1])' = "void"
      BY <1>0, <2>1 DEF TicketState
    <2>3. ASSUME NEW d \in Number, d # p[1] PROVE TicketState(d)' = TicketState(d)
      BY <1>0, <2>1, <2>3 DEF TicketState
    <2>4. Tickets' = [Tickets EXCEPT ![p[1]] = "void"]
      BY <2>2, <2>3 DEF Tickets
    <2>5. UNCHANGED MadeFor BY <1>0 DEF MadeFor
    <2>6. Policy!Refuse(p[1])
      BY <1>0, <2>2, <2>4, <2>5, NumbersOnly
      DEF Policy!Refuse, Tickets, MadeFor, SeatView, BannedView
    <2>7. QED BY <1>0, <2>6 DEF PolicyStep, Policy!PolicyNext
  <1>5. QED BY <1>1, <1>3, <1>4

-----------------------------------------------------------------------------
(* Seats.                                                                  *)

\* A step on one seat leaves the tickets as they are.
LEMMA SeatOnly ==
    ASSUME TypeOK, NEW k \in Seat, UNCHANGED <<issuedTo, told, denied>>,
           \A j \in Seat : j # k => clients'[j] = clients[j]
    PROVE  /\ UNCHANGED <<MadeFor, Tickets>>
           /\ SeatView' = [SeatView EXCEPT ![k] = Player(k)']
  BY TicketsKept DEF SeatView, Player

LEMMA TakeSeatChanges ==
    ASSUME TypeOK, NEW from, NEW c, NEW q, NEW guid, TakeSeat(from, c, q, guid)
    PROVE  \/ UNCHANGED clients
           \/ \E k \in Seat :
                /\ \A j \in Seat : j # k => clients'[j] = clients[j]
                /\ Player(k)' \in {<<>>, <<from, c, guid>>}
  <1>1. CASE UNCHANGED clients
    BY <1>1
  <1>2. ASSUME NEW k \in Seat,
               clients' = [clients EXCEPT ![k] = Connected(NewClient(from, q, c, guid))]
        PROVE  /\ \A j \in Seat : j # k => clients'[j] = clients[j]
               /\ Player(k)' = <<from, c, guid>>
    <2>1. /\ clients'[k] = Connected(NewClient(from, q, c, guid))
          /\ \A j \in Seat : j # k => clients'[j] = clients[j]
      BY <1>2 DEF TypeOK
    <2>2. QED BY <2>1 DEF Player, Connected, NewClient, FreeSeat
  <1>3. ASSUME NEW k \in Seat,
               clients' = [clients EXCEPT ![k] = NewClient(from, q, c, guid)]
        PROVE  /\ \A j \in Seat : j # k => clients'[j] = clients[j]
               /\ Player(k)' = <<>>
    <2>1. /\ clients'[k] = NewClient(from, q, c, guid)
          /\ \A j \in Seat : j # k => clients'[j] = clients[j]
      BY <1>3 DEF TypeOK
    <2>2. QED BY <2>1 DEF Player, NewClient, FreeSeat
  <1>4. QED BY <1>1, <1>2, <1>3 DEF TakeSeat

LEMMA VacateStep ==
    ASSUME TypeOK, NEW k \in Seat,
           UNCHANGED <<issuedTo, told, denied, permBanned, tempBanned>>,
           \A j \in Seat : j # k => clients'[j] = clients[j],
           Player(k)' = <<>>
    PROVE  PolicyStep
  <1>1. UNCHANGED <<MadeFor, Tickets>> /\ SeatView' = [SeatView EXCEPT ![k] = <<>>]
    BY SeatOnly
  <1>2. Policy!Vacate(k)
    BY <1>1
    DEF Policy!Vacate, Policy!Nobody, MadeFor, Tickets, SeatView, BannedView
  <1>3. QED BY <1>2 DEF PolicyStep, Policy!PolicyNext

LEMMA RemoteStep ==
    ASSUME TypeOK, HistoryInv, NEW from \in Remote, NEW c \in Presented,
           NEW i \in SlotsOf(from, c), NEW hwid \in HWID, NEW q \in QPort,
           ConnectRemote(from, i, hwid, c, q),
           UNCHANGED <<issuedTo, told, denied, permBanned, tempBanned>>
    PROVE  PolicyStep
  <1>1. CASE UNCHANGED clients
    BY <1>1, NothingSeen
  <1>2. CASE clients' # clients
    <2>0. /\ i \in Slot /\ from # NoAddr
          /\ svs_challenges[i].adr = from /\ svs_challenges[i].challenge = c
      BY ConstantsAssumption DEF SlotsOf, Remote
    <2>1. /\ ~Banned(hwid)
          /\ OriginalDirectConnect(WithGuid(i, hwid), from, i, c, q)
      BY <1>2 DEF ConnectRemote
    <2>2. WithGuid(i, hwid)[i].guid = hwid
      BY <2>0 DEF WithGuid, TypeOK, ChallengeSlot
    <2>3. TakeSeat(from, c, q, hwid)
      BY <1>2, <2>1, <2>2 DEF OriginalDirectConnect, Remote
    <2>4. PICK k \in Seat : /\ \A j \in Seat : j # k => clients'[j] = clients[j]
                            /\ Player(k)' \in {<<>>, <<from, c, hwid>>}
      BY <1>2, <2>3, TakeSeatChanges
    <2>5. CASE Player(k)' = <<>>
      BY <2>4, <2>5, VacateStep
    <2>6. CASE Player(k)' = <<from, c, hwid>>
      <3>1. c \in Number /\ issuedTo[c] = from /\ c \notin denied
        <4>1. c \in Number \cup {0} BY DEF Presented, TypeOK
        <4>2. QED
          BY <2>0, <4>1
          DEF HistoryInv, TableMatchesHistory, SlotMatchesHistory
      <3>2. \E p \in told : p[1] = c
        BY <3>1, ConstantsAssumption DEF Presented
      <3>3. Tickets[c] = "told" /\ MadeFor[c] = from
        BY <3>1, <3>2 DEF Tickets, TicketState, MadeFor
      <3>4. /\ UNCHANGED <<MadeFor, Tickets>>
            /\ SeatView' = [SeatView EXCEPT ![k] = <<MadeFor[c], c, hwid>>]
        BY <2>4, <2>6, <3>3, SeatOnly
      <3>5. hwid \notin BannedView BY <2>1 DEF Banned, BannedView
      <3>6. Policy!Admit(k, c, hwid)
        BY <3>3, <3>4, <3>5
        DEF Policy!Admit, MadeFor, Tickets, SeatView, BannedView
      <3>7. QED BY <3>1, <3>6 DEF PolicyStep, Policy!PolicyNext
    <2>7. QED BY <2>4, <2>5, <2>6
  <1>3. QED BY <1>1, <1>2

LEMMA LocalStep ==
    ASSUME TypeOK, NEW from \in Local, NEW c \in Presented, NEW hwid, NEW q,
           ConnectLocal(from, hwid, c, q),
           UNCHANGED <<issuedTo, told, denied, permBanned, tempBanned>>
    PROVE  PolicyStep
  <1>1. CASE UNCHANGED clients
    BY <1>1, NothingSeen
  <1>2. CASE clients' # clients
    <2>1. TakeSeat(from, c, q, 0)
      BY <1>2 DEF ConnectLocal, OriginalDirectConnect
    <2>2. PICK k \in Seat : /\ \A j \in Seat : j # k => clients'[j] = clients[j]
                            /\ Player(k)' \in {<<>>, <<from, c, 0>>}
      BY <1>2, <2>1, TakeSeatChanges
    <2>3. CASE Player(k)' = <<>>
      BY <2>2, <2>3, VacateStep
    <2>4. CASE Player(k)' = <<from, c, 0>>
      <3>1. /\ UNCHANGED <<MadeFor, Tickets>>
            /\ SeatView' = [SeatView EXCEPT ![k] = <<from, c, 0>>]
        BY <2>2, <2>4, SeatOnly
      <3>2. Policy!AdmitLocal(k, from, c)
        BY <3>1 DEF Policy!AdmitLocal, MadeFor, Tickets, SeatView, BannedView
      <3>3. c \in Number \cup {0} BY DEF Presented, TypeOK
      <3>4. QED BY <3>2, <3>3 DEF PolicyStep, Policy!PolicyNext
    <2>5. QED BY <2>2, <2>3, <2>4
  <1>3. QED BY <1>1, <1>2

LEMMA ConnectStep ==
    ASSUME TypeOK, HistoryInv, NEW from \in Addr, NEW v \in ClientVersions,
           NEW hwid \in HWID \cup {0}, NEW c \in Presented, NEW q \in QPort,
           SV_DirectConnect(from, v[1], v[2], hwid, c, q)
    PROVE  PolicyStep
  <1>0. UNCHANGED <<issuedTo, told, denied, permBanned, tempBanned>>
    BY DEF SV_DirectConnect, bans, observed
  <1>1. CASE RefuseUnwelcome(from) \/ IgnoreUnknown(from)
    BY <1>0, <1>1, NothingSeen DEF RefuseUnwelcome, IgnoreUnknown
  <1>2. CASE from \in Local /\ ConnectLocal(from, hwid, c, q)
    BY <1>0, <1>2, LocalStep
  <1>3. ASSUME from \in Remote, Welcome(v[1], v[2], hwid),
               NEW i \in SlotsOf(from, c), ConnectRemote(from, i, hwid, c, q)
        PROVE  PolicyStep
    BY <1>0, <1>3, RemoteStep DEF Welcome
  <1>4. QED BY <1>1, <1>2, <1>3 DEF SV_DirectConnect, IsFirst, Remote

LEMMA DropPlayer ==
    ASSUME TypeOK, NEW k \in Seat, NEW final \in {"zombie", "free"},
           DropClient(k, final)
    PROVE  /\ \A j \in Seat : j # k => clients'[j] = clients[j]
           /\ Player(k)' = <<>>
           /\ Player(k) = <<clients[k].adr, clients[k].challenge, clients[k].guid>>
           /\ UNCHANGED <<issuedTo, told, denied>>
  <1>1. clients' = [clients EXCEPT ![k].state = final] /\ clients[k].state = "connected"
    BY DEF DropClient
  <1>2. clients'[k].state = final /\ \A j \in Seat : j # k => clients'[j] = clients[j]
    BY <1>1 DEF TypeOK, ClientSeat
  <1>3. Player(k)' = <<>> BY <1>2 DEF Player
  <1>4. QED BY <1>1, <1>2, <1>3 DEF Player, DropClient, observed

LEMMA BanStep ==
    ASSUME TypeOK, NEW k \in Seat, DropClient(k, "zombie"),
           BannedView' = BannedView \cup {clients[k].guid}
    PROVE  PolicyStep
  <1>1. /\ UNCHANGED <<MadeFor, Tickets>>
        /\ SeatView' = [SeatView EXCEPT ![k] = <<>>]
    BY DropPlayer, SeatOnly
  <1>2. SeatView[k] = <<clients[k].adr, clients[k].challenge, clients[k].guid>>
    BY DropPlayer DEF SeatView
  <1>3. SeatView[k] # <<>> /\ SeatView[k][3] = clients[k].guid
    BY <1>2
  <1>4. Policy!Ban(k)
    BY <1>1, <1>3 DEF Policy!Ban, Policy!Nobody, MadeFor, Tickets, SeatView, BannedView
  <1>5. QED BY <1>4 DEF PolicyStep, Policy!PolicyNext

LEMMA PardonStep ==
    ASSUME NEW hs \in SUBSET HWID, BannedView' = BannedView \ hs,
           UNCHANGED <<issuedTo, told, denied, clients>>
    PROVE  PolicyStep
  <1>1. UNCHANGED <<MadeFor, Tickets, SeatView>>
    BY TicketsKept DEF SeatView, Player
  <1>2. Policy!Pardon(hs)
    BY <1>1 DEF Policy!Pardon, MadeFor, Tickets, SeatView, BannedView
  <1>3. QED BY <1>2 DEF PolicyStep, Policy!PolicyNext

LEMMA SeatSteps ==
    ASSUME TypeOK, NEW k \in Seat,
           \/ \E final \in {"zombie", "free"} : Leave(k, final)
           \/ ZombieEnds(k) \/ BanClient(k) \/ TempBanClient(k)
    PROVE  PolicyStep
  <1>1. ASSUME NEW final \in {"zombie", "free"}, Leave(k, final) PROVE PolicyStep
    BY <1>1, DropPlayer, VacateStep DEF Leave, bans
  <1>2. CASE ZombieEnds(k)
    <2>1. clients' = [clients EXCEPT ![k].state = "free"]
      BY <1>2 DEF ZombieEnds
    <2>2. clients'[k].state = "free" /\ \A j \in Seat : j # k => clients'[j] = clients[j]
      BY <2>1 DEF TypeOK, ClientSeat
    <2>3. Player(k)' = <<>> BY <2>2 DEF Player
    <2>4. QED BY <1>2, <2>2, <2>3, VacateStep DEF ZombieEnds, bans, observed
  <1>3. CASE BanClient(k)
    BY <1>3, BanStep DEF BanClient, BannedView
  <1>4. CASE TempBanClient(k)
    BY <1>4, BanStep DEF TempBanClient, BannedView
  <1>5. QED BY <1>1, <1>2, <1>3, <1>4

LEMMA RestartStep ==
    ASSUME TypeOK, Restart
    PROVE  PolicyStep
  <1>1. UNCHANGED <<MadeFor, Tickets>>
    BY TicketsKept DEF Restart, observed
  <1>2. SeatView' = [k \in Seat |-> <<>>]
    BY DEF Restart, SeatView, Player, FreeSeat
  <1>3. BannedView' = BannedView \ (tempBanned \ permBanned)
    BY DEF Restart, BannedView
  <1>4. Policy!StartOver(tempBanned \ permBanned)
    BY <1>1, <1>2, <1>3
    DEF Policy!StartOver, Policy!Nobody, MadeFor, Tickets, SeatView, BannedView
  <1>5. tempBanned \ permBanned \in SUBSET HWID BY DEF TypeOK
  <1>6. QED BY <1>4, <1>5 DEF PolicyStep, Policy!PolicyNext

LEMMA StepImplements ==
    ASSUME TypeOK, HistoryInv, ~RandRepeats, [Next]_vars
    PROVE  PolicyStep
  <1>1. ASSUME NEW from \in Remote, SV_GetChallenge(from) PROVE PolicyStep
    BY <1>1, GetChallengeStep
  <1>2. ASSUME NEW p \in asked, NEW answer \in Answer,
               SV_AuthorizeIpPacket(p[1], p[2], answer)
        PROVE  PolicyStep
    BY <1>2, AuthorizeStep
  <1>3. ASSUME NEW from \in Addr, NEW v \in ClientVersions,
               NEW hwid \in HWID \cup {0}, NEW c \in Presented, NEW q \in QPort,
               SV_DirectConnect(from, v[1], v[2], hwid, c, q)
        PROVE  PolicyStep
    BY <1>3, ConnectStep
  <1>4. ASSUME NEW k \in Seat,
               \/ \E final \in {"zombie", "free"} : Leave(k, final)
               \/ ZombieEnds(k) \/ BanClient(k) \/ TempBanClient(k)
        PROVE  PolicyStep
    BY <1>4, SeatSteps
  <1>5. ASSUME NEW h \in HWID, TempBanEnds(h) PROVE PolicyStep
    <2>1. CASE h \in permBanned
      <3>1. BannedView' = BannedView \ {}
        BY <1>5, <2>1 DEF TempBanEnds, BannedView
      <3>2. {} \in SUBSET HWID OBVIOUS
      <3>3. QED BY <1>5, <3>1, <3>2, PardonStep DEF TempBanEnds, observed
    <2>2. CASE h \notin permBanned
      <3>1. BannedView' = BannedView \ {h}
        BY <1>5, <2>2 DEF TempBanEnds, BannedView
      <3>2. QED BY <1>5, <3>1, PardonStep DEF TempBanEnds, observed
    <2>3. QED BY <2>1, <2>2
  <1>6. CASE unbanAll
    <2>1. BannedView' = BannedView \ (permBanned \ tempBanned)
      BY <1>6 DEF unbanAll, BannedView
    <2>2. permBanned \ tempBanned \in SUBSET HWID BY DEF TypeOK
    <2>3. UNCHANGED <<issuedTo, told, denied, clients>>
      BY <1>6 DEF unbanAll, observed
    <2>4. QED BY <2>1, <2>2, <2>3, PardonStep
  <1>7. CASE Tick \/ UNCHANGED vars
    BY <1>7, NothingSeen DEF Tick, vars, bans, observed
  <1>8. CASE Restart
    BY <1>8, RestartStep
  <1>9. QED BY <1>1, <1>2, <1>3, <1>4, <1>5, <1>6, <1>7, <1>8 DEF Next

LEMMA InitImplements == Init => Policy!PolicyInit
  BY DEF Init, Policy!PolicyInit, Policy!Nobody, TicketState, Player, FreeSeat

(* The server keeps the policy's promise: a seat only for the client that  *)
(* was handed its own ticket, a refused ticket void for good, nobody under *)
(* a banned id; whatever the packets, the recycling of slots and the clock *)
(* do in between.                                                          *)
THEOREM ServerImplementsPolicy == ~RandRepeats /\ Spec => ImplementsPolicy
  <1> SUFFICES ASSUME ~RandRepeats PROVE Spec => ImplementsPolicy
    OBVIOUS
  <1>1. ASSUME TypeOK, HistoryInv, [Next]_vars
        PROVE  [Policy!PolicyNext]_Policy!policyVars
    <2>1. PolicyStep BY <1>1, StepImplements
    <2>2. QED
      BY <2>1
      DEF PolicyStep, PolicyView, Policy!policyVars, MadeFor, Tickets, SeatView,
          BannedView
  <1>2. QED
    BY <1>1, InitImplements, TypeCorrect, HistoryCorrect, PTL
    DEF Spec, ImplementsPolicy, Policy!PolicySpec

-----------------------------------------------------------------------------
(* What the policy promises.                                               *)

\* A ticket is made, handed over and made void in this order.
TicketMoves(from, to) ==
    \/ from = to
    \/ from = "unused" /\ to \in {"held", "told"}
    \/ from = "held" /\ to = "told"
    \/ from # "unused" /\ to = "void"

\* How a step of the policy may fill a seat.
SeatMoves(k) ==
    \/ SeatView'[k] \in {SeatView[k], <<>>}
    \/ SeatView'[k][1] \in Local
    \/ \E c \in Number :
          /\ Tickets[c] = "told" /\ Tickets'[c] = "told" /\ MadeFor'[c] = MadeFor[c]
          /\ \E h : h \notin BannedView /\ SeatView'[k] = <<MadeFor[c], c, h>>

PolicyMoves ==
    /\ \A c \in Number : TicketMoves(Tickets[c], Tickets'[c])
    /\ \A c \in Number : Tickets[c] # "unused" => MadeFor'[c] = MadeFor[c]
    /\ \A k \in Seat : SeatMoves(k)

LEMMA PolicyViews ==
    /\ DOMAIN MadeFor = Number /\ MadeFor = [c \in Number |-> MadeFor[c]]
    /\ DOMAIN Tickets = Number /\ Tickets = [c \in Number |-> Tickets[c]]
    /\ DOMAIN SeatView = Seat /\ SeatView = [k \in Seat |-> SeatView[k]]
  BY DEF MadeFor, Tickets, SeatView

\* Steps on tickets, and steps on seats.
LEMMA TicketStepMoves ==
    ASSUME NEW c \in Number, UNCHANGED SeatView, TicketMoves(Tickets[c], Tickets'[c]),
           \A d \in Number : d # c => Tickets'[d] = Tickets[d] /\ MadeFor'[d] = MadeFor[d],
           Tickets[c] # "unused" => MadeFor'[c] = MadeFor[c]
    PROVE  PolicyMoves
  BY DEF PolicyMoves, TicketMoves, SeatMoves

LEMMA SeatStepMoves ==
    ASSUME UNCHANGED <<MadeFor, Tickets>>, \A k \in Seat : SeatMoves(k)
    PROVE  PolicyMoves
  BY DEF PolicyMoves, TicketMoves

LEMMA NextMoves ==
    ASSUME [Policy!PolicyNext]_Policy!policyVars
    PROVE  PolicyMoves
  <1> USE PolicyViews
  <1>1. ASSUME NEW c \in Number, NEW a \in Remote, Policy!Issue(c, a) PROVE PolicyMoves
    <2>1. PICK s \in {"held", "told"} : Tickets' = [Tickets EXCEPT ![c] = s]
      BY <1>1 DEF Policy!Issue, Tickets
    <2>2. Tickets[c] = "unused" /\ MadeFor' = [MadeFor EXCEPT ![c] = a] /\ UNCHANGED SeatView
      BY <1>1 DEF Policy!Issue, Tickets, MadeFor, SeatView
    <2>3. QED BY <2>1, <2>2, TicketStepMoves DEF TicketMoves
  <1>2. ASSUME NEW c \in Number, Policy!Tell(c) PROVE PolicyMoves
    <2>1. /\ Tickets[c] = "held" /\ Tickets' = [Tickets EXCEPT ![c] = "told"]
          /\ UNCHANGED <<MadeFor, SeatView>>
      BY <1>2 DEF Policy!Tell, Tickets, MadeFor, SeatView
    <2>2. QED BY <2>1, TicketStepMoves DEF TicketMoves
  <1>3. ASSUME NEW c \in Number, Policy!Refuse(c) PROVE PolicyMoves
    <2>1. /\ Tickets[c] # "unused" /\ Tickets' = [Tickets EXCEPT ![c] = "void"]
          /\ UNCHANGED <<MadeFor, SeatView>>
      BY <1>3 DEF Policy!Refuse, Tickets, MadeFor, SeatView
    <2>2. QED BY <2>1, TicketStepMoves DEF TicketMoves
  <1>4. ASSUME NEW k \in Seat, NEW c \in Number, NEW h \in HWID, Policy!Admit(k, c, h)
        PROVE  PolicyMoves
    <2>1. /\ Tickets[c] = "told" /\ h \notin BannedView
          /\ SeatView' = [SeatView EXCEPT ![k] = <<MadeFor[c], c, h>>]
          /\ UNCHANGED <<MadeFor, Tickets>>
      BY <1>4 DEF Policy!Admit, Tickets, MadeFor, SeatView, BannedView
    <2>2. \A j \in Seat : j # k => SeatView'[j] = SeatView[j]
      BY <2>1
    <2>3. SeatView'[k] = <<MadeFor[c], c, h>>
      BY <2>1
    <2>4. SeatMoves(k)
      BY <2>1, <2>3 DEF SeatMoves
    <2>5. QED BY <2>1, <2>2, <2>4, SeatStepMoves DEF SeatMoves
  <1>5. ASSUME NEW k \in Seat, NEW a \in Local, NEW c \in Number \cup {0},
               Policy!AdmitLocal(k, a, c)
        PROVE  PolicyMoves
    <2>1. /\ SeatView' = [SeatView EXCEPT ![k] = <<a, c, 0>>]
          /\ UNCHANGED <<MadeFor, Tickets>>
      BY <1>5 DEF Policy!AdmitLocal, Tickets, MadeFor, SeatView, BannedView
    <2>2. QED BY <2>1, SeatStepMoves DEF SeatMoves
  <1>6. ASSUME NEW k \in Seat, Policy!Vacate(k) \/ Policy!Ban(k) PROVE PolicyMoves
    <2>1. SeatView' = [SeatView EXCEPT ![k] = <<>>] /\ UNCHANGED <<MadeFor, Tickets>>
      BY <1>6 DEF Policy!Vacate, Policy!Ban, Policy!Nobody, Tickets, MadeFor, SeatView
    <2>2. QED BY <2>1, SeatStepMoves DEF SeatMoves
  <1>7. ASSUME NEW hs \in SUBSET HWID, Policy!Pardon(hs) \/ Policy!StartOver(hs)
        PROVE  PolicyMoves
    <2>1. /\ SeatView' \in {SeatView, [k \in Seat |-> <<>>]}
          /\ UNCHANGED <<MadeFor, Tickets>>
      BY <1>7
      DEF Policy!Pardon, Policy!StartOver, Policy!Nobody, Tickets, MadeFor, SeatView
    <2>2. QED BY <2>1, SeatStepMoves DEF SeatMoves
  <1>8. CASE UNCHANGED Policy!policyVars
    <2>1. UNCHANGED <<MadeFor, Tickets, SeatView>>
      BY <1>8 DEF Policy!policyVars, Tickets, MadeFor, SeatView
    <2>2. QED BY <2>1, SeatStepMoves DEF SeatMoves
  <1>9. QED
    BY <1>1, <1>2, <1>3, <1>4, <1>5, <1>6, <1>7, <1>8 DEF Policy!PolicyNext

\* The promises, in the names used here.
HoldsTicket(k) ==
    SeatView[k] # <<>> /\ SeatView[k][1] \notin Local =>
        /\ SeatView[k][2] \in Number
        /\ MadeFor[SeatView[k][2]] = SeatView[k][1]
        /\ Tickets[SeatView[k][2]] \in {"told", "void"}

LEMMA MovesKeepTickets ==
    ASSUME PolicyMoves, NEW k \in Seat, HoldsTicket(k)
    PROVE  HoldsTicket(k)'
  <1>1. CASE SeatView'[k] = SeatView[k]
    BY <1>1 DEF HoldsTicket, PolicyMoves, TicketMoves
  <1>2. CASE SeatView'[k] = <<>> \/ SeatView'[k][1] \in Local
    BY <1>2 DEF HoldsTicket
  <1>3. ASSUME NEW c \in Number, NEW h, Tickets'[c] = "told", MadeFor'[c] = MadeFor[c],
               SeatView'[k] = <<MadeFor[c], c, h>>
        PROVE  HoldsTicket(k)'
    <2>1. SeatView'[k][1] = MadeFor[c] /\ SeatView'[k][2] = c
      BY <1>3
    <2>2. QED BY <1>3, <2>1 DEF HoldsTicket
  <1>4. QED
    BY <1>1, <1>2, <1>3 DEF PolicyMoves, SeatMoves

(* Who keeps to the policy lets nobody play from elsewhere without a       *)
(* ticket that was handed over and made for his own address; a void ticket *)
(* stays void, and a seat is taken only with a ticket that is valid at     *)
(* that moment and under an id that is not banned.  Nothing is said of     *)
(* tables, packets or clocks: it holds for whatever implements the policy. *)
THEOREM PolicyKeepsPromise ==
    Policy!PolicySpec =>
        []Policy!PlayersHoldTickets /\ Policy!TicketsAreFinal /\ Policy!SeatsAreEarned
  <1>1. Policy!PolicyInit => Policy!PlayersHoldTickets
    BY DEF Policy!PolicyInit, Policy!PlayersHoldTickets, Policy!Nobody
  <1>2. ASSUME Policy!PlayersHoldTickets, [Policy!PolicyNext]_Policy!policyVars
        PROVE  Policy!PlayersHoldTickets'
    <2>1. \A k \in Seat : HoldsTicket(k)
      BY <1>2 DEF Policy!PlayersHoldTickets, Policy!Nobody, HoldsTicket, SeatView, MadeFor, Tickets
    <2>2. \A k \in Seat : HoldsTicket(k)'
      BY <1>2, <2>1, NextMoves, MovesKeepTickets
    <2>3. QED
      BY <2>2 DEF Policy!PlayersHoldTickets, Policy!Nobody, HoldsTicket, SeatView, MadeFor, Tickets
  <1>3. ASSUME [Policy!PolicyNext]_Policy!policyVars
        PROVE  [Policy!TicketsStay]_Policy!policyVars
    <2>1. \A c \in Number :
              /\ Tickets[c] = "void" => Tickets'[c] = "void"
              /\ Tickets[c] # "unused" => Tickets'[c] # "unused" /\ MadeFor'[c] = MadeFor[c]
      BY <1>3, NextMoves DEF PolicyMoves, TicketMoves
    <2>2. QED BY <2>1 DEF Policy!TicketsStay, Tickets, MadeFor
  <1>4. ASSUME [Policy!PolicyNext]_Policy!policyVars
        PROVE  [\A k \in Seat : Policy!Earned(k)]_Policy!policyVars
    <2>1. ASSUME NEW k \in Seat,
                 SeatView'[k] \notin {SeatView[k], <<>>}, SeatView'[k][1] \notin Local
          PROVE  Tickets[SeatView'[k][2]] = "told" /\ SeatView'[k][3] \notin BannedView
      <3>1. PICK c \in Number : /\ Tickets[c] = "told"
                                /\ \E h : /\ h \notin BannedView
                                          /\ SeatView'[k] = <<MadeFor[c], c, h>>
        BY <1>4, <2>1, NextMoves DEF PolicyMoves, SeatMoves
      <3>2. PICK h : h \notin BannedView /\ SeatView'[k] = <<MadeFor[c], c, h>>
        BY <3>1
      <3>3. SeatView'[k][2] = c /\ SeatView'[k][3] = h
        BY <3>2
      <3>4. QED BY <3>1, <3>2, <3>3
    <2>2. QED
      BY <2>1 DEF Policy!Earned, Policy!Nobody, SeatView, Tickets, BannedView
  <1>5. QED
    BY <1>1, <1>2, <1>3, <1>4, PTL
    DEF Policy!PolicySpec, Policy!TicketsAreFinal, Policy!SeatsAreEarned

(* ... and so does the server, which implements the policy.                *)
THEOREM ServerKeepsPromise ==
    ~RandRepeats /\ Spec =>
        []Policy!PlayersHoldTickets /\ Policy!TicketsAreFinal /\ Policy!SeatsAreEarned
  BY ServerImplementsPolicy, PolicyKeepsPromise DEF ImplementsPolicy
=============================================================================
