--------------------------- MODULE ServerConnect ---------------------------
(***************************************************************************)
(* The connection handshake of a CoD2x server: the challenge table shared  *)
(* by the handlers of the out-of-band packets "getchallenge",              *)
(* "ipAuthorize" and "connect" (src/src/shared/server.cpp), and the client *)
(* slots of the game that the "connect" handler fills through the original *)
(* SV_DirectConnect (decompiled in src/src/other).                         *)
(*                                                                         *)
(* The server is one thread: a handler is one atomic step.  Everything     *)
(* hard comes from the order of the steps.  Packets may be lost,           *)
(* duplicated, delayed and reordered: a packet that was once sent can be   *)
(* received at any later time, any number of times, or never.              *)
(*                                                                         *)
(* Left out: the texts of the replies, PunkBuster ids, pingTime and        *)
(* firstPing (they only feed the sv_minPing/sv_maxPing limits, which are   *)
(* the nondeterministic refusals of OriginalDirectConnect).                *)
(***************************************************************************)
EXTENDS Integers, FiniteSets

CONSTANTS
    Addr,               \* addresses (ip and port) packets come from
    NoAddr,             \* the all-zero netaddr_s of a cleared slot
    IpOf,               \* IpOf[a]: the part NET_CompareBaseAdr looks at
    Local,              \* addresses NET_IsLocalAddress accepts
    Lan,                \* addresses Sys_IsLANAddress accepts
    Master,             \* addresses server_isAddressMasterServer accepts
    QPort,              \* the qport numbers of the clients
    ClientVersions,     \* <<protocol, protocol_cod2x>> of the clients
    HWID,               \* hardware ids other than 0
    Number,             \* challenge numbers other than 0
    KeyAnswers,         \* KeyAnswers[a]: what the authorization server
                        \* may answer about the client at a
    MAX_CHALLENGES, sv_maxclients, sv_privateClients,
    sv_reconnectlimit, AuthTimeout, \* in ticks
    net_lanauthorize, sv_cracked,
    RandRepeats,        \* whether rand() may yield 0 or a used number
    MaxTime,            \* bound on svs_time
    MaxBans             \* bound on the ids banned at a time

\* "unknown": deny CLIENT_UNKNOWN_TO_AUTH or BAD_CDKEY; "deny": deny with one
\* of the other reasons the code has a message for; "denyOdd": deny with a
\* reason it has none for; "other": no known word at all.
Answer == {"accept", "demo", "unknown", "deny", "denyOdd", "other"}
Remote == Addr \ Local
Slot == 0 .. MAX_CHALLENGES - 1
Seat == 0 .. sv_maxclients - 1

ASSUME ConstantsAssumption ==
    /\ NoAddr \notin Addr
    /\ Local \subseteq Addr /\ Lan \subseteq Addr /\ Master \subseteq Addr
    /\ ClientVersions \subseteq Int \X Int
    /\ HWID \subseteq Int \ {0}
    /\ Number \subseteq Int \ {0}
    /\ KeyAnswers \in [Addr -> SUBSET Answer]
    /\ MAX_CHALLENGES \in Nat \ {0}
    /\ sv_maxclients \in Nat \ {0}
    /\ sv_privateClients \in Nat
    /\ sv_reconnectlimit \in Nat /\ AuthTimeout \in Nat
    /\ net_lanauthorize \in BOOLEAN /\ sv_cracked \in BOOLEAN
    /\ RandRepeats \in BOOLEAN
    /\ MaxTime \in Nat /\ MaxBans \in Nat

VARIABLES
    svs_time,               \* server time
    svs_challenges,         \* the challenge table
    clients,                \* the client slots
    svs_authorizeAddress,   \* "init" until resolved, "bad" when it failed
    permBanned,             \* the ids in ban.txt
    tempBanned,             \* the ids in the table of temporary bans
    reply,                  \* the answer to the last packet ("none": silence)
    asked,                  \* <<number, address>> the authorization server
                            \* was asked about
    (* observation only, no step reads them (fresh numbers aside): *)
    issuedTo, issuedAt,     \* whom and when each number was made for
    told,                   \* <<number, address>> of each challengeResponse
    accepted, denied        \* numbers with a processed accept / refusal

observed == <<issuedTo, issuedAt, told, accepted, denied>>
bans == <<permBanned, tempBanned>>
vars == <<svs_time, svs_challenges, clients, svs_authorizeAddress,
          permBanned, tempBanned, reply, asked,
          issuedTo, issuedAt, told, accepted, denied>>

\* Mutant: cleared with -1 instead of 0.
EmptySlot_Ones == [adr |-> NoAddr, challenge |-> -1, time |-> -1,
                   firstTime |-> -1, connected |-> TRUE, guid |-> -1]

EmptySlot == [adr |-> NoAddr, challenge |-> 0, time |-> 0, firstTime |-> 0,
              connected |-> FALSE, guid |-> 0]

FreeSeat == [state |-> "free", adr |-> NoAddr, qport |-> 0, challenge |-> 0,
             guid |-> 0, lastConnectTime |-> 0]

Send(to, msg) == reply' = [to |-> to, msg |-> msg]
Silence(from) == Send(from, "none")

\* The first frames of the game have run before the first packet is read.
Init ==
    /\ svs_time = 1
    /\ svs_challenges = [i \in Slot |-> EmptySlot]
    /\ clients = [k \in Seat |-> FreeSeat]
    /\ svs_authorizeAddress = "init"
    /\ permBanned = {} /\ tempBanned = {}
    /\ reply = [to |-> NoAddr, msg |-> "none"]
    /\ asked = {}
    /\ issuedTo = [c \in Number \cup {0} |-> NoAddr]
    /\ issuedAt = [c \in Number \cup {0} |-> 0]
    /\ told = {} /\ accepted = {} /\ denied = {}

IsFirst(i, S) == i \in S /\ \A j \in S : i <= j

(***************************************************************************)
(* "getchallenge": find the open slot of this address or recycle the       *)
(* oldest slot, then answer, or ask the authorization server.              *)
(***************************************************************************)
OpenSlots(from) ==
    {i \in Slot : ~svs_challenges[i].connected /\ svs_challenges[i].adr = from}

IsOldest(i) ==
    IsFirst(i, {j \in Slot : \A k \in Slot :
                    svs_challenges[j].time <= svs_challenges[k].time})

NewNumbers ==
    IF RandRepeats THEN Number \cup {0}
                   ELSE {c \in Number : issuedTo[c] = NoAddr}

\* Mutant: a recycled slot keeps the time its previous owner first asked.
NewChallenge_KeepsFirstTime(i, from, c) ==
    [svs_challenges[i] EXCEPT !.adr = from, !.challenge = c,
                              !.time = svs_time, !.connected = FALSE]

\* The slot's guid keeps the value its previous owner left.
NewChallenge(i, from, c) ==
    [svs_challenges[i] EXCEPT !.adr = from, !.challenge = c,
                              !.time = svs_time, !.firstTime = svs_time,
                              !.connected = FALSE]

TellChallenge(slot) ==
    /\ Send(slot.adr, "challengeResponse")
    /\ told' = told \cup {<<slot.challenge, slot.adr>>}

\* "if they are on a lan address, send the challengeResponse immediately"
LanAnswer(slot) ==
    /\ slot.adr \in Lan /\ ~net_lanauthorize
    /\ TellChallenge(slot)
    /\ UNCHANGED <<svs_authorizeAddress, asked>>

ResolveFails(slot) ==
    /\ ~(slot.adr \in Lan /\ ~net_lanauthorize)
    /\ svs_authorizeAddress = "init"
    /\ svs_authorizeAddress' = "bad"
    /\ Silence(slot.adr)
    /\ UNCHANGED <<told, asked>>

\* Mutant: a bad authorization address is given up on, as in ResolveFails.
AskOrTimeOut_GivesUp(slot) ==
    /\ ~(slot.adr \in Lan /\ ~net_lanauthorize)
    /\ svs_authorizeAddress # "bad"
    /\ svs_authorizeAddress' = "resolved"
    /\ IF svs_time - slot.firstTime > AuthTimeout /\ slot.adr \notin Master
       THEN TellChallenge(slot) /\ UNCHANGED asked
       ELSE /\ asked' = asked \cup {<<slot.challenge, slot.adr>>}
            /\ Silence(slot.adr)
            /\ UNCHANGED told

\* The address is known, or known to be bad: time out, or ask (again).
AskOrTimeOut(slot) ==
    /\ ~(slot.adr \in Lan /\ ~net_lanauthorize)
    /\ svs_authorizeAddress' = IF svs_authorizeAddress = "init"
                               THEN "resolved" ELSE svs_authorizeAddress
    /\ IF svs_time - slot.firstTime > AuthTimeout /\ slot.adr \notin Master
       THEN TellChallenge(slot) /\ UNCHANGED asked
       ELSE /\ asked' = IF svs_authorizeAddress' = "resolved"
                        THEN asked \cup {<<slot.challenge, slot.adr>>}
                        ELSE asked
            /\ Silence(slot.adr)
            /\ UNCHANGED told

AnswerChallenge(slot) ==
    LanAnswer(slot) \/ ResolveFails(slot) \/ AskOrTimeOut(slot)

SV_GetChallenge(from) ==
    /\ \/ \E i \in Slot :
            /\ IsFirst(i, OpenSlots(from))
            /\ AnswerChallenge(svs_challenges[i])
            /\ UNCHANGED <<svs_challenges, issuedTo, issuedAt>>
       \/ \E i \in Slot, c \in NewNumbers :
            /\ OpenSlots(from) = {} /\ IsOldest(i)
            /\ svs_challenges' =
                 [svs_challenges EXCEPT ![i] = NewChallenge(i, from, c)]
            /\ issuedTo' = [issuedTo EXCEPT ![c] = from]
            /\ issuedAt' = [issuedAt EXCEPT ![c] = svs_time]
            /\ AnswerChallenge(NewChallenge(i, from, c))
    /\ UNCHANGED <<svs_time, clients, bans, accepted, denied>>

(***************************************************************************)
(* "ipAuthorize c answer": the authorization server's answer to a request  *)
(* it was sent about the challenge c of the client at address a.           *)
(***************************************************************************)
\* On a cracked server only an unknown key is held back.
Accepts(answer) == IF sv_cracked THEN answer # "unknown" ELSE answer = "accept"

AuthAccept(i) ==
    /\ IF svs_challenges[i].connected
       THEN Silence(svs_challenges[i].adr) /\ UNCHANGED told
       ELSE TellChallenge(svs_challenges[i])
    /\ accepted' = accepted \cup {svs_challenges[i].challenge}
    /\ UNCHANGED <<svs_challenges, denied>>

\* Mutant: a refused challenge stays in the table.
AuthRefuse_KeepsSlot(i, answer) ==
    /\ Send(svs_challenges[i].adr, "error")
    /\ denied' = denied \cup {svs_challenges[i].challenge}
    /\ UNCHANGED <<svs_challenges, told, accepted>>

\* Mutant: the slot is cleared before its address is used.
AuthRefuse_ClearsFirst(i, answer) ==
    /\ svs_challenges' = [svs_challenges EXCEPT ![i] = EmptySlot]
    /\ Send(EmptySlot.adr, "error")
    /\ denied' = denied \cup {svs_challenges[i].challenge}
    /\ UNCHANGED <<told, accepted>>

AuthRefuse(i, answer) ==
    /\ Send(svs_challenges[i].adr,
            CASE answer = "unknown" -> "needcdkey"
              [] answer = "denyOdd" -> "none"
              [] OTHER -> "error")
    /\ svs_challenges' = [svs_challenges EXCEPT ![i] = EmptySlot]
    /\ denied' = denied \cup {svs_challenges[i].challenge}
    /\ UNCHANGED <<told, accepted>>

SV_AuthorizeIpPacket(c, a, answer) ==
    /\ <<c, a>> \in asked /\ answer \in KeyAnswers[a]
    /\ svs_authorizeAddress = "resolved"
    /\ \E i \in Slot :
         /\ IsFirst(i, {j \in Slot : svs_challenges[j].challenge = c})
         /\ IF Accepts(answer) THEN AuthAccept(i) ELSE AuthRefuse(i, answer)
    /\ UNCHANGED <<svs_time, clients, svs_authorizeAddress, bans, asked,
                   issuedTo, issuedAt>>

(***************************************************************************)
(* "connect", the original SV_DirectConnect: tbl is the challenge table    *)
(* as the CoD2x handler passes it on, i the slot it found for a remote     *)
(* address.                                                                *)
(***************************************************************************)
\* Seats of the same client, free ones included: a freed seat keeps its
\* address.
SeatsOf(from, q) ==
    {k \in Seat : /\ clients[k].adr # NoAddr
                  /\ IpOf[clients[k].adr] = IpOf[from]
                  /\ clients[k].qport = q \/ clients[k].adr = from}

ReconnectTooSoon(from, q) ==
    \E k \in Seat :
        /\ IsFirst(k, SeatsOf(from, q))
        /\ svs_time - clients[k].lastConnectTime < sv_reconnectlimit

ReconnectSeats(from, q) == {k \in SeatsOf(from, q) : clients[k].state # "free"}

\* A client that knows the private password may take the first seats too.
FreeSeats(lowest) == {k \in Seat : k >= lowest /\ clients[k].state = "free"}

SeatFor(k, from, q, lowest) ==
    IF ReconnectSeats(from, q) # {}
    THEN IsFirst(k, ReconnectSeats(from, q))
    ELSE IsFirst(k, FreeSeats(lowest))

NoSeat(from, q, lowest) ==
    ReconnectSeats(from, q) = {} /\ FreeSeats(lowest) = {}

NewClient(from, q, c, guid) ==
    [FreeSeat EXCEPT !.adr = from, !.qport = q, !.challenge = c, !.guid = guid]

Connected(client) ==
    [client EXCEPT !.state = "connected", !.lastConnectTime = svs_time]

\* From here on the slot counts as connected, whatever becomes of the client.
TakeSeat(from, c, q, guid) ==
    \/ /\ Send(from, "error")             \* ping limits, PunkBuster
       /\ UNCHANGED clients
    \/ \E lowest \in {0, sv_privateClients} :
         \/ /\ NoSeat(from, q, lowest)
            /\ Send(from, "error")        \* EXE_SERVERISFULL
            /\ UNCHANGED clients
         \/ \E k \in Seat :
              /\ SeatFor(k, from, q, lowest)
              /\ \/ /\ clients' = [clients EXCEPT ![k] =
                                Connected(NewClient(from, q, c, guid))]
                    /\ Send(from, "connectResponse")
                 \/ /\ clients' = [clients EXCEPT ![k] =
                                NewClient(from, q, c, guid)]
                    /\ Send(from, "error")    \* refused by the game script

OriginalDirectConnect(tbl, from, i, c, q) ==
    IF ReconnectTooSoon(from, q)
    THEN svs_challenges' = tbl /\ Silence(from) /\ UNCHANGED clients
    ELSE IF from \in Local
         THEN svs_challenges' = tbl /\ TakeSeat(from, c, q, 0)
         ELSE /\ svs_challenges' = [tbl EXCEPT ![i].connected = TRUE]
              /\ TakeSeat(from, c, q, tbl[i].guid)

(***************************************************************************)
(* "connect", the CoD2x handler in front of it.                            *)
(***************************************************************************)
APP_VERSION_PROTOCOL == 2

Welcome(protocol, protocol_cod2x, hwid) ==
    /\ protocol = 118
    /\ protocol_cod2x >= APP_VERSION_PROTOCOL
    /\ hwid # 0

\* Mutant: the temporary bans are forgotten.
Banned_PermanentOnly(hwid) == hwid \in permBanned

Banned(hwid) == hwid \in permBanned \/ hwid \in tempBanned

\* Mutant: the lookup ignores the port.
SlotsOf_AnyPort(from, c) ==
    {i \in Slot : /\ svs_challenges[i].adr # NoAddr
                  /\ IpOf[svs_challenges[i].adr] = IpOf[from]
                  /\ svs_challenges[i].challenge = c}

SlotsOf(from, c) ==
    {i \in Slot : /\ svs_challenges[i].adr = from
                  /\ svs_challenges[i].challenge = c}

\* Mutant: the slot keeps its guid, as the original server does.
WithGuid_Kept(i, hwid) == svs_challenges

WithGuid(i, hwid) == [svs_challenges EXCEPT ![i].guid = hwid]

RefuseUnwelcome(from) ==
    Send(from, "error") /\ UNCHANGED <<svs_challenges, clients>>

\* The table has no such challenge: the handler returns without a word.
IgnoreUnknown(from) == Silence(from) /\ UNCHANGED <<svs_challenges, clients>>

ConnectRemote(from, i, hwid, c, q) ==
    IF Banned(hwid)
    THEN /\ Send(svs_challenges[i].adr, "error")
         /\ svs_challenges' = [svs_challenges EXCEPT ![i] = EmptySlot]
         /\ UNCHANGED clients
    ELSE OriginalDirectConnect(WithGuid(i, hwid), from, i, c, q)

\* A local client has no slot: the handler's index i was never assigned, and
\* the ban branch clears whatever slot it denotes, or memory beyond the table.
ConnectLocal(from, hwid, c, q) ==
    IF Banned(hwid)
    THEN /\ \/ Silence(from) /\ UNCHANGED svs_challenges
            \/ \E i \in Slot :
                 /\ Send(svs_challenges[i].adr, "error")
                 /\ svs_challenges' = [svs_challenges EXCEPT ![i] = EmptySlot]
         /\ UNCHANGED clients
    ELSE OriginalDirectConnect(svs_challenges, from, 0, c, q)

SV_DirectConnect(from, protocol, protocol_cod2x, hwid, c, q) ==
    /\ IF ~Welcome(protocol, protocol_cod2x, hwid) THEN RefuseUnwelcome(from)
       ELSE IF from \in Local THEN ConnectLocal(from, hwid, c, q)
       ELSE IF SlotsOf(from, c) = {} THEN IgnoreUnknown(from)
       ELSE \E i \in Slot : /\ IsFirst(i, SlotsOf(from, c))
                            /\ ConnectRemote(from, i, hwid, c, q)
    /\ UNCHANGED <<svs_time, svs_authorizeAddress, bans, asked, observed>>

(***************************************************************************)
(* The rest of the game server, as far as it touches this state.           *)
(***************************************************************************)
\* SV_DropClient: the first slot with the client's address is reopened.
DropClient(k, final) ==
    /\ clients[k].state = "connected"
    /\ clients' = [clients EXCEPT ![k].state = final]
    /\ svs_challenges' =
         [i \in Slot |->
            IF IsFirst(i, {j \in Slot : svs_challenges[j].adr = clients[k].adr})
            THEN [svs_challenges[i] EXCEPT !.connected = FALSE]
            ELSE svs_challenges[i]]
    /\ UNCHANGED <<svs_time, svs_authorizeAddress, reply, asked, observed>>

\* A client leaves or is kicked ("zombie"), or falls silent ("free").
Leave(k, final) == DropClient(k, final) /\ UNCHANGED bans

ZombieEnds(k) ==
    /\ clients[k].state = "zombie"
    /\ clients' = [clients EXCEPT ![k].state = "free"]
    /\ UNCHANGED <<svs_time, svs_challenges, svs_authorizeAddress, bans, reply,
                   asked, observed>>

BansLeft == Cardinality(permBanned \cup tempBanned) < MaxBans

BanClient(k) ==
    /\ BansLeft
    /\ clients[k].adr \notin Local
    /\ clients[k].guid \notin permBanned \cup {0}
    /\ permBanned' = permBanned \cup {clients[k].guid}
    /\ DropClient(k, "zombie")
    /\ UNCHANGED tempBanned

TempBanClient(k) ==
    /\ BansLeft
    /\ clients[k].adr \notin Local
    /\ clients[k].guid # 0
    /\ tempBanned' = tempBanned \cup {clients[k].guid}
    /\ DropClient(k, "zombie")
    /\ UNCHANGED permBanned

\* A temporary ban ends, or its entry is taken by a newer one.
TempBanEnds(h) ==
    /\ h \in tempBanned
    /\ tempBanned' = tempBanned \ {h}
    /\ UNCHANGED <<svs_time, svs_challenges, clients, svs_authorizeAddress,
                   permBanned, reply, asked, observed>>

unbanAll ==
    /\ permBanned # {}
    /\ permBanned' = {}
    /\ UNCHANGED <<svs_time, svs_challenges, clients, svs_authorizeAddress,
                   tempBanned, reply, asked, observed>>

Tick ==
    /\ svs_time < MaxTime
    /\ svs_time' = svs_time + 1
    /\ UNCHANGED <<svs_challenges, clients, svs_authorizeAddress, bans, reply,
                   asked, observed>>

\* The server is stopped (SV_Shutdown wipes svs: the table, the seats, the
\* temporary bans, the authorization address and the clock) and a map is
\* started again.  Packets sent before may still arrive.
Restart ==
    /\ svs_time' = 1
    /\ svs_challenges' = [i \in Slot |-> EmptySlot]
    /\ clients' = [k \in Seat |-> FreeSeat]
    /\ svs_authorizeAddress' = "init"
    /\ tempBanned' = {}
    /\ UNCHANGED <<permBanned, reply, asked, observed>>

\* A client presents a number some client was told, or none (0).
Presented == {p[1] : p \in told} \cup {0}

Next ==
    \/ \E from \in Remote : SV_GetChallenge(from)
    \/ \E p \in asked, answer \in Answer : SV_AuthorizeIpPacket(p[1], p[2], answer)
    \/ \E from \in Addr, v \in ClientVersions, hwid \in HWID \cup {0},
          c \in Presented, q \in QPort :
            SV_DirectConnect(from, v[1], v[2], hwid, c, q)
    \/ \E k \in Seat :
        \/ \E final \in {"zombie", "free"} : Leave(k, final)
        \/ ZombieEnds(k) \/ BanClient(k) \/ TempBanClient(k)
    \/ \E h \in HWID : TempBanEnds(h)
    \/ unbanAll
    \/ Tick
    \/ Restart

Spec == Init /\ [][Next]_vars

-----------------------------------------------------------------------------
Message == {"none", "challengeResponse", "needcdkey", "error",
            "connectResponse"}
ChallengeSlot == [adr : Remote \cup {NoAddr}, challenge : Number \cup {0},
                  time : Nat, firstTime : Nat, connected : BOOLEAN,
                  guid : HWID \cup {0}]
ClientSeat == [state : {"free", "zombie", "connected"},
               adr : Addr \cup {NoAddr}, qport : QPort \cup {0},
               challenge : Number \cup {0}, guid : HWID \cup {0},
               lastConnectTime : Nat]

(* The state of the handshake is well formed. *)
TypeOK ==
    /\ svs_time \in Nat
    /\ svs_challenges \in [Slot -> ChallengeSlot]
    /\ clients \in [Seat -> ClientSeat]
    /\ svs_authorizeAddress \in {"init", "resolved", "bad"}
    /\ permBanned \subseteq HWID /\ tempBanned \subseteq HWID
    /\ reply \in [to : Addr \cup {NoAddr}, msg : Message]
    /\ asked \subseteq (Number \cup {0}) \X Remote
    /\ issuedTo \in [Number \cup {0} -> Addr \cup {NoAddr}]
    /\ issuedAt \in [Number \cup {0} -> Nat]
    /\ told \subseteq (Number \cup {0}) \X (Remote \cup {NoAddr})
    /\ accepted \subseteq Number \cup {0}
    /\ denied \subseteq Number \cup {0}

Players == {k \in Seat : clients[k].state = "connected" /\ clients[k].adr \in Remote}

(* Every player on the server holds the number the server sent to exactly  *)
(* the player's address: knowing a number told to another address (another *)
(* port of the same machine, say) does not let anybody in.                 *)
PlayersWereTold ==
    \A k \in Players : <<clients[k].challenge, clients[k].adr>> \in told

(* A client is first told a number only if it is a LAN client, after the   *)
(* authorization server's accept, or more than AuthTimeout after that      *)
(* number was made: a recycled slot never makes a newcomer look as if it   *)
(* had waited.                                                             *)
ToldForAReason ==
    [][\A p \in told' \ told :
          \/ p[2] \in Lan /\ ~net_lanauthorize
          \/ p[1] \in accepted'
          \/ svs_time - issuedAt'[p[1]] > AuthTimeout]_vars

(* The table agrees with the history: an address and a number stand        *)
(* together in a slot only if the number was made for that address at the  *)
(* slot's firstTime and was not refused since; no two slots share a number *)
(* and a cleared slot has no address.  (When rand() does not repeat.)      *)
SlotMatchesHistory(slot) ==
    IF slot.challenge = 0
    THEN slot.adr = NoAddr
    ELSE /\ slot.adr \in Remote
         /\ issuedTo[slot.challenge] = slot.adr
         /\ issuedAt[slot.challenge] = slot.firstTime
         /\ slot.challenge \notin denied

TableMatchesHistory ==
    /\ \A i \in Slot : SlotMatchesHistory(svs_challenges[i])
    /\ \A i, j \in Slot :
          svs_challenges[i].challenge = svs_challenges[j].challenge
            => i = j \/ svs_challenges[i].challenge = 0

(* The packets under way are about numbers that were really made, each for *)
(* the address it was made for.                                            *)
PacketsMatchHistory ==
    /\ \A p \in asked \cup told : p[1] # 0 /\ p[2] \in Remote /\ issuedTo[p[1]] = p[2]
    /\ \A c \in accepted \cup denied : issuedTo[c] # NoAddr

HistoryInv == TableMatchesHistory /\ PacketsMatchHistory

Admits(k) ==
    /\ clients'[k] # clients[k]
    /\ clients'[k].state = "connected"
    /\ clients'[k].adr \in Remote

(* Once a refusal of a number was processed, no packet still under way     *)
(* (a delayed or repeated "connect", a late "accept") lets anybody in with *)
(* that number.                                                            *)
NoAdmissionAfterRefusal ==
    [][\A k \in Seat : Admits(k) => clients'[k].challenge \notin denied]_vars

(* A player is admitted under a hardware id that is neither 0 nor banned,  *)
(* whoever owned the challenge slot before: the ban check looks at the     *)
(* packet, the game takes the id from the slot.                            *)
AdmittedUnderUnbannedId ==
    [][\A k \in Seat : Admits(k) => /\ clients'[k].guid \in HWID
                                    /\ ~Banned(clients'[k].guid)]_vars

(* "send a packet back to the original client": an answer of the           *)
(* authorization server is passed on to the client it is about.            *)
AnswerReachesItsClient ==
    [][\A p \in asked, answer \in Answer :
          SV_AuthorizeIpPacket(p[1], p[2], answer) => reply'.to = p[2]]_vars

(* "loopback and bot clients don't need to challenge": a local "connect"   *)
(* leaves the challenge table alone.                                       *)
LocalConnectNeedsNoChallenge ==
    [][\A from \in Local, hwid \in HWID, q \in QPort :
          SV_DirectConnect(from, 118, APP_VERSION_PROTOCOL, hwid, 0, q)
            => UNCHANGED svs_challenges]_vars

-----------------------------------------------------------------------------
(* A client that repeats its request while the authorization server is     *)
(* silent, or cannot even be resolved, is let in after AuthTimeout, unless *)
(* its slot is taken away meanwhile.  (Only the requests that leave enough *)
(* time before the bound MaxTime.)                                         *)
HasSlot(a) == \E i \in Slot : svs_challenges[i].adr = a

WaitsInTime(a) ==
    \E i \in Slot : /\ svs_challenges[i].adr = a
                    /\ svs_challenges[i].firstTime + AuthTimeout < MaxTime

SilenceLetsIn ==
    \A a \in Remote \ Master :
        WaitsInTime(a) ~> \/ \E c \in Number : <<c, a>> \in told
                          \/ ~HasSlot(a)

\* Clients repeat an unanswered request; time passes.
FairSpec ==
    /\ Spec
    /\ WF_vars(Tick)
    /\ \A a \in Remote : WF_vars(SV_GetChallenge(a))

-----------------------------------------------------------------------------
(* The handshake implements AdmissionPolicy (with fresh numbers).          *)
TicketState(c) ==
    IF c \in denied THEN "void"
    ELSE IF \E p \in told : p[1] = c THEN "told"
    ELSE IF issuedTo[c] # NoAddr THEN "held"
    ELSE "unused"

Player(k) ==
    IF clients[k].state = "connected"
    THEN <<clients[k].adr, clients[k].challenge, clients[k].guid>>
    ELSE <<>>

Policy == INSTANCE AdmissionPolicy
    WITH madeFor <- [c \in Number |-> issuedTo[c]],
         ticket <- [c \in Number |-> TicketState(c)],
         seats <- [k \in Seat |-> Player(k)],
         banned <- permBanned \cup tempBanned

ImplementsPolicy == Policy!PolicySpec

=============================================================================
