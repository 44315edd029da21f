---------------------------- MODULE MasterServer ----------------------------
(***************************************************************************)
(* How a CoD2x server keeps in touch with its master servers               *)
(* (src/src/shared/server.cpp): the addresses behind the cvars sv_master1  *)
(* to sv_master3, the heartbeats and status packets that keep the server   *)
(* listed, the "getIp" question it repeats until it is answered, and the   *)
(* test whether a packet comes from a master server.                       *)
(*                                                                         *)
(* One thread does all this; it is driven by frames, packets, console      *)
(* commands and the start and stop of the server.  Time is in ticks.       *)
(*                                                                         *)
(* Left out: the texts of the packets; a status or heartbeat has no answer *)
(* the server would process.                                               *)
(***************************************************************************)
EXTENDS Integers

CONSTANTS
    MAX_MASTER_SERVERS,     \* 3 in the code
    Name,                   \* values of sv_master1.. other than ""
    SERVER_MASTER_URI,      \* the one of the CoD2x master server
    Host,                   \* Host[n]: the machine n resolves to, if it does
    Port,                   \* Port[n]: the port written in n, 0 if none is
    Client,                 \* machines that are no master servers
    FirstNames,             \* the values the game starts with
    dedicated,              \* 0: listen, 1: LAN, 2: internet server
    HEARTBEAT_MSEC, STATUS_MSEC,
    GETIP_DELAY,            \* 4 s: from the start of a map to the first getIp
    GETIP_RETRY,            \* 2 s: from one getIp to the next
    SETTLE,                 \* the frames SV_SpawnServer runs itself
    TimeWrap                \* svs_time at which the server is restarted

Masters == 0 .. MAX_MASTER_SERVERS - 1
SERVER_MASTER_PORT == 20710
NoName == ""

ASSUME MasterAssumption ==
    /\ MAX_MASTER_SERVERS \in Nat
    /\ NoName \notin Name
    /\ SERVER_MASTER_URI \in Name
    /\ DOMAIN Host = Name /\ DOMAIN Port = Name
    /\ Client \cap {Host[n] : n \in Name} = {}
    /\ FirstNames \in [Masters -> Name \cup {NoName}]
    /\ dedicated \in 0 .. 2
    /\ HEARTBEAT_MSEC \in Nat \ {0} /\ STATUS_MSEC \in Nat \ {0}
    /\ GETIP_DELAY \in Nat \ {0} /\ GETIP_RETRY \in Nat \ {0}
    /\ SETTLE \in Nat /\ TimeWrap \in Nat

VARIABLES
    running,                        \* com_sv_running
    svs_time,
    svs_nextHeartbeatTime, svs_nextStatusResponseTime, nextIPTime,
    sv_master,                      \* sv_master[i]: its value and modified
    masterServerAddr,
    sent,                           \* packets of the last step to masters:
                                    \* <<kind, i, address>>
    (* observation only: *)
    asked,                          \* addresses a "getIp" went to
    knowsIp,                        \* a master answered since the last start
    listening,                      \* masters that list this server under
                                    \* the current value of their cvar
    quiet, unasked                  \* frames since master i could be reached
                                    \* and last got a heartbeat, a "getIp"

timers == <<svs_nextHeartbeatTime, svs_nextStatusResponseTime, nextIPTime>>
vars == <<running, svs_time, svs_nextHeartbeatTime, svs_nextStatusResponseTime,
          nextIPTime, sv_master, masterServerAddr, sent, asked, knowsIp,
          listening, quiet, unasked>>

\* The two types of netaddr_s that denote no machine.
NA_INIT == <<"init">>
NA_BAD == <<"bad">>

Init ==
    /\ running = FALSE /\ svs_time = 0
    /\ svs_nextHeartbeatTime = 0 /\ svs_nextStatusResponseTime = 0
    /\ nextIPTime = 0
    /\ sv_master = [i \in Masters |-> [string |-> FirstNames[i], modified |-> FALSE]]
    /\ masterServerAddr = [i \in Masters |-> NA_INIT]
    /\ sent = {} /\ asked = {} /\ knowsIp = FALSE /\ listening = {}
    /\ quiet = [i \in Masters |-> 0] /\ unasked = [i \in Masters |-> 0]

(***************************************************************************)
(* Addresses.                                                              *)
(***************************************************************************)
\* strstr(":", n) looks for n in ":", not for ":" in n: only the names "" and
\* ":" keep the port they were resolved with.
PortOf(n) == IF n \in {"", ":"} THEN Port[n] ELSE SERVER_MASTER_PORT

\* An empty name is never resolved to a machine; any other may fail to be.
Resolutions(n) ==
    {NA_BAD} \cup (IF n \in Name THEN {<<"ip", Host[n], PortOf(n)>>} ELSE {})

\* Mutant: a changed cvar is resolved only if it never was.
NeedsResolving_Once(i) == masterServerAddr[i] = NA_INIT

NeedsResolving(i) == masterServerAddr[i] = NA_INIT \/ sv_master[i].modified

\* What SV_MasterAddress(i) may return for each i.
Lookups ==
    {r \in [Masters -> UNION {Resolutions(sv_master[i].string) : i \in Masters}
                         \cup {masterServerAddr[i] : i \in Masters}] :
       \A i \in Masters : r[i] \in IF NeedsResolving(i)
                                   THEN Resolutions(sv_master[i].string)
                                   ELSE {masterServerAddr[i]}}

\* SV_MasterAddress(i) was called for the i in I and returned r[i].
SV_MasterAddress(I, r) ==
    /\ masterServerAddr' =
         [i \in Masters |-> IF i \in I THEN r[i] ELSE masterServerAddr[i]]
    /\ sv_master' =
         [i \in Masters |-> IF i \in I /\ NeedsResolving(i)
                            THEN [sv_master[i] EXCEPT !.modified = FALSE]
                            ELSE sv_master[i]]

IsAt(address, machine) == address[1] = "ip" /\ address[2] = machine

\* server_isAddressMasterServer looks the masters up one after the other and
\* stops at the first one that is at the machine.
LookedUp(machine, r) ==
    {i \in Masters : \A j \in Masters : j < i => ~IsAt(r[j], machine)}

server_isAddressMasterServer(machine, r) == \E i \in Masters : IsAt(r[i], machine)

(***************************************************************************)
(* SV_MasterHeartbeat, at the end of a frame and when the server stops:    *)
(* time is the clock, next the due time of the heartbeat.                  *)
(***************************************************************************)
\* Mutant: an empty slot ends the loop instead of being skipped.
Listed_UpToEmpty ==
    {i \in Masters : \A j \in 0 .. i : sv_master[j].string # NoName}

\* The masters that are sent heartbeats.
Listed == {i \in Masters : sv_master[i].string # NoName}

CoD2xMasters == {i \in Masters : sv_master[i].string = SERVER_MASTER_URI}

\* Mutant: the packet is sent although the name could not be resolved.
Packets_Unchecked(kind, I, r) == {<<kind, i, r[i]>> : i \in I}

\* An address that could not be resolved is skipped.
Packets(kind, I, r) == {<<kind, i, r[i]>> : i \in {j \in I : r[j] # NA_BAD}}

\* Mutant: a due time is pushed on whether or not the packet was due.
After_Always(due, next, time, period) == time + period

After(due, next, time, period) == IF due THEN time + period ELSE next

HeartbeatDue(time, next) == dedicated = 2 /\ time >= next
StatusDue(time) == dedicated = 2 /\ time >= svs_nextStatusResponseTime
GetIpDue(time) == dedicated = 2 /\ time >= nextIPTime /\ nextIPTime > 0

SV_MasterHeartbeat(hbname, time, next) ==
    \E r \in Lookups :
        LET listed == IF HeartbeatDue(time, next) \/ StatusDue(time)
                      THEN Listed ELSE {}
            answering == IF GetIpDue(time) THEN CoD2xMasters ELSE {}
            heartbeats == IF HeartbeatDue(time, next)
                          THEN Packets(hbname, listed, r) ELSE {}
            questions == Packets("getIp", answering, r)
        IN /\ SV_MasterAddress(listed \cup answering, r)
           /\ nextIPTime' = After(GetIpDue(time), nextIPTime, time, GETIP_RETRY)
           /\ sent' = heartbeats \cup questions
                        \cup (IF StatusDue(time) THEN Packets("status", listed, r)
                                                 ELSE {})
           /\ asked' = asked \cup {p[3] : p \in questions}
           /\ listening' = IF hbname = "COD-2"
                           THEN listening \cup {p[2] : p \in heartbeats}
                           ELSE {}

(***************************************************************************)
(* What drives it.                                                         *)
(***************************************************************************)
Reachable(i) == /\ running /\ i \in Listed
                /\ IsAt(masterServerAddr[i], Host[sv_master[i].string])
                /\ ~sv_master[i].modified

MayBeAsked(i) == Reachable(i) /\ i \in CoD2xMasters /\ nextIPTime > 0

Got(kind, i) == \E p \in sent : p[1] = kind /\ p[2] = i

\* After the rest of a step: it took so many frames.
Waited(frames) ==
    /\ quiet' = [i \in Masters |-> IF Reachable(i)' /\ ~Got("COD-2", i)'
                                    THEN quiet[i] + frames ELSE 0]
    /\ unasked' = [i \in Masters |-> IF MayBeAsked(i)' /\ ~Got("getIp", i)'
                                      THEN unasked[i] + frames ELSE 0]

\* SV_Heartbeat_f makes the heartbeat due since INT_MIN.
AtOnce == -1

\* SV_Frame, as far as it concerns the masters.
Frame ==
    /\ running /\ svs_time < TimeWrap
    /\ svs_time' = svs_time + 1
    /\ SV_MasterHeartbeat("COD-2", svs_time', svs_nextHeartbeatTime)
    /\ svs_nextHeartbeatTime' =
         After(HeartbeatDue(svs_time', svs_nextHeartbeatTime),
               svs_nextHeartbeatTime, svs_time', HEARTBEAT_MSEC)
    /\ svs_nextStatusResponseTime' =
         After(StatusDue(svs_time'), svs_nextStatusResponseTime, svs_time',
               STATUS_MSEC)
    /\ UNCHANGED <<running, knowsIp>>
    /\ Waited(1)

\* The first or last client comes or goes, or the "heartbeat" command.
SV_Heartbeat_f ==
    /\ running
    /\ svs_nextHeartbeatTime' = AtOnce
    /\ sent' = {}
    /\ UNCHANGED <<running, svs_time, svs_nextStatusResponseTime, nextIPTime,
                   sv_master, masterServerAddr, asked, knowsIp, listening>>
    /\ Waited(0)

\* A map is started: a few frames of the game run inside, none of them calls
\* SV_MasterHeartbeat.  The time wrap is noticed by the frames.  (quiet is 0
\* if the server was not running, unasked counts from the start of the map.)
SV_SpawnServer ==
    /\ svs_time < TimeWrap
    /\ running' = TRUE
    /\ svs_time' = svs_time + SETTLE
    /\ svs_nextHeartbeatTime' = AtOnce
    /\ nextIPTime' = svs_time' + GETIP_DELAY
    /\ sent' = {}
    /\ knowsIp' = FALSE
    /\ unasked' = [i \in Masters |-> 0]
    /\ UNCHANGED <<svs_nextStatusResponseTime, sv_master, masterServerAddr,
                   asked, listening, quiet>>

\* Goodbye is said, then svs is wiped; nextIPTime is no part of it.
SV_Shutdown ==
    /\ running
    /\ SV_MasterHeartbeat("flatline", svs_time, AtOnce)
    /\ running' = FALSE
    /\ svs_time' = 0
    /\ svs_nextHeartbeatTime' = 0 /\ svs_nextStatusResponseTime' = 0
    /\ UNCHANGED knowsIp
    /\ Waited(0)

\* SV_Frame restarts a server whose clock is about to wrap.
TimeWraps == svs_time >= TimeWrap /\ SV_Shutdown

\* The administrator sets a cvar.
SetMaster(i, n) ==
    /\ n # sv_master[i].string
    /\ sv_master' = [sv_master EXCEPT ![i] = [string |-> n, modified |-> TRUE]]
    /\ sent' = {}
    /\ listening' = listening \ {i}
    /\ UNCHANGED <<running, svs_time, timers, masterServerAddr, asked, knowsIp>>
    /\ Waited(0)

\* "getIpResponse" from a machine that was asked, however long ago.
GetIpResponse(machine) ==
    /\ running
    /\ nextIPTime' = 0
    /\ \E r \in Lookups :
         /\ SV_MasterAddress(LookedUp(machine, r), r)
         /\ knowsIp' = (knowsIp \/ server_isAddressMasterServer(machine, r))
    /\ sent' = {}
    /\ UNCHANGED <<running, svs_time, svs_nextHeartbeatTime,
                   svs_nextStatusResponseTime, asked, listening>>
    /\ Waited(0)

\* SV_GetChallenge asks whether a client that waited long is a master server.
AskIfMaster(machine) ==
    /\ running
    /\ \E r \in Lookups : SV_MasterAddress(LookedUp(machine, r), r)
    /\ sent' = {}
    /\ UNCHANGED <<running, svs_time, timers, asked, knowsIp, listening>>
    /\ Waited(0)

Next ==
    \/ Frame \/ SV_Heartbeat_f \/ SV_SpawnServer \/ SV_Shutdown
    \/ \E i \in Masters, n \in Name \cup {NoName} : SetMaster(i, n)
    \/ \E a \in asked : GetIpResponse(a[2])
    \/ \E c \in Client : AskIfMaster(c)

Spec == Init /\ [][Next]_vars

-----------------------------------------------------------------------------
Known == {<<"ip", Host[n], PortOf(n)>> : n \in Name}
Address == {NA_INIT, NA_BAD} \cup Known
MasterPacket == {"COD-2", "flatline", "status", "getIp"} \X Masters \X Known

(* The state is well formed; packets go to addresses that were resolved. *)
TypeOK ==
    /\ running \in BOOLEAN
    /\ svs_time \in Nat
    /\ svs_nextHeartbeatTime \in Nat \cup {AtOnce}
    /\ svs_nextStatusResponseTime \in Nat /\ nextIPTime \in Nat
    /\ sv_master \in [Masters -> [string : Name \cup {NoName}, modified : BOOLEAN]]
    /\ masterServerAddr \in [Masters -> Address]
    /\ sent \subseteq MasterPacket
    /\ asked \subseteq Known
    /\ knowsIp \in BOOLEAN
    /\ listening \subseteq Masters
    /\ quiet \in [Masters -> Nat] /\ unasked \in [Masters -> Nat]

(* Whoever resolves it first (a heartbeat, a client that waited long, an   *)
(* answer to getIp), an address that is not marked as outdated belongs to  *)
(* the current value of the cvar.                                          *)
AddressesFresh ==
    \A i \in Masters :
        ~sv_master[i].modified =>
            masterServerAddr[i] \in {NA_INIT} \cup Resolutions(sv_master[i].string)

(* Heartbeats, status packets and questions go to the machine the cvar     *)
(* names now, never to one it named before.                                *)
SentToCurrentMaster ==
    \A p \in sent : /\ sv_master[p[2]].string # NoName
                    /\ IsAt(p[3], Host[sv_master[p[2]].string])

(* However the server is stopped and started, maps change and the clock    *)
(* starts over: while it runs, nothing it owes the masters is further away *)
(* than its period.                                                        *)
TimersWithinPeriod ==
    running => /\ svs_nextHeartbeatTime <= svs_time + HEARTBEAT_MSEC
               /\ svs_nextStatusResponseTime <= svs_time + STATUS_MSEC
               /\ \/ nextIPTime <= svs_time + GETIP_DELAY
                  \/ nextIPTime <= svs_time + GETIP_RETRY

(* A server that stops says goodbye to every master that lists it under    *)
(* the current value of its cvar.                                          *)
GoodbyeToListening ==
    [][running /\ ~running' =>
         \A i \in listening : \E p \in sent' : p[1] = "flatline" /\ p[2] = i]_vars

(* A running internet server keeps being listed: a master whose address is *)
(* known is never without a heartbeat for longer than the period, whatever *)
(* happens in between.                                                     *)
KeepsListed ==
    dedicated = 2 =>
        \A i \in Masters : Reachable(i) => quiet[i] <= HEARTBEAT_MSEC

(* While the server does not know its address, the CoD2x master is asked   *)
(* for it again and again.                                                 *)
QuestionIsRepeated ==
    dedicated = 2 =>
        \A i \in Masters : MayBeAsked(i) => \/ unasked[i] <= GETIP_DELAY
                                            \/ unasked[i] <= GETIP_RETRY

=============================================================================
