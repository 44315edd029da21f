---------------------------- MODULE ClientFrame ----------------------------
(***************************************************************************)
(* What the Windows client does at the start of every frame: the frame     *)
(* rate limit (src/src/mss32/fps.cpp) and the rules of the server's version *)
(* (src/src/mss32/game.cpp), which both watch clientState from one frame   *)
(* to the next, between the events of the game that change it and the      *)
(* cvars.                                                                  *)
(*                                                                         *)
(* A frame is: fps_frame, game_frame, then the original Com_Frame, that is *)
(* console commands and packets in any order ("events"), and the client's  *)
(* own frame ("draw"), which moves on to a snapshot or the next part of a  *)
(* demo and executes the commands of the server.  Before the first frame   *)
(* Com_Init splits the command line.                                       *)
(*                                                                         *)
(* The events are those of the original game, read from its decompiled     *)
(* source.  CINEMATIC, AUTHORIZING and CONNECTING are not told from their  *)
(* neighbours.  Left out: errors in the middle of drawing, and what is     *)
(* printed.                                                                *)
(***************************************************************************)
EXTENDS CommandLine

CONSTANTS
    Protocol,           \* APP_VERSION_PROTOCOL
    MinFps, MaxFps,     \* 125 and 250
    OriginalMaxFps,     \* 1000
    FpsValues,          \* values of com_maxfps that are tried
    MaxText             \* bound on the length of the command line

ASSUME ClientAssumption ==
    /\ Protocol \in Nat \ {0}
    /\ MinFps \in Nat /\ MaxFps \in Nat /\ OriginalMaxFps \in Nat
    /\ MinFps <= MaxFps /\ MaxFps <= OriginalMaxFps
    /\ FpsValues \subseteq 0 .. OriginalMaxFps

\* clientState_e
DISCONNECTED == 0
CHALLENGING == 4
CONNECTED == 5
LOADING == 6
PRIMED == 7
ACTIVE == 8
ClientState == {DISCONNECTED, CHALLENGING, CONNECTED, LOADING, PRIMED, ACTIVE}

\* A server is known by the version it runs: 0 is the game without CoD2x.
Server == [version : 0 .. Protocol, own : BOOLEAN]
OwnServer == [version |-> Protocol, own |-> TRUE]
NoServer == [version |-> 0, own |-> TRUE]

Limits == [min : Nat, max : Nat]
Original == [min |-> 0, max |-> OriginalMaxFps]
Restricted == [min |-> MinFps, max |-> MaxFps]

VARIABLES
    phase,              \* where the main thread is
    commandLine,        \* the text, until it is split
    scanner,            \* where Com_ParseCommandLine is
    clientState,
    demo_isPlaying,
    server,             \* the server clientState is about
    com_sv_running,     \* a server runs in this process
    asked,              \* the client has sent what its state has to send
    com_maxfps_limit, g_cod2x,      \* cvars: value and modified
    com_maxfps, limits,             \* the cvar's value and its limits
    sv_cheats,
    clipFix,            \* the patch of common_fix_clip_bug is in
    fps_clientStateLast, game_clientStateLast,
    (* observation only: *)
    told,               \* g_cod2x was set by the server this client plays on
    swallowed           \* a demo took notice of the limit while it was in force

start == <<commandLine, scanner>>
connection == <<clientState, demo_isPlaying, server, com_sv_running, asked, told>>
fps == <<com_maxfps_limit, com_maxfps, limits, fps_clientStateLast, swallowed>>
game == <<g_cod2x, sv_cheats, clipFix, game_clientStateLast>>
vars == <<phase, start, connection, fps, game>>

\* fps_init and game_init ran before the command line is looked at.
Init ==
    /\ phase = "init"
    /\ \E n \in 0 .. MaxText : commandLine \in [1 .. n -> Char]
    /\ scanner = ScannerStart
    /\ clientState = DISCONNECTED /\ demo_isPlaying = FALSE
    /\ server = NoServer /\ com_sv_running = FALSE /\ asked = FALSE /\ told = FALSE
    /\ com_maxfps_limit = [value |-> FALSE, modified |-> FALSE]
    /\ com_maxfps \in FpsValues /\ limits = Original
    /\ fps_clientStateLast = DISCONNECTED /\ swallowed = FALSE
    /\ g_cod2x = [value |-> 0, modified |-> FALSE]
    /\ sv_cheats = FALSE /\ clipFix = FALSE
    /\ game_clientStateLast = -1

\* A Dvar_Set marks the cvar only if its value changes.
DvarSet(dvar, value) ==
    [value |-> value, modified |-> dvar.modified \/ dvar.value # value]

(***************************************************************************)
(* Start.                                                                  *)
(***************************************************************************)
text == StripOuterQuotes(commandLine)

ParseCommandLine ==
    /\ phase = "init" /\ phase' = "parse"
    /\ scanner' = ScannerStart
    /\ UNCHANGED <<commandLine, connection, fps, game>>

ParseNext ==
    /\ phase = "parse" /\ ~Scanned(text, scanner)
    /\ scanner' = Scan(text, scanner)
    /\ UNCHANGED <<phase, commandLine, connection, fps, game>>

Parsed ==
    /\ phase = "parse" /\ phase' = "started"
    /\ Scanned(text, scanner)
    /\ UNCHANGED <<start, connection, fps, game>>

\* The game executes the lines, and nothing reads them again.
FirstFrame ==
    /\ phase = "started" /\ phase' = "fps"
    /\ commandLine' = <<>> /\ scanner' = ScannerStart
    /\ UNCHANGED <<connection, fps, game>>

(***************************************************************************)
(* fps_frame.                                                              *)
(***************************************************************************)
\* In a demo the limit is switched off, and the rest of the frame skipped.
FpsFrame_Demo ==
    /\ phase = "fps" /\ phase' = "game"
    /\ com_maxfps_limit.modified /\ demo_isPlaying
    /\ com_maxfps_limit' = [value |-> FALSE, modified |-> com_maxfps_limit.value]
    /\ swallowed' = (swallowed \/ limits = Restricted)
    /\ UNCHANGED <<start, connection, game, com_maxfps, limits, fps_clientStateLast>>

\* Mutant: the new limits do not touch the value the player had.
ApplyLimit_KeepsValue ==
    IF com_maxfps_limit.modified
    THEN /\ limits' = IF com_maxfps_limit.value THEN Restricted ELSE Original
         /\ swallowed' = FALSE
         /\ UNCHANGED com_maxfps
    ELSE UNCHANGED <<limits, com_maxfps, swallowed>>

\* Mutant: only the lower limit is set.
ApplyLimit_MinOnly ==
    IF com_maxfps_limit.modified
    THEN /\ limits' = IF com_maxfps_limit.value THEN [limits EXCEPT !.min = MinFps] ELSE Original
         /\ com_maxfps' = IF com_maxfps_limit.value /\ com_maxfps \notin MinFps .. MaxFps
                          THEN MaxFps ELSE com_maxfps
         /\ swallowed' = FALSE
    ELSE UNCHANGED <<limits, com_maxfps, swallowed>>

ApplyLimit ==
    IF com_maxfps_limit.modified
    THEN /\ limits' = IF com_maxfps_limit.value THEN Restricted ELSE Original
         /\ com_maxfps' = IF com_maxfps_limit.value /\ com_maxfps \notin MinFps .. MaxFps
                          THEN MaxFps ELSE com_maxfps
         /\ swallowed' = FALSE
    ELSE UNCHANGED <<limits, com_maxfps, swallowed>>

\* Mutant: the flag is cleared after the limit is taken back, not before.
AfterDisconnect_Unmarked ==
    IF clientState # fps_clientStateLast /\ clientState = DISCONNECTED
    THEN [value |-> FALSE, modified |-> FALSE]
    ELSE [com_maxfps_limit EXCEPT !.modified = FALSE]

\* A client that is found disconnected takes the limit back; the next frame
\* will notice.
AfterDisconnect ==
    LET seen == [com_maxfps_limit EXCEPT !.modified = FALSE]
    IN  IF clientState # fps_clientStateLast /\ clientState = DISCONNECTED
        THEN DvarSet(seen, FALSE) ELSE seen

FpsFrame ==
    /\ phase = "fps" /\ phase' = "game"
    /\ ~(com_maxfps_limit.modified /\ demo_isPlaying)
    /\ ApplyLimit
    /\ com_maxfps_limit' = AfterDisconnect
    /\ fps_clientStateLast' = clientState
    /\ UNCHANGED <<start, connection, game>>

(***************************************************************************)
(* game_frame.                                                             *)
(***************************************************************************)
StateChanged == clientState # game_clientStateLast

\* Mutant: a server without CoD2x is not noticed.
VersionSeen_IgnoresLegacy ==
    IF g_cod2x.value > 0 /\ StateChanged /\ clientState <= CONNECTED
    THEN [value |-> 0, modified |-> TRUE]
    ELSE g_cod2x

\* g_cod2x after a change of the state: back to 0 when the client is no longer
\* on a server, and marked when it starts to play without a version.
VersionSeen ==
    IF g_cod2x.value > 0 /\ StateChanged /\ clientState <= CONNECTED
    THEN [value |-> 0, modified |-> TRUE]
    ELSE IF g_cod2x.value = 0 /\ StateChanged /\ clientState = ACTIVE
                /\ game_clientStateLast <= PRIMED
    THEN [value |-> 0, modified |-> TRUE]
    ELSE g_cod2x

GameFrame ==
    /\ phase = "game" /\ phase' = "events"
    /\ g_cod2x' = [VersionSeen EXCEPT !.modified = FALSE]
    /\ clipFix' = IF VersionSeen.modified THEN VersionSeen.value >= 1 ELSE clipFix
    /\ sv_cheats' = (sv_cheats \/ (StateChanged /\ clientState = DISCONNECTED))
    /\ game_clientStateLast' = clientState
    /\ UNCHANGED <<start, connection, fps>>

(***************************************************************************)
(* Commands and packets of the original game.                              *)
(***************************************************************************)
Event == phase = "events" /\ UNCHANGED <<phase, start>>

\* What CL_Disconnect leaves, before the caller sets another state.
Move(state, to, demo) ==
    /\ clientState' = state /\ server' = to /\ demo_isPlaying' = demo
    /\ asked' = FALSE /\ told' = FALSE

\* The command disconnect, an error or a server that goes: Com_ErrorCleanup ends
\* the own server too.
Disconnect ==
    /\ Event
    /\ clientState # DISCONNECTED \/ com_sv_running
    /\ Move(DISCONNECTED, NoServer, FALSE) /\ com_sv_running' = FALSE
    /\ UNCHANGED <<fps, game>>

CL_Connect_f ==
    /\ Event
    /\ \E s \in Server : ~s.own /\ Move(CHALLENGING, s, FALSE)
    /\ UNCHANGED <<com_sv_running, fps, game>>

\* The demo is read until the game would be loaded, or it is at its end.
CL_PlayDemo_f ==
    /\ Event
    /\ ~com_sv_running
    /\ \/ Move(PRIMED, NoServer, TRUE)
       \/ Move(DISCONNECTED, NoServer, FALSE)
    /\ UNCHANGED <<com_sv_running, fps, game>>

\* The commands map and devmap; CL_MapLoading makes this client join.
SV_SpawnServer ==
    /\ Event
    /\ clipFix' = TRUE
    /\ com_sv_running' = TRUE
    /\ IF clientState < CONNECTED \/ server # OwnServer
       THEN /\ clientState' = CHALLENGING /\ server' = OwnServer
            /\ demo_isPlaying' = FALSE /\ asked' = TRUE /\ told' = FALSE
       ELSE Move(CONNECTED, server, demo_isPlaying)
    /\ sv_cheats' \in BOOLEAN
    /\ UNCHANGED <<fps, g_cod2x, game_clientStateLast>>

\* connectResponse
Accepted ==
    /\ Event
    /\ clientState = CHALLENGING /\ asked
    /\ Move(CONNECTED, server, FALSE)
    /\ UNCHANGED <<com_sv_running, fps, game>>

\* The server announces another map; the packet may be lost.
LoadingNewMap ==
    /\ Event
    /\ clientState >= CONNECTED /\ ~demo_isPlaying
    /\ Move(CONNECTED, server, FALSE)
    /\ UNCHANGED <<com_sv_running, fps, game>>

\* The game state of a map: files are missing, or the client loads it, which on
\* the own server may wait for the server; the server says if it allows cheats.
GameState ==
    /\ Event
    /\ ~demo_isPlaying
    /\ clientState \in {PRIMED, ACTIVE} \/ (clientState = CONNECTED /\ asked)
    /\ \/ Move(CONNECTED, server, FALSE)
       \/ Move(PRIMED, server, FALSE)
       \/ com_sv_running /\ Move(LOADING, server, FALSE)
    /\ sv_cheats' \in BOOLEAN
    /\ UNCHANGED <<com_sv_running, fps, g_cod2x, clipFix, game_clientStateLast>>

Loaded ==
    /\ Event
    /\ clientState = LOADING
    /\ Move(PRIMED, server, FALSE)
    /\ UNCHANGED <<com_sv_running, fps, game>>

\* The player sets com_maxfps; values outside its limits are rejected.
SetMaxFps ==
    /\ Event
    /\ \E v \in FpsValues : v \in limits.min .. limits.max /\ com_maxfps' = v
    /\ UNCHANGED <<connection, game, com_maxfps_limit, limits, fps_clientStateLast, swallowed>>

EndEvents ==
    /\ phase = "events" /\ phase' = "draw"
    /\ UNCHANGED <<start, connection, fps, game>>

(***************************************************************************)
(* CL_Frame: the time of the game, then the commands of the server.        *)
(***************************************************************************)
\* CL_SetCGameTime: the first snapshot.
FirstSnapshot ==
    /\ phase = "draw" /\ clientState = PRIMED /\ clientState' = ACTIVE
    /\ UNCHANGED <<phase, start, fps, game, demo_isPlaying, server, com_sv_running, asked, told>>

\* CL_DemoCompleted, while the next part is read.
DemoCompleted ==
    /\ phase = "draw" /\ phase' = "fps"
    /\ demo_isPlaying /\ Move(DISCONNECTED, NoServer, FALSE)
    /\ UNCHANGED <<start, com_sv_running, fps, game>>

ServerCommand ==
    /\ phase = "draw" /\ phase' = "command" /\ clientState = ACTIVE
    /\ UNCHANGED <<start, connection, fps, game>>

\* SV_ClientBegin's command; a demo may hold that of any server.
SetClientVersion ==
    /\ phase = "command"
    /\ \E v \in 0 .. Protocol :
          /\ demo_isPlaying \/ (v = server.version /\ v > 0)
          /\ g_cod2x' = DvarSet(g_cod2x, v)
    /\ told' = ~demo_isPlaying
    /\ UNCHANGED <<phase, start, fps, sv_cheats, clipFix, game_clientStateLast,
                   clientState, demo_isPlaying, server, com_sv_running, asked>>

\* A mod's command, as recorded by a demo or from the server.
SetClientLimit ==
    /\ phase = "command"
    /\ \E on \in BOOLEAN : com_maxfps_limit' = DvarSet(com_maxfps_limit, on)
    /\ UNCHANGED <<phase, start, connection, game,
                   com_maxfps, limits, fps_clientStateLast, swallowed>>

\* The frame ends with what the client has to send.
EndFrame ==
    /\ phase \in {"draw", "command"} /\ phase' = "fps"
    /\ asked' = (clientState \in {CHALLENGING, CONNECTED})
    /\ UNCHANGED <<start, fps, game, clientState, demo_isPlaying, server, com_sv_running, told>>

Frame == FpsFrame_Demo \/ FpsFrame \/ GameFrame \/ EndEvents \/ EndFrame

Next ==
    \/ ParseCommandLine \/ ParseNext \/ Parsed \/ FirstFrame
    \/ Frame
    \/ Disconnect \/ CL_Connect_f \/ CL_PlayDemo_f \/ SV_SpawnServer
    \/ Accepted \/ LoadingNewMap \/ GameState \/ Loaded \/ SetMaxFps
    \/ FirstSnapshot \/ DemoCompleted
    \/ ServerCommand \/ SetClientVersion \/ SetClientLimit

Spec == Init /\ [][Next]_vars

\* Frames go on: a client that hangs is not the subject here.
FairSpec == Spec /\ WF_vars(Frame)

-----------------------------------------------------------------------------
(***************************************************************************)
(* Properties.                                                             *)
(***************************************************************************)
\* Every variable has its type.
TypeOK ==
    /\ phase \in {"init", "parse", "started", "fps", "game", "events", "draw", "command"}
    /\ commandLine \in Seq(Char)
    /\ scanner \in Scanner(text)
    /\ clientState \in ClientState /\ server \in Server
    /\ demo_isPlaying \in BOOLEAN /\ com_sv_running \in BOOLEAN
    /\ asked \in BOOLEAN /\ told \in BOOLEAN
    /\ com_maxfps_limit \in [value : BOOLEAN, modified : BOOLEAN]
    /\ com_maxfps \in 0 .. OriginalMaxFps /\ limits \in {Original, Restricted}
    /\ g_cod2x \in [value : 0 .. Protocol, modified : BOOLEAN]
    /\ sv_cheats \in BOOLEAN /\ clipFix \in BOOLEAN /\ swallowed \in BOOLEAN
    /\ fps_clientStateLast \in ClientState
    /\ game_clientStateLast \in ClientState \cup {-1}

\* The console lines are the text between the separators outside quotes, for
\* every text but one that begins and ends with different quoted parts, which
\* Com_ParseCommandLine takes for one quoted string.
CommandLineIsSplit ==
    phase = "started" /\ ~TwoQuotedParts(commandLine) =>
        com_consoleLines(text, scanner) = LinesOf(Unquoted(commandLine))

\* Once fps_frame has noticed the limit, no player runs outside of it, whatever
\* he had set before, sets now or plays in between.
LimitInForce ==
    com_maxfps_limit = [value |-> TRUE, modified |-> FALSE] =>
        limits = Restricted /\ com_maxfps \in MinFps .. MaxFps

\* Who plays moves by the rules of his server: without the fix for the clip bug on
\* a server without CoD2x, wherever he comes from and even if he ran a server
\* himself, and with it once game_frame has seen the server's version.
ClipFixIsServers ==
    phase = "events" /\ clientState = ACTIVE /\ ~demo_isPlaying =>
        /\ server.version = 0 => ~clipFix
        /\ told => clipFix

\* A client that stays disconnected gets the original limits back, unless a demo
\* took notice of the limit while it was in force: fps_frame then clears the flag
\* and leaves the limits as they are.
LimitIsLifted ==
    (clientState = DISCONNECTED /\ ~swallowed) ~>
        (clientState # DISCONNECTED \/ limits = Original)
=============================================================================
