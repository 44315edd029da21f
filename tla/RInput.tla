------------------------------- MODULE RInput -------------------------------
(***************************************************************************)
(* Raw mouse input of the Windows client (src/src/mss32/rinput.cpp, called *)
(* from the mouse loop and the window procedure of window.cpp).            *)
(*                                                                         *)
(* The latched cvar m_rinput chooses nothing (0), a thread with a hidden   *)
(* window of its own (1), or the window of the game (2).  The mouse loop   *)
(* of the main thread changes from one to the other, takes the movement    *)
(* collected since the last frame and measures the input rate.  The main   *)
(* window, and with it what is registered for it, is replaced by           *)
(* vid_restart.                                                            *)
(*                                                                         *)
(* One axis is modelled, every input moves the mouse by one, and whether   *)
(* the 100 ms between two measurements are over is chosen freely.          *)
(***************************************************************************)
EXTENDS Integers, Functions

CONSTANTS
    NULL,
    SAMPLE_COUNT,       \* measurements the input rate is the sum of
    MaxInput            \* bound on the inputs received

ASSUME RInputAssumption ==
    /\ SAMPLE_COUNT \in Nat \ {0} /\ MaxInput \in Nat
    /\ NULL \notin {"thread", "input", "game"}

Method == 0 .. 2
Window == {"input", "game"}

VARIABLES
    m_rinput,           \* the cvar: value and latchedValue
    rinput_x, rinput_cnt,
    inside,             \* threads that are inside the critical section
    main,               \* where the main thread is
    taken,              \* local of Mouse_ProcessMovement
    thread,             \* where the input thread is
    read,               \* the old rinput_x, while the input thread adds to it
    rinput_thread_handle, rinput_window_hwnd,
    rinput_activated, rinput_error,
    samples,            \* rinput_inputSamples, rinput_sampleIndex,
                        \* rinput_totalInputCount, rinput_lastTotalCount
    rate,               \* the cvars m_rinput_hz and m_rinput_hz_max
    class,              \* the class "CoD2_Rinput" is registered
    target,             \* the window registered for raw input
    queue,              \* WM_INPUT messages waiting for each window
    quit,               \* threads WM_QUIT was posted to
    otherRinput,        \* the external Rinput application runs
    (* observation only: *)
    used,               \* movement applied or thrown away
    refused             \* the last attempt to register failed

input == <<rinput_x, rinput_cnt, inside, taken, read, used>>
start == <<rinput_thread_handle, rinput_activated, rinput_error>>
os == <<class, target, queue, quit, rinput_window_hwnd>>
vars == <<m_rinput, input, main, thread, start, samples, rate, os, otherRinput,
          refused>>

Init ==
    /\ m_rinput = [integer |-> 0, latchedValue |-> 0]
    /\ rinput_x = 0 /\ rinput_cnt = 0 /\ inside = {} /\ taken = 0 /\ read = 0
    /\ main = "frame" /\ thread = "none"
    /\ rinput_thread_handle = NULL /\ rinput_window_hwnd = NULL
    /\ rinput_activated = FALSE /\ rinput_error = FALSE
    /\ samples = [last  |-> [i \in 0 .. SAMPLE_COUNT - 1 |-> 0],
                  index |-> 0, total |-> 0, seen |-> 0]
    /\ rate = [hz |-> 0, max |-> 0]
    /\ class = FALSE /\ target = NULL /\ queue = [w \in Window |-> 0] /\ quit = {}
    /\ otherRinput \in BOOLEAN
    /\ used = 0 /\ refused = FALSE

Enter(p) == inside = {} /\ inside' = {p}
Leave(p) == inside' = inside \ {p}

\* What waits for a window is lost with it, and so is its registration.
WindowGone(w) ==
    /\ queue' = [queue EXCEPT ![w] = 0]
    /\ target' = IF target = w THEN NULL ELSE target

(***************************************************************************)
(* The input thread (rinput_thread).                                       *)
(***************************************************************************)
ThreadStep(from, to) ==
    /\ main # "ended"
    /\ thread = from /\ thread' = to
    /\ UNCHANGED <<m_rinput, main, taken, used, rinput_thread_handle, samples, rate,
                   otherRinput, refused>>

RegisterClass ==
    /\ \/ ~class /\ class' = TRUE /\ ThreadStep("class", "window")
       \/ class' = class /\ ThreadStep("class", "report")
    /\ UNCHANGED <<rinput_x, rinput_cnt, inside, read, rinput_activated,
                   rinput_error, target, queue, quit, rinput_window_hwnd>>

CreateInputWindow ==
    /\ \/ rinput_window_hwnd' = "input" /\ ThreadStep("window", "device")
       \/ rinput_window_hwnd' = NULL /\ ThreadStep("window", "cleanup")
    /\ UNCHANGED <<rinput_x, rinput_cnt, inside, read, rinput_activated,
                   rinput_error, class, target, queue, quit>>

RegisterInputDevice ==
    /\ \/ target' = "input" /\ ThreadStep("device", "activate")
       \/ target' = target /\ ThreadStep("device", "cleanup")
    /\ UNCHANGED <<rinput_x, rinput_cnt, inside, read, rinput_activated,
                   rinput_error, class, queue, quit, rinput_window_hwnd>>

\* A failure takes back what succeeded.
CleanUp ==
    /\ ThreadStep("cleanup", "report")
    /\ WindowGone("input")
    /\ rinput_window_hwnd' = NULL
    /\ class' = FALSE
    /\ UNCHANGED <<rinput_x, rinput_cnt, inside, read, rinput_activated,
                   rinput_error, quit>>

\* Mutant: the failure is not reported.
Report_Forgotten ==
    /\ ThreadStep("report", "done")
    /\ UNCHANGED <<rinput_x, rinput_cnt, inside, read, rinput_activated,
                   rinput_error, os>>

Report ==
    /\ ThreadStep("report", "done")
    /\ rinput_error' = TRUE
    /\ UNCHANGED <<rinput_x, rinput_cnt, inside, read, rinput_activated, os>>

Activate ==
    /\ ThreadStep("activate", "loop")
    /\ rinput_activated' = TRUE
    /\ UNCHANGED <<rinput_x, rinput_cnt, inside, read, rinput_error, os>>

\* rinput_wm_input in the input thread: the sum is read, then written.
BeginAdd ==
    /\ ThreadStep("loop", "add")
    /\ queue["input"] > 0
    /\ queue' = [queue EXCEPT !["input"] = @ - 1]
    /\ Enter("thread")
    /\ read' = rinput_x
    /\ UNCHANGED <<rinput_x, rinput_cnt, rinput_activated, rinput_error,
                   class, target, quit, rinput_window_hwnd>>

EndAdd ==
    /\ ThreadStep("add", "loop")
    /\ rinput_x' = read + 1 /\ rinput_cnt' = rinput_cnt + 1
    /\ read' = 0
    /\ Leave("thread")
    /\ UNCHANGED <<rinput_activated, rinput_error, os>>

ThreadQuits ==
    /\ "thread" \in quit
    /\ ThreadStep("loop", "done")
    /\ quit' = quit \ {"thread"}
    /\ WindowGone("input")
    /\ rinput_window_hwnd' = NULL /\ class' = FALSE
    /\ UNCHANGED <<rinput_x, rinput_cnt, inside, read, rinput_activated,
                   rinput_error>>

InputThread ==
    \/ RegisterClass \/ CreateInputWindow \/ RegisterInputDevice \/ CleanUp
    \/ Report \/ Activate \/ BeginAdd \/ EndAdd \/ ThreadQuits

(***************************************************************************)
(* The mouse loop of the main thread: it leaves, takes and tells.          *)
(***************************************************************************)
MainStep(from, to) == main = from /\ main' = to

\* Where rinput_mouse_loop goes on after rinput_unregister.
Chosen == IF m_rinput.latchedValue > 0 THEN "register" ELSE "set"

BeginMouseLoop ==
    /\ IF m_rinput.latchedValue # m_rinput.integer
       THEN MainStep("frame", "unregister") /\ rate' = [hz |-> 0, max |-> 0]
       ELSE MainStep("frame", "measure") /\ UNCHANGED rate
    /\ UNCHANGED <<m_rinput, input, thread, start, samples, os, otherRinput, refused>>

\* A message posted to no window goes to the queue of the calling thread.
PostQuit ==
    quit' = quit \cup {IF rinput_window_hwnd = NULL THEN "main" ELSE "thread"}

\* rinput_unregister.  The result of removing the game's window is ignored.
Unregister ==
    /\ \/ m_rinput.integer = 0 /\ MainStep("unregister", Chosen)
          /\ UNCHANGED <<quit, target>>
       \/ m_rinput.integer = 1 /\ MainStep("unregister", "join")
          /\ PostQuit /\ UNCHANGED target
       \/ m_rinput.integer = 2 /\ MainStep("unregister", Chosen)
          /\ target' \in {target, NULL} /\ UNCHANGED quit
    /\ UNCHANGED <<m_rinput, input, thread, start, samples, rate, class, queue,
                   rinput_window_hwnd, otherRinput, refused>>

\* WaitForSingleObject on no handle fails at once.
JoinInputThread(to) ==
    /\ rinput_thread_handle # NULL => thread = "done"
    /\ rinput_thread_handle' = NULL
    /\ main' = to
    /\ UNCHANGED <<input, thread, rinput_activated, rinput_error, samples, rate,
                   class, quit, rinput_window_hwnd, otherRinput, refused>>

Joined ==
    /\ main = "join" /\ JoinInputThread(Chosen)
    /\ UNCHANGED <<m_rinput, target, queue>>

\* rinput_register begins with rinput_reset_offset.
ResetOffset ==
    /\ MainStep("register", "find")
    /\ inside = {}
    /\ rinput_x' = 0 /\ used' = used + rinput_x
    /\ UNCHANGED <<m_rinput, rinput_cnt, inside, taken, read, thread, start, samples,
                   rate, os, otherRinput, refused>>

\* Com_Error(ERR_DROP) leaves the frame.  Dvar_SetBool changes nothing: the
\* "0" it passes for a cvar that is a number is not in the cvar's domain.
Drop == main' = "frame" /\ refused' = TRUE

FindOtherRinput ==
    /\ main = "find" /\ otherRinput /\ Drop
    /\ UNCHANGED <<m_rinput, input, thread, start, samples, rate, os, otherRinput>>

CreateInputThread ==
    /\ MainStep("find", "wait")
    /\ ~otherRinput /\ m_rinput.latchedValue = 1
    /\ rinput_activated' = FALSE /\ rinput_error' = FALSE
    /\ \/ thread' = "class" /\ rinput_thread_handle' = "thread"
       \/ rinput_thread_handle' = NULL /\ UNCHANGED thread
    /\ UNCHANGED <<m_rinput, input, samples, rate, os, otherRinput, refused>>

Activated ==
    /\ main = "wait"
    /\ \/ rinput_error /\ Drop
       \/ ~rinput_error /\ rinput_activated /\ main' = "set" /\ UNCHANGED refused
    /\ UNCHANGED <<m_rinput, input, thread, start, samples, rate, os, otherRinput>>

\* Mutant: a failure does not leave the frame.
RegisterGameWindow_GoesOn ==
    /\ MainStep("find", "set")
    /\ ~otherRinput /\ m_rinput.latchedValue = 2
    /\ target' \in {"game", target}
    /\ UNCHANGED <<m_rinput, input, thread, start, samples, rate, class, queue, quit,
                   rinput_window_hwnd, otherRinput, refused>>

RegisterGameWindow ==
    /\ main = "find" /\ ~otherRinput /\ m_rinput.latchedValue = 2
    /\ \/ target' = "game" /\ main' = "set" /\ UNCHANGED refused
       \/ target' = target /\ Drop
    /\ UNCHANGED <<m_rinput, input, thread, start, samples, rate, class, queue, quit,
                   rinput_window_hwnd, otherRinput>>

SetValue ==
    /\ MainStep("set", "measure")
    /\ m_rinput' = [m_rinput EXCEPT !.integer = m_rinput.latchedValue]
    /\ refused' = FALSE
    /\ UNCHANGED <<input, thread, start, samples, rate, os, otherRinput>>

\* Mutant: the index runs past the last sample.
NextSample_Past(i) == (i + 1) % (SAMPLE_COUNT + 1)

NextSample(i) == (i + 1) % SAMPLE_COUNT

\* The oldest sample leaves the total; a pause in the movement clears it.
NewTotal(new) ==
    IF new = 0 THEN 0 ELSE samples.total - samples.last[samples.index] + new

\* The input rate is measured, if 100 ms are over.
Measure ==
    /\ MainStep("measure", "mouse")
    /\ \/ m_rinput.integer > 0 /\ inside = {}
          /\ LET new == rinput_cnt - samples.seen
                 total == NewTotal(new)
             IN  /\ samples' =
                      [last  |-> IF new = 0 THEN [i \in DOMAIN samples.last |-> 0]
                                 ELSE [samples.last EXCEPT ![samples.index] = new],
                       index |-> NextSample(samples.index),
                       total |-> total, seen |-> rinput_cnt]
                 /\ rate' = [hz  |-> total,
                             max |-> IF total > rate.max THEN total ELSE rate.max]
       \/ UNCHANGED <<samples, rate>>
    /\ UNCHANGED <<m_rinput, input, thread, start, os, otherRinput, refused>>

\* Mutant: the movement is taken without the lock.
BeginTake_Unlocked ==
    /\ MainStep("mouse", "take")
    /\ m_rinput.integer > 0
    /\ taken' = rinput_x
    /\ UNCHANGED <<m_rinput, rinput_x, rinput_cnt, inside, read, used, thread, start,
                   samples, rate, os, otherRinput, refused>>

\* Mouse_ProcessMovement and rinput_get_last_offset: the sum is read and
\* then cleared.
BeginTake ==
    /\ MainStep("mouse", "take")
    /\ m_rinput.integer > 0
    /\ Enter("main")
    /\ taken' = rinput_x
    /\ UNCHANGED <<m_rinput, rinput_x, rinput_cnt, read, used, thread, start,
                   samples, rate, os, otherRinput, refused>>

EndTake ==
    /\ MainStep("take", "frame")
    /\ rinput_x' = 0
    /\ Leave("main")
    /\ used' = used + taken /\ taken' = 0
    /\ UNCHANGED <<m_rinput, rinput_cnt, read, thread, start, samples, rate, os,
                   otherRinput, refused>>

\* Raw input is off, or the mouse does not move the view at the moment.
NothingTaken ==
    /\ MainStep("mouse", "frame")
    /\ UNCHANGED <<m_rinput, input, thread, start, samples, rate, os, otherRinput,
                   refused>>

(***************************************************************************)
(* The rest of the frame, and the world.                                   *)
(***************************************************************************)
\* The player, or the configuration file.
SetLatched ==
    /\ main = "frame"
    /\ \E m \in Method : m_rinput' = [m_rinput EXCEPT !.latchedValue = m]
    /\ UNCHANGED <<input, main, thread, start, samples, rate, os, otherRinput, refused>>

\* CoD2WindowProc passes WM_INPUT to rinput_wm_input.
GameWindowInput ==
    /\ main = "frame" /\ queue["game"] > 0
    /\ inside = {}
    /\ queue' = [queue EXCEPT !["game"] = @ - 1]
    /\ rinput_x' = rinput_x + 1 /\ rinput_cnt' = rinput_cnt + 1
    /\ UNCHANGED <<m_rinput, inside, main, taken, read, used, thread, start, samples,
                   rate, class, target, quit, rinput_window_hwnd, otherRinput, refused>>

\* Mutant: the cvar keeps its value when the window is destroyed.
Suspended_KeepsValue ==
    m_rinput' = [m_rinput EXCEPT !.latchedValue = m_rinput.integer]

Suspended ==
    m_rinput' = [latchedValue |-> m_rinput.integer, integer |-> 0]

\* vid_restart destroys the window, rinput_on_main_window_destory.
DestroyWindow ==
    /\ \/ /\ m_rinput.integer = 0 /\ MainStep("frame", "frame")
          /\ WindowGone("game") /\ UNCHANGED <<m_rinput, quit>>
       \/ /\ m_rinput.integer = 1 /\ MainStep("frame", "destroy")
          /\ PostQuit /\ UNCHANGED <<m_rinput, target, queue>>
       \/ /\ m_rinput.integer = 2 /\ MainStep("frame", "frame")
          /\ Suspended
          /\ WindowGone("game") /\ UNCHANGED quit
    /\ UNCHANGED <<input, thread, start, samples, rate, class, rinput_window_hwnd,
                   otherRinput, refused>>

DestroyJoined ==
    /\ main = "destroy" /\ JoinInputThread("frame")
    /\ Suspended
    /\ WindowGone("game")

MouseMoves ==
    /\ main # "ended" /\ target # NULL
    /\ rinput_cnt + (IF thread = "add" THEN 1 ELSE 0)
         + queue["input"] + queue["game"] < MaxInput
    /\ queue' = [queue EXCEPT ![target] = @ + 1]
    /\ UNCHANGED <<m_rinput, input, main, thread, start, samples, rate, class, target,
                   quit, rinput_window_hwnd, otherRinput, refused>>

OtherRinput ==
    /\ main # "ended"
    /\ otherRinput' = ~otherRinput
    /\ UNCHANGED <<m_rinput, input, main, thread, start, samples, rate, os, refused>>

\* WM_QUIT in the queue of the main thread ends the game.
GameQuits ==
    /\ "main" \in quit /\ MainStep("frame", "ended")
    /\ UNCHANGED <<m_rinput, input, thread, start, samples, rate, os, otherRinput,
                   refused>>

MouseLoop ==
    \/ Unregister \/ Joined \/ ResetOffset \/ FindOtherRinput \/ CreateInputThread
    \/ Activated \/ RegisterGameWindow \/ SetValue \/ Measure \/ BeginTake \/ EndTake
    \/ NothingTaken

Next ==
    \/ InputThread \/ BeginMouseLoop \/ MouseLoop
    \/ SetLatched \/ GameWindowInput \/ DestroyWindow \/ DestroyJoined
    \/ MouseMoves \/ OtherRinput \/ GameQuits

Spec == Init /\ [][Next]_vars

\* The threads run; a message posted to the input thread is read before the
\* input that waits for it.
FairSpec ==
    /\ Spec
    /\ WF_vars(InputThread) /\ WF_vars(ThreadQuits)
    /\ WF_vars(MouseLoop) /\ WF_vars(DestroyJoined)

-----------------------------------------------------------------------------
(* The state is well formed. *)
TypeOK ==
    /\ m_rinput \in [integer : Method, latchedValue : Method]
    /\ rinput_x \in 0 .. MaxInput /\ rinput_cnt \in 0 .. MaxInput
    /\ taken \in 0 .. MaxInput /\ read \in 0 .. MaxInput /\ used \in 0 .. MaxInput
    /\ inside \in SUBSET {"main", "thread"}
    /\ main \in {"frame", "unregister", "join", "register", "find", "wait", "set",
                 "measure", "mouse", "take", "destroy", "ended"}
    /\ thread \in {"none", "class", "window", "device", "cleanup", "report",
                   "activate", "loop", "add", "done"}
    /\ rinput_thread_handle \in {NULL, "thread"}
    /\ rinput_window_hwnd \in {NULL, "input"}
    /\ rinput_activated \in BOOLEAN /\ rinput_error \in BOOLEAN
    /\ samples \in [last : [0 .. SAMPLE_COUNT - 1 -> 0 .. MaxInput],
                    index : 0 .. SAMPLE_COUNT - 1,
                    total : 0 .. MaxInput, seen : 0 .. MaxInput]
    /\ rate \in [hz : 0 .. MaxInput, max : 0 .. MaxInput]
    /\ class \in BOOLEAN
    /\ target \in Window \cup {NULL}
    /\ queue \in [Window -> 0 .. MaxInput]
    /\ quit \subseteq {"main", "thread"}
    /\ otherRinput \in BOOLEAN /\ refused \in BOOLEAN

(* No movement is lost or counted twice between the thread that collects   *)
(* it and the frame that uses it.                                          *)
MovementIsKept ==
    rinput_cnt = used + rinput_x

(* What m_rinput says is what is registered and running, between two mouse *)
(* loops and unless the last change failed.                                *)
CvarTellsTheTruth ==
    main = "frame" /\ ~refused =>
        /\ m_rinput.integer = 1 <=> thread \in {"loop", "add"}
        /\ m_rinput.integer = 1 =>
               /\ rinput_thread_handle = "thread" /\ rinput_window_hwnd = "input"
               /\ target = "input"
        /\ m_rinput.integer = 2 => target = "game"

(* The input thread is told to quit, never the game: unless it was given   *)
(* up for a method that then failed.                                       *)
QuitIsForTheThread ==
    [][ "main" \in quit' \ quit => refused]_vars

(* The main thread does not wait for ever for the input thread, if it      *)
(* could be created.                                                       *)
WaitingEnds ==
    (main \in {"join", "destroy", "wait"} /\ rinput_thread_handle # NULL)
        ~> (main \notin {"join", "destroy", "wait"})

=============================================================================
