--------------------------- MODULE FreezeWatchdog ---------------------------
(***************************************************************************)
(* The freeze detection of the Windows client (src/src/mss32/freeze.cpp).  *)
(*                                                                         *)
(* The main thread stores the time at the begin of every frame.  A         *)
(* watchdog thread compares it with the clock every second and asks the    *)
(* player what to do when the last frame began too long ago.  The cvar     *)
(* cl_freezeWatch creates the thread and ends it.  The threads share three *)
(* variables without a lock; the clock is a 32-bit number of milliseconds, *)
(* here a number of ticks modulo ClockWrap.                                *)
(*                                                                         *)
(* Left out: the dump that is written before the process exits, and the    *)
(* debug print of a server.                                                *)
(***************************************************************************)
EXTENDS Integers

CONSTANTS
    Thread,             \* threads that may exist at a time
    NULL,
    ALARM, CALM,        \* the 12 and 5 seconds
    ClockWrap,          \* 2^32 ms
    MaxFreeze           \* bound on the duration of a frame

ASSUME FreezeAssumption ==
    /\ NULL \notin Thread
    /\ ALARM \in Nat /\ CALM \in 0 .. ALARM
    /\ MaxFreeze \in Nat /\ ClockWrap \in Nat /\ ClockWrap > MaxFreeze

Tick == 0 .. ClockWrap - 1

VARIABLES
    dedicated,          \* whether this is a server
    now,                \* GetTickCount()
    lastHeartbeat, exitThread, processCrashed,
    cl_freezeWatch,     \* the cvar: value and modified
    main,               \* where the main thread is
    handle,             \* crash_watchdogThreadHandle
    thread,             \* where each watchdog thread is
    currentTime,        \* the clock each of them read last
    (* observation only: *)
    age,                \* ticks since the last heartbeat
    upToDate,           \* threads that read the clock after the last heartbeat
    alarmed,            \* the player was asked about the frame that runs
    recreated           \* a thread was created although there was one

shared == <<lastHeartbeat, exitThread, processCrashed>>
observed == <<age, upToDate, alarmed, recreated>>
vars == <<dedicated, now, lastHeartbeat, exitThread, processCrashed,
          cl_freezeWatch, main, handle, thread, currentTime,
          age, upToDate, alarmed, recreated>>

\* freeze_init marks the cvar, so that the first frame creates the thread.
Init ==
    /\ dedicated \in BOOLEAN
    /\ now \in Tick
    /\ lastHeartbeat = 0 /\ exitThread = FALSE /\ processCrashed = FALSE
    /\ \E on \in BOOLEAN : cl_freezeWatch = [boolean |-> on, modified |-> on]
    /\ main = "frame" /\ handle = NULL
    /\ thread = [t \in Thread |-> "none"]
    /\ currentTime = [t \in Thread |-> 0]
    /\ age = 0 /\ upToDate = {} /\ alarmed = FALSE /\ recreated = FALSE

Live(t) == thread[t] \notin {"none", "done"}

(***************************************************************************)
(* The main thread.                                                        *)
(***************************************************************************)
MainStep(from, to) == main = from /\ main' = to

\* Mutant: the time is stored only by frames that have nothing to switch.
Heartbeat_Late ==
    /\ MainStep("frame", "switch")
    /\ IF cl_freezeWatch.modified
       THEN UNCHANGED <<lastHeartbeat, age, upToDate, alarmed>>
       ELSE lastHeartbeat' = now /\ age' = 0 /\ upToDate' = {} /\ alarmed' = FALSE
    /\ UNCHANGED <<dedicated, now, exitThread, processCrashed, cl_freezeWatch,
                   handle, thread, currentTime, recreated>>

\* freeze_frame begins: the previous frame has ended.
Heartbeat ==
    /\ MainStep("frame", "switch")
    /\ lastHeartbeat' = now
    /\ age' = 0 /\ upToDate' = {} /\ alarmed' = FALSE
    /\ UNCHANGED <<dedicated, now, exitThread, processCrashed, cl_freezeWatch,
                   handle, thread, currentTime, recreated>>

NothingToSwitch ==
    /\ MainStep("switch", "frame")
    /\ \/ ~cl_freezeWatch.modified /\ UNCHANGED cl_freezeWatch
       \/ /\ cl_freezeWatch.modified /\ ~cl_freezeWatch.boolean /\ handle = NULL
          /\ cl_freezeWatch' = [cl_freezeWatch EXCEPT !.modified = FALSE]
    /\ UNCHANGED <<dedicated, now, shared, handle, thread, currentTime, observed>>

CreateThread(t) ==
    /\ MainStep("switch", "frame")
    /\ cl_freezeWatch.modified /\ cl_freezeWatch.boolean
    /\ cl_freezeWatch' = [cl_freezeWatch EXCEPT !.modified = FALSE]
    /\ ~Live(t) /\ t # handle
    /\ exitThread' = FALSE
    /\ thread' = [thread EXCEPT ![t] = "test"]
    /\ handle' = t
    /\ recreated' = (recreated \/ handle # NULL)
    /\ UNCHANGED <<dedicated, now, lastHeartbeat, processCrashed, currentTime,
                   age, upToDate, alarmed>>

\* Mutant: the main thread waits for the watchdog before it tells it to end.
TerminateThread_WaitsFirst ==
    /\ MainStep("switch", "wait")
    /\ cl_freezeWatch.modified /\ ~cl_freezeWatch.boolean /\ handle # NULL
    /\ cl_freezeWatch' = [cl_freezeWatch EXCEPT !.modified = FALSE]
    /\ UNCHANGED <<dedicated, now, shared, handle, thread, currentTime, observed>>

\* Mutant: whether there is a watchdog is not checked.
TerminateThread_Unchecked ==
    /\ MainStep("switch", "wait")
    /\ cl_freezeWatch.modified /\ ~cl_freezeWatch.boolean
    /\ cl_freezeWatch' = [cl_freezeWatch EXCEPT !.modified = FALSE]
    /\ exitThread' = TRUE
    /\ UNCHANGED <<dedicated, now, lastHeartbeat, processCrashed, handle, thread,
                   currentTime, observed>>

TerminateThread ==
    /\ MainStep("switch", "wait")
    /\ cl_freezeWatch.modified /\ ~cl_freezeWatch.boolean /\ handle # NULL
    /\ cl_freezeWatch' = [cl_freezeWatch EXCEPT !.modified = FALSE]
    /\ exitThread' = TRUE
    /\ UNCHANGED <<dedicated, now, lastHeartbeat, processCrashed, handle, thread,
                   currentTime, observed>>

\* Mutant: the main thread does not wait for the watchdog.
Joined_AtOnce ==
    /\ MainStep("wait", "frame")
    /\ handle' = NULL
    /\ UNCHANGED <<dedicated, now, shared, cl_freezeWatch, thread, currentTime,
                   observed>>

\* WaitForSingleObject returns.
Joined ==
    /\ MainStep("wait", "frame")
    /\ thread[handle] = "done"
    /\ thread' = [thread EXCEPT ![handle] = "none"]
    /\ handle' = NULL
    /\ UNCHANGED <<dedicated, now, shared, cl_freezeWatch, currentTime, observed>>

\* The rest of the frame: the player changes the cvar, the game hangs, or an
\* exception stops the main thread; its handler ends the process.
SetFreezeWatch ==
    /\ main = "frame"
    /\ cl_freezeWatch' = [boolean |-> ~cl_freezeWatch.boolean, modified |-> TRUE]
    /\ UNCHANGED <<dedicated, now, shared, main, handle, thread, currentTime,
                   observed>>

Hang ==
    /\ MainStep("frame", "hung")
    /\ UNCHANGED <<dedicated, now, shared, cl_freezeWatch, handle, thread,
                   currentTime, observed>>

Crash ==
    /\ main \in {"frame", "hung"} /\ main' = "crashed"
    /\ processCrashed' = TRUE
    /\ UNCHANGED <<dedicated, now, lastHeartbeat, exitThread, cl_freezeWatch,
                   handle, thread, currentTime, observed>>

HandlerEnds ==
    /\ MainStep("crashed", "ended")
    /\ UNCHANGED <<dedicated, now, shared, cl_freezeWatch, handle, thread,
                   currentTime, observed>>

(***************************************************************************)
(* A watchdog thread, one step per access to what the threads share.       *)
(***************************************************************************)
ThreadStep(t, from, to) ==
    /\ main # "ended"
    /\ thread[t] = from
    /\ thread' = [thread EXCEPT ![t] = to]
    /\ UNCHANGED <<dedicated, now, shared, cl_freezeWatch, handle, recreated>>

Stopped == exitThread \/ processCrashed

\* The difference of two 32-bit numbers without sign.
Elapsed(t) == (currentTime[t] - lastHeartbeat) % ClockWrap

TestLoop(t) ==
    /\ ThreadStep(t, "test", IF Stopped THEN "done" ELSE "sleep")
    /\ UNCHANGED <<main, currentTime, age, upToDate, alarmed>>

ReadClock(t, from, to) ==
    /\ ThreadStep(t, from, to)
    /\ currentTime' = [currentTime EXCEPT ![t] = now]
    /\ upToDate' = upToDate \cup {t}
    /\ UNCHANGED <<main, age, alarmed>>

Wake(t) == ReadClock(t, "sleep", "compare")

\* Mutant: the alarm is raised after the time that ends one.
Compare_Calm(t) ==
    /\ IF Elapsed(t) > CALM /\ ~dedicated
       THEN /\ ThreadStep(t, "compare", "ask")
            /\ alarmed' = (alarmed \/ t \in upToDate)
       ELSE ThreadStep(t, "compare", "test") /\ UNCHANGED alarmed
    /\ UNCHANGED <<main, currentTime, age, upToDate>>

\* Mutant: the machines that are not asked about are swapped.
Compare_Servers(t) ==
    /\ IF Elapsed(t) > ALARM /\ dedicated
       THEN /\ ThreadStep(t, "compare", "ask")
            /\ alarmed' = (alarmed \/ t \in upToDate)
       ELSE ThreadStep(t, "compare", "test") /\ UNCHANGED alarmed
    /\ UNCHANGED <<main, currentTime, age, upToDate>>

Compare(t) ==
    /\ IF Elapsed(t) > ALARM /\ ~dedicated
       THEN /\ ThreadStep(t, "compare", "ask")
            /\ alarmed' = (alarmed \/ t \in upToDate)
       ELSE ThreadStep(t, "compare", "test") /\ UNCHANGED alarmed
    /\ UNCHANGED <<main, currentTime, age, upToDate>>

\* A dump is written, then ExitProcess.
AnswerYes(t) ==
    /\ ThreadStep(t, "ask", "done")
    /\ main' = "ended"
    /\ UNCHANGED <<currentTime, age, upToDate, alarmed>>

AnswerNo(t) ==
    /\ ThreadStep(t, "ask", "ignore")
    /\ UNCHANGED <<main, currentTime, age, upToDate, alarmed>>

Ignore(t) ==
    /\ ThreadStep(t, "ignore", IF Elapsed(t) > CALM /\ ~Stopped THEN "doze"
                                                                ELSE "test")
    /\ UNCHANGED <<main, currentTime, age, upToDate, alarmed>>

Doze(t) == ReadClock(t, "doze", "ignore")

Watch(t) == TestLoop(t) \/ Wake(t) \/ Compare(t) \/ Ignore(t) \/ Doze(t)

TimePasses ==
    /\ main # "ended" /\ age < MaxFreeze
    /\ now' = (now + 1) % ClockWrap
    /\ age' = age + 1
    /\ UNCHANGED <<dedicated, shared, cl_freezeWatch, main, handle, thread,
                   currentTime, upToDate, alarmed, recreated>>

Next ==
    \/ Heartbeat \/ NothingToSwitch \/ TerminateThread \/ Joined
    \/ SetFreezeWatch \/ Hang \/ Crash \/ HandlerEnds
    \/ \E t \in Thread :
        \/ CreateThread(t) \/ Watch(t) \/ AnswerYes(t) \/ AnswerNo(t)
    \/ TimePasses

Spec == Init /\ [][Next]_vars

\* The threads run, time passes, and the player answers.
FairSpec ==
    /\ Spec
    /\ \A t \in Thread : WF_vars(Watch(t)) /\ WF_vars(AnswerYes(t) \/ AnswerNo(t))
    /\ WF_vars(TimePasses) /\ WF_vars(Joined)

-----------------------------------------------------------------------------
(* The state is well formed. *)
TypeOK ==
    /\ dedicated \in BOOLEAN
    /\ now \in Tick /\ lastHeartbeat \in Tick
    /\ exitThread \in BOOLEAN /\ processCrashed \in BOOLEAN
    /\ cl_freezeWatch \in [boolean : BOOLEAN, modified : BOOLEAN]
    /\ main \in {"frame", "switch", "wait", "hung", "crashed", "ended"}
    /\ handle \in Thread \cup {NULL}
    /\ main = "wait" => handle # NULL
    /\ thread \in [Thread -> {"none", "test", "sleep", "compare", "ask", "ignore",
                              "doze", "done"}]
    /\ currentTime \in [Thread -> Tick]
    /\ age \in 0 .. MaxFreeze
    /\ upToDate \subseteq Thread
    /\ alarmed \in BOOLEAN /\ recreated \in BOOLEAN

(* The player of a client is asked only after a frame that was too long,   *)
(* or if a frame began between the watchdog's look at the clock and its    *)
(* look at the heartbeat: then the difference wraps and is huge.           *)
AlarmHasCause ==
    [][\A t \in Thread :
          thread[t] # "ask" /\ thread'[t] = "ask"
            => age > ALARM \/ t \notin upToDate]_vars

(* Every watchdog is the one the handle denotes, so that switching the     *)
(* cvar off ends it: unless it was switched off and on in one frame.       *)
EveryWatchdogIsKnown ==
    recreated \/ \A t \in Thread : Live(t) => t = handle

(* If the game hangs while a watchdog runs, the player gets asked, or was  *)
(* asked already when the hang began.                                      *)
HangIsReported ==
    (main = "hung" /\ ~dedicated /\ ~exitThread /\ \E t \in Thread : Live(t))
      ~> (\/ alarmed \/ main # "hung"
          \/ \E t \in Thread : thread[t] \in {"ask", "ignore", "doze"})

(* Switching the cvar off does not block the game for ever, if the player  *)
(* answers.                                                                *)
DisablingEnds == (main = "wait") ~> (main # "wait")

=============================================================================
