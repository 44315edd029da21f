------------------------ MODULE FreezeWatchdog_proofs ------------------------
(***************************************************************************)
(* Theorems about the freeze detection.                                    *)
(***************************************************************************)
EXTENDS FreezeWatchdog, TLAPS

\* A step of the main thread that leaves the watchdogs and what they read.
Untouched == UNCHANGED <<handle, thread, currentTime, recreated>>

\* The cvar stays a cvar when the main thread takes note of its change.
LEMMA Noted ==
  ASSUME TypeOK, cl_freezeWatch' = [cl_freezeWatch EXCEPT !.modified = FALSE]
  PROVE  cl_freezeWatch' \in [boolean : BOOLEAN, modified : BOOLEAN]
<1>1. cl_freezeWatch \in [boolean : BOOLEAN, modified : BOOLEAN]
  BY DEF TypeOK
<1> QED
  BY <1>1

LEMMA ZeroIsTick == 0 \in Tick
  BY FreezeAssumption, SMT DEF Tick

LEMMA InitType == Init => TypeOK
<1> SUFFICES ASSUME Init PROVE TypeOK
  OBVIOUS
<1>1. cl_freezeWatch \in [boolean : BOOLEAN, modified : BOOLEAN]
  BY DEF Init
<1>2. age \in 0 .. MaxFreeze
  BY FreezeAssumption, SMT DEF Init
<1>3. thread \in [Thread -> {"none", "test", "sleep", "compare", "ask", "ignore",
                             "doze", "done"}]
  BY SMT DEF Init
<1>4. currentTime \in [Thread -> Tick]
  BY ZeroIsTick, SMT DEF Init
<1> QED
  BY <1>1, <1>2, <1>3, <1>4, ZeroIsTick, Zenon DEF Init, TypeOK

\* What the steps of a watchdog have in common.
LEMMA ThreadStepType ==
  ASSUME TypeOK, NEW t \in Thread, NEW from, NEW to,
         to \in {"test", "sleep", "compare", "ask", "ignore", "doze", "done"},
         ThreadStep(t, from, to),
         main' \in {main, "ended"},
         currentTime' \in [Thread -> Tick],
         age' = age, upToDate' \in SUBSET Thread, alarmed' \in BOOLEAN
  PROVE  TypeOK'
<1>1. thread' \in [Thread -> {"none", "test", "sleep", "compare", "ask", "ignore",
                              "doze", "done"}]
  BY SMT DEF TypeOK, ThreadStep
<1> QED
  BY <1>1, SMT DEF TypeOK, ThreadStep, shared

LEMMA WatchType ==
  ASSUME TypeOK, NEW t \in Thread, Watch(t) \/ AnswerYes(t) \/ AnswerNo(t)
  PROVE  TypeOK'
<1>1. CASE TestLoop(t)
  <2>1. CASE Stopped
    BY <1>1, <2>1, ThreadStepType, SMT DEF TestLoop, TypeOK
  <2>2. CASE ~Stopped
    BY <1>1, <2>2, ThreadStepType, SMT DEF TestLoop, TypeOK
  <2> QED
    BY <2>1, <2>2
<1>2. CASE Wake(t)
  BY <1>2, ThreadStepType, SMT DEF Wake, ReadClock, TypeOK
<1>3. CASE Compare(t)
  <2>1. CASE Elapsed(t) > ALARM /\ ~dedicated
    BY <1>3, <2>1, ThreadStepType, SMT DEF Compare, TypeOK
  <2>2. CASE ~(Elapsed(t) > ALARM /\ ~dedicated)
    BY <1>3, <2>2, ThreadStepType, SMT DEF Compare, TypeOK
  <2> QED
    BY <2>1, <2>2
<1>4. CASE Ignore(t)
  <2>1. CASE Elapsed(t) > CALM /\ ~Stopped
    BY <1>4, <2>1, ThreadStepType, SMT DEF Ignore, TypeOK
  <2>2. CASE ~(Elapsed(t) > CALM /\ ~Stopped)
    BY <1>4, <2>2, ThreadStepType, SMT DEF Ignore, TypeOK
  <2> QED
    BY <2>1, <2>2
<1>5. CASE Doze(t)
  BY <1>5, ThreadStepType, SMT DEF Doze, ReadClock, TypeOK
<1>6. CASE AnswerYes(t)
  BY <1>6, ThreadStepType, SMT DEF AnswerYes, TypeOK
<1>7. CASE AnswerNo(t)
  BY <1>7, ThreadStepType, SMT DEF AnswerNo, TypeOK
<1> QED
  BY <1>1, <1>2, <1>3, <1>4, <1>5, <1>6, <1>7 DEF Watch

LEMMA NextType == TypeOK /\ [Next]_vars => TypeOK'
<1> SUFFICES ASSUME TypeOK, [Next]_vars PROVE TypeOK'
  OBVIOUS
<1>1. CASE Heartbeat
  <2>1. age' \in 0 .. MaxFreeze
    BY <1>1, FreezeAssumption, SMT DEF Heartbeat
  <2> QED
    BY <1>1, <2>1, Zenon DEF Heartbeat, MainStep, TypeOK
<1>2. CASE NothingToSwitch
  <2>1. cl_freezeWatch' \in [boolean : BOOLEAN, modified : BOOLEAN]
    BY <1>2, Noted DEF NothingToSwitch, TypeOK
  <2> QED
    BY <1>2, <2>1, Zenon DEF NothingToSwitch, MainStep, TypeOK, shared, observed
<1>3. CASE TerminateThread
  <2>1. cl_freezeWatch' \in [boolean : BOOLEAN, modified : BOOLEAN]
    BY <1>3, Noted DEF TerminateThread
  <2> QED
    BY <1>3, <2>1, Zenon DEF TerminateThread, MainStep, TypeOK, observed
<1>4. CASE Joined
  <2>1. handle \in Thread
    BY <1>4, SMT DEF Joined, MainStep, TypeOK
  <2> QED
    BY <1>4, <2>1, SMT DEF Joined, MainStep, TypeOK, shared, observed
<1>5. CASE SetFreezeWatch
  BY <1>5, SMT DEF SetFreezeWatch, TypeOK, shared, observed
<1>6. CASE Hang
  BY <1>6, SMT DEF Hang, MainStep, TypeOK, shared, observed
<1>7. CASE Crash
  BY <1>7, SMT DEF Crash, TypeOK, observed
<1>8. CASE HandlerEnds
  BY <1>8, SMT DEF HandlerEnds, MainStep, TypeOK, shared, observed
<1>9. ASSUME NEW t \in Thread, CreateThread(t) PROVE TypeOK'
  <2>1. cl_freezeWatch' \in [boolean : BOOLEAN, modified : BOOLEAN]
    BY <1>9, Noted DEF CreateThread
  <2>2. thread' \in [Thread -> {"none", "test", "sleep", "compare", "ask", "ignore",
                                "doze", "done"}]
    BY <1>9, SMT DEF CreateThread, TypeOK
  <2>3. recreated' \in BOOLEAN
    BY <1>9, Zenon DEF CreateThread
  <2> QED
    BY <1>9, <2>1, <2>2, <2>3, Zenon DEF CreateThread, MainStep, TypeOK
<1>10. ASSUME NEW t \in Thread, Watch(t) \/ AnswerYes(t) \/ AnswerNo(t) PROVE TypeOK'
  BY <1>10, WatchType
<1>11. CASE TimePasses
  BY <1>11, FreezeAssumption, SMT DEF TimePasses, TypeOK, Tick, shared
<1>12. CASE UNCHANGED vars
  BY <1>12, SMT DEF vars, TypeOK
<1> QED
  BY <1>1, <1>2, <1>3, <1>4, <1>5, <1>6, <1>7, <1>8, <1>9, <1>10, <1>11, <1>12
  DEF Next

(* The state of the freeze detection is well formed, for any number of     *)
(* threads, any durations and any width of the clock.                      *)
THEOREM WatchdogTypeCorrect == Spec => []TypeOK
<1> QED
  BY InitType, NextType, PTL DEF Spec

-----------------------------------------------------------------------------
(* A thread only moves if it was live.                                     *)
LEMMA WatchKeepsKnown ==
  ASSUME TypeOK, EveryWatchdogIsKnown, NEW t \in Thread,
         Watch(t) \/ AnswerYes(t) \/ AnswerNo(t)
  PROVE  EveryWatchdogIsKnown'
<1>1. \E from \in {"test", "sleep", "compare", "ask", "ignore", "doze"} :
        \E to : ThreadStep(t, from, to)
  BY Zenon DEF Watch, TestLoop, Wake, Compare, Ignore, Doze, ReadClock, AnswerYes,
               AnswerNo
<1>2. Live(t)
  BY <1>1 DEF ThreadStep, Live
<1>3. \A u \in Thread : u # t => thread'[u] = thread[u]
  BY <1>1 DEF ThreadStep, TypeOK
<1>4. handle' = handle /\ recreated' = recreated
  BY <1>1 DEF ThreadStep
<1> QED
  BY <1>2, <1>3, <1>4, SMT DEF EveryWatchdogIsKnown, Live

LEMMA NextKnown == TypeOK /\ EveryWatchdogIsKnown /\ [Next]_vars => EveryWatchdogIsKnown'
<1> SUFFICES ASSUME TypeOK, EveryWatchdogIsKnown, [Next]_vars
             PROVE  EveryWatchdogIsKnown'
  OBVIOUS
<1>1. ASSUME NEW t \in Thread, CreateThread(t) PROVE EveryWatchdogIsKnown'
  <2>1. CASE handle = NULL
    <3>1. recreated \/ \A u \in Thread : ~Live(u)
      BY <2>1, FreezeAssumption, SMT DEF EveryWatchdogIsKnown
    <3> QED
      BY <1>1, <3>1, SMT DEF CreateThread, EveryWatchdogIsKnown, Live, TypeOK
  <2>2. CASE handle # NULL
    BY <1>1, <2>2, Zenon DEF CreateThread, EveryWatchdogIsKnown
  <2> QED
    BY <2>1, <2>2
<1>2. CASE Joined
  <2>1. handle \in Thread /\ thread[handle] = "done"
    BY <1>2, SMT DEF Joined, MainStep, TypeOK
  <2>2. recreated' = recreated
    BY <1>2 DEF Joined, observed
  <2>3. recreated \/ \A u \in Thread : ~Live(u)
    BY <2>1, SMT DEF EveryWatchdogIsKnown, Live
  <2>4. \A u \in Thread : thread'[u] \in {thread[u], "none"}
    BY <1>2, SMT DEF Joined, TypeOK
  <2> QED
    BY <2>2, <2>3, <2>4, SMT DEF EveryWatchdogIsKnown, Live
<1>3. ASSUME NEW t \in Thread, Watch(t) \/ AnswerYes(t) \/ AnswerNo(t)
      PROVE  EveryWatchdogIsKnown'
  BY <1>3, WatchKeepsKnown
<1>4. CASE \/ Heartbeat \/ NothingToSwitch \/ TerminateThread \/ SetFreezeWatch
           \/ Hang \/ Crash \/ HandlerEnds \/ TimePasses \/ UNCHANGED vars
  <2>1. Untouched
    BY <1>4 DEF Untouched, Heartbeat, NothingToSwitch, TerminateThread, SetFreezeWatch,
                Hang, Crash, HandlerEnds, TimePasses, observed, vars
  <2> QED
    BY <2>1, SMT DEF Untouched, EveryWatchdogIsKnown, Live
<1> QED
  BY <1>1, <1>2, <1>3, <1>4 DEF Next

(* Unless the cvar was switched off and on within one frame, every running *)
(* watchdog is the one whose handle the main thread keeps, so that there   *)
(* is one at most and switching the cvar off ends it.                      *)
THEOREM WatchdogIsKnown == Spec => []EveryWatchdogIsKnown
<1>1. Init => EveryWatchdogIsKnown
  BY SMT DEF Init, EveryWatchdogIsKnown, Live
<1> QED
  BY <1>1, WatchdogTypeCorrect, NextKnown, PTL DEF Spec

-----------------------------------------------------------------------------
(* The cause of an alarm.                                                  *)

\* The clock showed time when the heartbeat was k ticks old.
Shows(time, k) == time = lastHeartbeat + k \/ time = lastHeartbeat + k - ClockWrap

\* The first frame began: before it, nothing looks at the heartbeat.
Begun == main \in {"switch", "wait"} \/ \E t \in Thread : thread[t] # "none"

ClockInv == Begun => Shows(now, age)

\* Who looked at the clock since the last heartbeat saw a time no later than now.
LookInv == \A t \in upToDate : \E k \in 0 .. age : Shows(currentTime[t], k)

CauseInv == ClockInv /\ LookInv

\* The difference without sign is the age the heartbeat had at that look.
LEMMA ElapsedIsAge ==
  ASSUME NEW t \in Thread, NEW k \in 0 .. MaxFreeze, lastHeartbeat \in Tick,
         Shows(currentTime[t], k)
  PROVE  Elapsed(t) = k
<1>1. k \in 0 .. ClockWrap - 1 /\ ClockWrap \in Nat
  BY FreezeAssumption
<1>2. k % ClockWrap = k
  BY <1>1
<1>3. (k - ClockWrap) % ClockWrap = k
  BY <1>1
<1>4. currentTime[t] - lastHeartbeat \in {k, k - ClockWrap}
  BY <1>1 DEF Shows, Tick
<1> QED
  BY <1>2, <1>3, <1>4 DEF Elapsed

\* A step that leaves the clock, the heartbeat and the looks at them.
LEMMA SameLooks ==
  ASSUME CauseInv, UNCHANGED <<now, lastHeartbeat, currentTime, age, upToDate>>,
         Begun' => Begun
  PROVE  CauseInv'
BY DEF CauseInv, ClockInv, LookInv, Shows

LEMMA HeartbeatCause ==
  ASSUME TypeOK, Heartbeat
  PROVE  CauseInv'
<1>1. Shows(now, age)'
  BY FreezeAssumption DEF Heartbeat, TypeOK, Tick, Shows
<1>2. upToDate' = {}
  BY DEF Heartbeat
<1> QED
  BY <1>1, <1>2 DEF CauseInv, ClockInv, LookInv

LEMMA TimeCause ==
  ASSUME TypeOK, CauseInv, TimePasses
  PROVE  CauseInv'
<1>1. UNCHANGED <<lastHeartbeat, currentTime, upToDate, main, thread>> /\ age' = age + 1
  BY DEF TimePasses, shared
<1>2. ClockInv'
  <2> SUFFICES ASSUME Begun' PROVE Shows(now, age)'
    BY DEF ClockInv
  <2>1. Shows(now, age)
    BY <1>1 DEF Begun, CauseInv, ClockInv
  <2>2. age \in Nat /\ now \in Nat /\ lastHeartbeat \in Nat /\ ClockWrap \in Nat
        /\ now < ClockWrap
    BY FreezeAssumption DEF TypeOK, Tick
  <2>3. CASE now + 1 = ClockWrap
    <3>1. now' = 0
      BY <2>2, <2>3 DEF TimePasses
    <3> QED
      BY <1>1, <2>1, <2>2, <2>3, <3>1, FreezeAssumption DEF Shows, TimePasses, TypeOK, Tick
  <2>4. CASE now + 1 # ClockWrap
    <3>1. now' = now + 1
      BY <2>2, <2>4 DEF TimePasses
    <3> QED
      BY <1>1, <2>1, <2>2, <3>1 DEF Shows
  <2> QED
    BY <2>3, <2>4
<1>3. LookInv'
  BY <1>1 DEF CauseInv, LookInv, Shows, TypeOK
<1> QED
  BY <1>2, <1>3 DEF CauseInv

LEMMA ReadClockCause ==
  ASSUME TypeOK, CauseInv, NEW t \in Thread, NEW from, NEW to, from # "none",
         ReadClock(t, from, to)
  PROVE  CauseInv'
<1>1. UNCHANGED <<now, lastHeartbeat, age, main>> /\ thread[t] # "none"
  BY DEF ReadClock, ThreadStep, shared
<1>2. Shows(now, age)
  BY <1>1 DEF CauseInv, ClockInv, Begun
<1>3. Shows(now, age)' /\ age \in 0 .. age
  BY <1>1, <1>2 DEF Shows, TypeOK
<1>4. ASSUME NEW u \in upToDate' PROVE \E k \in 0 .. age' : Shows(currentTime[u], k)'
  <2>1. CASE u = t
    <3>1. currentTime'[u] = now'
      BY <1>1, <2>1 DEF ReadClock, TypeOK
    <3> QED
      BY <1>1, <1>3, <3>1 DEF Shows
  <2>2. CASE u # t
    <3>1. u \in upToDate /\ currentTime'[u] = currentTime[u]
      BY <1>4, <2>2 DEF ReadClock, TypeOK
    <3> QED
      BY <1>1, <3>1 DEF CauseInv, LookInv, Shows
  <2> QED
    BY <2>1, <2>2
<1> QED
  BY <1>3, <1>4 DEF CauseInv, ClockInv, LookInv

LEMMA WatchCause ==
  ASSUME TypeOK, CauseInv, NEW t \in Thread, Watch(t) \/ AnswerYes(t) \/ AnswerNo(t)
  PROVE  CauseInv'
<1>1. CASE Wake(t) \/ Doze(t)
  BY <1>1, ReadClockCause DEF Wake, Doze
<1>2. CASE TestLoop(t) \/ Compare(t) \/ Ignore(t) \/ AnswerYes(t) \/ AnswerNo(t)
  <2>1. \E from \in {"test", "compare", "ask", "ignore"} : \E to : ThreadStep(t, from, to)
    BY <1>2, Zenon DEF TestLoop, Compare, Ignore, AnswerYes, AnswerNo
  <2>2. Begun
    BY <2>1 DEF ThreadStep, Begun
  <2>3. UNCHANGED <<now, lastHeartbeat>>
    BY <2>1 DEF ThreadStep, shared
  <2>4. UNCHANGED <<currentTime, age, upToDate>>
    BY <1>2 DEF TestLoop, Compare, Ignore, AnswerYes, AnswerNo
  <2> QED
    BY <2>2, <2>3, <2>4, SameLooks
<1> QED
  BY <1>1, <1>2 DEF Watch

LEMMA NextCause == TypeOK /\ CauseInv /\ [Next]_vars => CauseInv'
<1> SUFFICES ASSUME TypeOK, CauseInv, [Next]_vars PROVE CauseInv'
  OBVIOUS
<1>1. CASE Heartbeat
  BY <1>1, HeartbeatCause
<1>2. CASE TimePasses
  BY <1>2, TimeCause
<1>3. ASSUME NEW t \in Thread, Watch(t) \/ AnswerYes(t) \/ AnswerNo(t) PROVE CauseInv'
  BY <1>3, WatchCause
<1>4. ASSUME NEW t \in Thread, CreateThread(t) PROVE CauseInv'
  BY <1>4, SameLooks DEF CreateThread, MainStep, Begun
<1>5. CASE Joined
  BY <1>5, SameLooks DEF Joined, MainStep, Begun, shared, observed
<1>6. CASE NothingToSwitch \/ TerminateThread
  BY <1>6, SameLooks DEF NothingToSwitch, TerminateThread, MainStep, Begun, shared, observed
<1>7. CASE SetFreezeWatch \/ Hang \/ Crash \/ HandlerEnds
  BY <1>7, SameLooks DEF SetFreezeWatch, Hang, Crash, HandlerEnds, MainStep, Begun,
                         shared, observed
<1>8. CASE UNCHANGED vars
  BY <1>8, SameLooks DEF vars, Begun
<1> QED
  BY <1>1, <1>2, <1>3, <1>4, <1>5, <1>6, <1>7, <1>8 DEF Next

\* Only Compare asks.
LEMMA OnlyCompareAsks ==
  ASSUME TypeOK, [Next]_vars, NEW t \in Thread, thread[t] # "ask", thread'[t] = "ask"
  PROVE  Compare(t) /\ Elapsed(t) > ALARM
<1>1. PICK u \in Thread : Watch(u) \/ AnswerYes(u) \/ AnswerNo(u)
  <2>1. ASSUME NEW u \in Thread, CreateThread(u) PROVE FALSE
    BY <2>1 DEF CreateThread, TypeOK
  <2>2. CASE Joined
    BY <2>2 DEF Joined, TypeOK
  <2>3. CASE \/ Heartbeat \/ NothingToSwitch \/ TerminateThread \/ SetFreezeWatch
             \/ Hang \/ Crash \/ HandlerEnds \/ TimePasses \/ UNCHANGED vars
    BY <2>3 DEF Heartbeat, NothingToSwitch, TerminateThread, SetFreezeWatch,
                Hang, Crash, HandlerEnds, TimePasses, vars
  <2> QED
    BY <2>1, <2>2, <2>3 DEF Next
<1>2. ASSUME NEW from, NEW to, to # "ask", ThreadStep(u, from, to) PROVE FALSE
  BY <1>2 DEF ThreadStep, TypeOK
<1>3. CASE TestLoop(u) \/ Wake(u) \/ Ignore(u) \/ Doze(u) \/ AnswerYes(u) \/ AnswerNo(u)
  BY <1>2, <1>3, Zenon DEF TestLoop, Wake, Ignore, Doze, ReadClock, AnswerYes, AnswerNo
<1>4. CASE Compare(u)
  <2>1. Elapsed(u) > ALARM /\ ThreadStep(u, "compare", "ask")
    BY <1>2, <1>4, Zenon DEF Compare
  <2>2. u = t
    BY <2>1 DEF ThreadStep, TypeOK
  <2> QED
    BY <1>4, <2>1, <2>2
<1> QED
  BY <1>1, <1>3, <1>4 DEF Watch

(* For any number of threads and any width of the clock, the player is     *)
(* asked after a frame that was too long, or when a frame began between    *)
(* the watchdog's look at the clock and its look at the heartbeat, and for *)
(* no other cause: the clock that wraps is none.                           *)
THEOREM AlarmsHaveCause == Spec => AlarmHasCause
<1>1. Init => CauseInv
  BY DEF Init, CauseInv, ClockInv, LookInv, Begun
<1>2. TypeOK /\ CauseInv /\ [Next]_vars =>
        [\A t \in Thread :
            thread[t] # "ask" /\ thread'[t] = "ask"
              => age > ALARM \/ t \notin upToDate]_vars
  <2> SUFFICES ASSUME TypeOK, CauseInv, [Next]_vars, NEW t \in Thread,
                      thread[t] # "ask", thread'[t] = "ask", t \in upToDate
               PROVE  age > ALARM
    OBVIOUS
  <2>1. PICK k \in 0 .. age : Shows(currentTime[t], k)
    BY DEF CauseInv, LookInv
  <2>2. k \in 0 .. MaxFreeze
    BY <2>1, FreezeAssumption DEF TypeOK
  <2>3. Elapsed(t) = k
    BY <2>1, <2>2, ElapsedIsAge DEF TypeOK
  <2> QED
    BY <2>1, <2>3, OnlyCompareAsks, FreezeAssumption DEF TypeOK
<1> QED
  BY <1>1, <1>2, WatchdogTypeCorrect, NextCause, PTL DEF Spec, AlarmHasCause
=============================================================================
