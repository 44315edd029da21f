---------------------------- MODULE RInput_proofs ----------------------------
(***************************************************************************)
(* Theorems about the raw mouse input: the critical section is enough, the *)
(* cvar says what is connected, and the input rate is that of the inputs.  *)
(***************************************************************************)
EXTENDS RInput, TLAPS

Counts ==
    /\ rinput_x \in Int /\ rinput_cnt \in Int /\ used \in Int
    /\ taken \in Int /\ read \in Int

\* Who is inside the critical section.
Exclusion ==
    /\ inside \in {{}, {"main"}, {"thread"}}
    /\ main = "take" <=> inside = {"main"}
    /\ thread = "add" <=> inside = {"thread"}

\* Nobody changes the sum while another holds a copy of it.
CopiesAreCurrent ==
    /\ main = "take" => taken = rinput_x
    /\ thread = "add" => read = rinput_x

Running == thread \notin {"none", "done"}

\* There is one input thread at most: who may run is the one that was created,
\* and it was joined before another is created.
OneThread ==
    /\ m_rinput \in [integer : Method, latchedValue : Method]
    /\ main \in {"wait", "set"} /\ Running => m_rinput.latchedValue = 1
    /\ main = "wait" => m_rinput.latchedValue = 1
    /\ rinput_error => ~Running
    /\ Running => /\ rinput_thread_handle # NULL
                  /\ main \notin {"register", "find"}
                  /\ m_rinput.integer = 1 \/ main \in {"wait", "set"}

Kept == Counts /\ Exclusion /\ CopiesAreCurrent /\ MovementIsKept

IInv == OneThread /\ Kept

-----------------------------------------------------------------------------
(* One input thread.                                                       *)

LEMMA InputThreadKeepsOne ==
  ASSUME OneThread, InputThread
  PROVE  OneThread'
<1>1. \E from \in {"class", "window", "device", "cleanup", "report", "activate",
                    "loop", "add"} :
        \E to : ThreadStep(from, to)
  BY Zenon DEF InputThread, RegisterClass, CreateInputWindow, RegisterInputDevice,
               CleanUp, Report, Activate, BeginAdd, EndAdd, ThreadQuits
<1>2. Running
  BY <1>1 DEF Running, ThreadStep
<1>3. UNCHANGED <<m_rinput, main, rinput_thread_handle>>
  BY <1>1 DEF ThreadStep
<1>4. rinput_error' => ~Running'
  BY <1>2 DEF InputThread, RegisterClass, CreateInputWindow, RegisterInputDevice,
              CleanUp, Report, Activate, BeginAdd, EndAdd, ThreadQuits, ThreadStep,
              OneThread, Running
<1> QED
  BY <1>2, <1>3, <1>4 DEF OneThread

LEMMA MouseLoopKeepsOne ==
  ASSUME OneThread, MouseLoop
  PROVE  OneThread'
<1> USE DEF OneThread, Running, MainStep, start
<1>1. CASE Unregister
  BY <1>1 DEF Unregister, Chosen
<1>2. CASE Joined
  BY <1>2 DEF Joined, JoinInputThread, Chosen
<1>3. CASE ResetOffset
  BY <1>3 DEF ResetOffset
<1>4. CASE FindOtherRinput
  BY <1>4 DEF FindOtherRinput, Drop
<1>5. CASE CreateInputThread
  BY <1>5, RInputAssumption DEF CreateInputThread
<1>6. CASE Activated
  BY <1>6 DEF Activated, Drop
<1>7. CASE RegisterGameWindow
  BY <1>7 DEF RegisterGameWindow, Drop
<1>8. CASE SetValue
  BY <1>8 DEF SetValue
<1>9. CASE Measure \/ BeginTake \/ EndTake \/ NothingTaken
  BY <1>9 DEF Measure, BeginTake, EndTake, NothingTaken, input
<1> QED
  BY <1>1, <1>2, <1>3, <1>4, <1>5, <1>6, <1>7, <1>8, <1>9 DEF MouseLoop

LEMMA RestKeepsOne ==
  ASSUME OneThread,
         \/ BeginMouseLoop \/ SetLatched \/ GameWindowInput \/ DestroyWindow
         \/ DestroyJoined \/ MouseMoves \/ OtherRinput \/ GameQuits \/ UNCHANGED vars
  PROVE  OneThread'
<1> USE DEF OneThread, Running, MainStep, start
<1>1. CASE BeginMouseLoop
  BY <1>1 DEF BeginMouseLoop
<1>2. CASE SetLatched
  BY <1>2 DEF SetLatched
<1>3. CASE DestroyWindow
  BY <1>3 DEF DestroyWindow, Suspended, Method
<1>4. CASE DestroyJoined
  BY <1>4 DEF DestroyJoined, JoinInputThread, Suspended, Method
<1>5. CASE \/ GameWindowInput \/ MouseMoves \/ OtherRinput \/ GameQuits
           \/ UNCHANGED vars
  BY <1>5 DEF GameWindowInput, MouseMoves, OtherRinput, GameQuits, vars
<1> QED
  BY <1>1, <1>2, <1>3, <1>4, <1>5

-----------------------------------------------------------------------------
(* No movement is lost.                                                    *)

\* A step that stays outside of the critical section, or where it is.
Outside ==
    /\ UNCHANGED input
    /\ main' = "take" <=> main = "take"
    /\ thread' = "add" <=> thread = "add"

LEMMA OutsideKeeps ==
  ASSUME Kept, Outside
  PROVE  Kept'
<1>1. UNCHANGED <<rinput_x, rinput_cnt, inside, taken, read, used>>
  BY DEF Outside, input
<1>2. Counts' /\ MovementIsKept'
  BY <1>1 DEF Kept, Counts, MovementIsKept
<1>3. Exclusion' /\ CopiesAreCurrent'
  BY <1>1 DEF Outside, Kept, Exclusion, CopiesAreCurrent
<1> QED
  BY <1>2, <1>3 DEF Kept

\* The two threads, where they read and write the sum.
LEMMA InsideKeeps ==
  ASSUME Kept,
         BeginAdd \/ EndAdd \/ BeginTake \/ EndTake \/ ResetOffset \/ GameWindowInput
  PROVE  Kept'
<1> USE DEF Kept, Counts, Exclusion, CopiesAreCurrent, MovementIsKept
<1>1. CASE BeginAdd
  BY <1>1 DEF BeginAdd, ThreadStep, Enter
<1>2. CASE EndAdd
  BY <1>2 DEF EndAdd, ThreadStep, Leave
<1>3. CASE BeginTake
  BY <1>3 DEF BeginTake, MainStep, Enter, start, os
<1>4. CASE EndTake
  BY <1>4 DEF EndTake, MainStep, Leave, start, os
<1>5. CASE ResetOffset
  BY <1>5 DEF ResetOffset, MainStep, start, os
<1>6. CASE GameWindowInput
  BY <1>6 DEF GameWindowInput, start
<1> QED
  BY <1>1, <1>2, <1>3, <1>4, <1>5, <1>6

Critical == BeginAdd \/ EndAdd \/ BeginTake \/ EndTake \/ ResetOffset \/ GameWindowInput

LEMMA NextIsOutside ==
  ASSUME OneThread, [Next]_vars
  PROVE  Critical \/ Outside
<1>1. CASE InputThread
  <2>1. CASE \/ RegisterClass \/ CreateInputWindow \/ RegisterInputDevice \/ CleanUp
             \/ Report \/ Activate \/ ThreadQuits
    BY <2>1 DEF RegisterClass, CreateInputWindow, RegisterInputDevice, CleanUp,
                Report, Activate, ThreadQuits, ThreadStep, Outside, input
  <2> QED
    BY <1>1, <2>1 DEF InputThread, Critical
<1>2. CASE MouseLoop
  <2>1. CASE Unregister \/ Joined
    BY <2>1 DEF Unregister, Joined, JoinInputThread, Chosen, MainStep, Outside
  <2>2. CASE \/ FindOtherRinput \/ CreateInputThread \/ Activated
             \/ RegisterGameWindow
    BY <2>2 DEF FindOtherRinput, CreateInputThread, Activated, RegisterGameWindow,
                Drop, MainStep, Outside, OneThread, Running
  <2>3. CASE SetValue \/ Measure \/ NothingTaken
    BY <2>3 DEF SetValue, Measure, NothingTaken, MainStep, Outside
  <2> QED
    BY <1>2, <2>1, <2>2, <2>3 DEF MouseLoop, Critical
<1>3. CASE BeginMouseLoop \/ SetLatched \/ MouseMoves \/ OtherRinput \/ GameQuits
  BY <1>3 DEF BeginMouseLoop, SetLatched, MouseMoves, OtherRinput, GameQuits,
              MainStep, Outside
<1>4. CASE DestroyWindow \/ DestroyJoined
  BY <1>4 DEF DestroyWindow, DestroyJoined, JoinInputThread, MainStep, Outside
<1>5. CASE UNCHANGED vars
  BY <1>5 DEF vars, Outside
<1> QED
  BY <1>1, <1>2, <1>3, <1>4, <1>5 DEF Next, Critical

LEMMA NextKeeps == OneThread /\ Kept /\ [Next]_vars => Kept'
BY NextIsOutside, OutsideKeeps, InsideKeeps DEF Critical

LEMMA OnlyOneInside == Spec => []IInv
<1>1. Init => IInv
  <2> SUFFICES ASSUME Init PROVE IInv
    OBVIOUS
  <2>1. Kept
    BY DEF Init, Kept, Counts, Exclusion, CopiesAreCurrent, MovementIsKept
  <2>2. OneThread
    BY DEF Init, OneThread, Running, Method
  <2> QED
    BY <2>1, <2>2 DEF IInv
<1>2. IInv /\ [Next]_vars => IInv'
  <2> SUFFICES ASSUME IInv, [Next]_vars PROVE IInv'
    OBVIOUS
  <2>1. OneThread'
    BY InputThreadKeepsOne, MouseLoopKeepsOne, RestKeepsOne DEF IInv, Next
  <2>2. Kept'
    BY NextKeeps DEF IInv
  <2> QED
    BY <2>1, <2>2 DEF IInv
<1> QED
  BY <1>1, <1>2, PTL DEF Spec

(* The movement that was used and the sum that was not yet taken are       *)
(* always all the inputs received, for any number of inputs and samples:   *)
(* no interleaving of the input thread and a frame loses one or counts it  *)
(* twice.                                                                  *)
THEOREM MovementKept == Spec => []MovementIsKept
<1>1. IInv => MovementIsKept
  BY DEF IInv, Kept
<1> QED
  BY <1>1, OnlyOneInside, PTL

\* What the critical section stands for: an input is added to the movement and
\* counted, or the movement is taken, each at once.
Added == rinput_x' = rinput_x + 1 /\ rinput_cnt' = rinput_cnt + 1 /\ UNCHANGED used
Taken == rinput_x' = 0 /\ used' = used + rinput_x /\ UNCHANGED rinput_cnt

(* The critical section makes the offset atomic: although adding and       *)
(* taking read and write it in steps of their own, to whoever watches the  *)
(* movement, the count and what was used, every change is one whole        *)
(* addition or one whole taking, whatever the other thread does meanwhile. *)
THEOREM OffsetIsAtomic == Spec => [][Added \/ Taken]_<<rinput_x, rinput_cnt, used>>
<1>1. IInv /\ [Next]_vars => [Added \/ Taken]_<<rinput_x, rinput_cnt, used>>
  <2> SUFFICES ASSUME IInv, [Next]_vars
               PROVE  Added \/ Taken \/ UNCHANGED <<rinput_x, rinput_cnt, used>>
    OBVIOUS
  <2>1. CASE EndAdd
    BY <2>1 DEF EndAdd, ThreadStep, IInv, Kept, CopiesAreCurrent, Added
  <2>2. CASE EndTake
    BY <2>2 DEF EndTake, MainStep, IInv, Kept, CopiesAreCurrent, Taken
  <2>3. CASE GameWindowInput
    BY <2>3 DEF GameWindowInput, Added
  <2>4. CASE ResetOffset
    BY <2>4 DEF ResetOffset, Taken
  <2>5. CASE BeginAdd \/ BeginTake
    BY <2>5 DEF BeginAdd, BeginTake, ThreadStep
  <2>6. CASE Outside
    BY <2>6 DEF Outside, input
  <2> QED
    BY <2>1, <2>2, <2>3, <2>4, <2>5, <2>6, NextIsOutside DEF IInv, Critical
<1> QED
  BY <1>1, OnlyOneInside, PTL DEF Spec

-----------------------------------------------------------------------------
(* What is registered.                                                     *)

Settled == thread \in {"loop", "add"}

Places ==
    /\ thread \in {"none", "class", "window", "device", "cleanup", "report",
                   "activate", "loop", "add", "done"}
    /\ rinput_thread_handle \in {NULL, "thread"}
    /\ rinput_window_hwnd \in {NULL, "input"}

\* The hidden window belongs to the input thread, and is registered when it is
\* activated.
HiddenWindow ==
    /\ thread \in {"device", "activate", "loop", "add"} => rinput_window_hwnd = "input"
    /\ rinput_window_hwnd = "input" => thread \in {"device", "cleanup", "activate", "loop", "add"}
    /\ thread \in {"activate", "loop", "add"} => target = "input"

\* The mouse loop does not go on before the thread is settled, and the thread
\* does not quit before the mouse loop waits for that.
Started ==
    /\ Running /\ main # "wait" => Settled
    /\ main = "wait" /\ rinput_activated => Settled
    /\ "thread" \in quit => main \in {"join", "destroy"} /\ Settled

\* What the mouse loop is about to tell.
Registered ==
    main = "set" =>
        /\ m_rinput.latchedValue = 1 => Settled
        /\ m_rinput.latchedValue = 2 => target = "game"

Truth ==
    /\ m_rinput.integer = 1 <=> Settled
    /\ m_rinput.integer = 1 =>
           /\ rinput_thread_handle = "thread" /\ rinput_window_hwnd = "input"
           /\ target = "input"
    /\ m_rinput.integer = 2 => target = "game"

Told == main \in {"frame", "unregister", "measure", "mouse", "take"} /\ ~refused => Truth

TInv == Places /\ HiddenWindow /\ Started /\ Registered /\ Told

LEMMA InputThreadTells ==
  ASSUME OneThread, TInv, InputThread
  PROVE  TInv'
<1> USE DEF TInv, Places, HiddenWindow, Started, Registered, Told, Truth, Settled, Running, OneThread,
            ThreadStep, os
<1>1. CASE RegisterClass
  BY <1>1, RInputAssumption DEF RegisterClass
<1>2. CASE CreateInputWindow
  BY <1>2, RInputAssumption DEF CreateInputWindow
<1>3. CASE RegisterInputDevice
  BY <1>3, RInputAssumption DEF RegisterInputDevice
<1>4. CASE CleanUp
  BY <1>4, RInputAssumption DEF CleanUp, WindowGone
<1>5. CASE Report
  BY <1>5, RInputAssumption DEF Report
<1>6. CASE Activate
  BY <1>6, RInputAssumption DEF Activate
<1>7. CASE BeginAdd
  BY <1>7, RInputAssumption DEF BeginAdd
<1>8. CASE EndAdd
  BY <1>8, RInputAssumption DEF EndAdd
<1>9. CASE ThreadQuits
  BY <1>9, RInputAssumption DEF ThreadQuits, WindowGone
<1> QED
  BY <1>1, <1>2, <1>3, <1>4, <1>5, <1>6, <1>7, <1>8, <1>9 DEF InputThread

LEMMA MouseLoopTells ==
  ASSUME OneThread, TInv, MouseLoop
  PROVE  TInv'
<1> USE DEF TInv, Places, HiddenWindow, Started, Registered, Told, Truth, Settled, Running, OneThread,
            MainStep, os, start
<1>1. CASE Unregister
  BY <1>1, RInputAssumption DEF Unregister, Chosen, PostQuit, Method
<1>2. CASE Joined
  BY <1>2, RInputAssumption DEF Joined, JoinInputThread, Chosen, Method
<1>3. CASE ResetOffset
  BY <1>3 DEF ResetOffset
<1>4. CASE FindOtherRinput
  BY <1>4 DEF FindOtherRinput, Drop
<1>5. CASE CreateInputThread
  BY <1>5, RInputAssumption DEF CreateInputThread
<1>6. CASE Activated
  BY <1>6 DEF Activated, Drop
<1>7. CASE RegisterGameWindow
  BY <1>7 DEF RegisterGameWindow, Drop
<1>8. CASE SetValue
  BY <1>8, RInputAssumption DEF SetValue, Method
<1>9. CASE Measure \/ BeginTake \/ EndTake \/ NothingTaken
  BY <1>9 DEF Measure, BeginTake, EndTake, NothingTaken, input
<1> QED
  BY <1>1, <1>2, <1>3, <1>4, <1>5, <1>6, <1>7, <1>8, <1>9 DEF MouseLoop

LEMMA RestTells ==
  ASSUME OneThread, TInv,
         \/ BeginMouseLoop \/ SetLatched \/ GameWindowInput \/ DestroyWindow
         \/ DestroyJoined \/ MouseMoves \/ OtherRinput \/ GameQuits \/ UNCHANGED vars
  PROVE  TInv'
<1> USE DEF TInv, Places, HiddenWindow, Started, Registered, Told, Truth, Settled, Running, OneThread,
            MainStep, os, start
<1>1. CASE BeginMouseLoop
  BY <1>1 DEF BeginMouseLoop
<1>2. CASE SetLatched
  BY <1>2 DEF SetLatched
<1>3. CASE DestroyWindow
  BY <1>3, RInputAssumption DEF DestroyWindow, Suspended, Method, PostQuit, WindowGone
<1>4. CASE DestroyJoined
  BY <1>4, RInputAssumption DEF DestroyJoined, JoinInputThread, Suspended, Method, WindowGone
<1>5. CASE \/ GameWindowInput \/ MouseMoves \/ OtherRinput \/ GameQuits
           \/ UNCHANGED vars
  BY <1>5 DEF GameWindowInput, MouseMoves, OtherRinput, GameQuits, vars
<1> QED
  BY <1>1, <1>2, <1>3, <1>4, <1>5

LEMMA NextTells == OneThread /\ TInv /\ [Next]_vars => TInv'
BY InputThreadTells, MouseLoopTells, RestTells DEF Next

LEMMA NextKeepsOne == OneThread /\ [Next]_vars => OneThread'
BY InputThreadKeepsOne, MouseLoopKeepsOne, RestKeepsOne DEF Next

LEMMA TruthAlways == Spec => [](OneThread /\ TInv)
<1>1. Init => OneThread /\ TInv
  BY RInputAssumption
  DEF Init, OneThread, Running, Method, TInv, Places, HiddenWindow, Started, Registered, Told,
      Truth, Settled
<1>2. OneThread /\ TInv /\ [Next]_vars => (OneThread /\ TInv)'
  BY NextTells, NextKeepsOne
<1> QED
  BY <1>1, <1>2, PTL DEF Spec

(* Whatever fails, is refused, destroyed or changed in whatever order, the *)
(* cvar of a client between two mouse loops says which input is connected, *)
(* unless the last change was refused; for any number of inputs.           *)
THEOREM CvarIsTrue == Spec => []CvarTellsTheTruth
<1>1. TInv => CvarTellsTheTruth
  BY DEF TInv, Told, Truth, Settled, CvarTellsTheTruth
<1> QED
  BY <1>1, TruthAlways, PTL

(* ... and WM_QUIT, which ends the game if it reaches the main thread, is  *)
(* only posted there after a refused change.                               *)
THEOREM OnlyTheThreadQuits == Spec => QuitIsForTheThread
<1>1. TInv /\ [Next]_vars => [ "main" \in quit' \ quit => refused ]_vars
  <2> SUFFICES ASSUME TInv, [Next]_vars, "main" \in quit' \ quit
               PROVE  refused
    OBVIOUS
  <2>1. CASE Unregister
    BY <2>1, RInputAssumption DEF Unregister, MainStep, PostQuit, TInv, Told, Truth
  <2>2. CASE DestroyWindow
    BY <2>2, RInputAssumption DEF DestroyWindow, MainStep, PostQuit, TInv, Told, Truth
  <2>3. CASE InputThread
    BY <2>3 DEF InputThread, RegisterClass, CreateInputWindow, RegisterInputDevice, CleanUp,
                Report, Activate, BeginAdd, EndAdd, ThreadQuits, os
  <2>4. CASE MouseLoop /\ ~Unregister
    BY <2>4 DEF MouseLoop, Joined, JoinInputThread, ResetOffset, FindOtherRinput,
                CreateInputThread, Activated, RegisterGameWindow, SetValue, Measure, BeginTake,
                EndTake, NothingTaken, os
  <2>5. CASE \/ BeginMouseLoop \/ SetLatched \/ GameWindowInput \/ DestroyJoined
             \/ MouseMoves \/ OtherRinput \/ GameQuits \/ UNCHANGED vars
    BY <2>5 DEF BeginMouseLoop, SetLatched, GameWindowInput, DestroyJoined, JoinInputThread,
                MouseMoves, OtherRinput, GameQuits, vars, os
  <2> QED
    BY <2>1, <2>2, <2>3, <2>4, <2>5 DEF Next
<1> QED
  BY <1>1, TruthAlways, PTL DEF Spec, QuitIsForTheThread

-----------------------------------------------------------------------------
(* The measurements.                                                       *)

Sample == 0 .. SAMPLE_COUNT - 1

\* The count when the sample after i began, if c says when each sample did; the
\* newest one ended with the last measurement.
EndOf(s, c, i) == IF NextSample(i) = s.index THEN s.seen ELSE c[NextSample(i)]

\* The samples are the differences of counts that never decrease, and their
\* total is what was counted since the oldest one began.
Counted(s, c) ==
    /\ s.total = s.seen - c[s.index]
    /\ \A i \in Sample :
          /\ c[i] <= s.seen /\ c[i] <= EndOf(s, c, i)
          /\ s.last[i] = EndOf(s, c, i) - c[i]

SampleInv ==
    /\ samples \in [last : [Sample -> Int], index : Sample, total : Int, seen : Nat]
    /\ samples.seen <= rinput_cnt
    /\ rate \in [hz : 0 .. MaxInput, max : 0 .. MaxInput]
    /\ \E c \in [Sample -> Nat] : Counted(samples, c)

LEMMA NextSampleTurns ==
  ASSUME NEW i \in Sample
  PROVE  /\ NextSample(i) = IF i = SAMPLE_COUNT - 1 THEN 0 ELSE i + 1
         /\ NextSample(i) \in Sample
         /\ \A j \in Sample : NextSample(j) = NextSample(i) => j = i
<1>1. ASSUME NEW j \in Sample
      PROVE  NextSample(j) = IF j = SAMPLE_COUNT - 1 THEN 0 ELSE j + 1
  <2>1. SAMPLE_COUNT \in Nat /\ SAMPLE_COUNT > 0 /\ j \in Nat /\ j < SAMPLE_COUNT
    BY RInputAssumption DEF Sample
  <2>2. CASE j = SAMPLE_COUNT - 1
    <3>1. j + 1 = SAMPLE_COUNT /\ SAMPLE_COUNT % SAMPLE_COUNT = 0
      BY <2>1, <2>2
    <3> QED
      BY <2>2, <3>1 DEF NextSample
  <2>3. CASE j # SAMPLE_COUNT - 1
    <3>1. j + 1 \in Nat /\ j + 1 < SAMPLE_COUNT
      BY <2>1, <2>3
    <3>2. (j + 1) % SAMPLE_COUNT = j + 1
      BY <2>1, <3>1
    <3> QED
      BY <2>3, <3>2 DEF NextSample
  <2> QED
    BY <2>2, <2>3
<1>2. SAMPLE_COUNT \in Nat /\ SAMPLE_COUNT > 0
  BY RInputAssumption
<1> QED
  BY <1>1, <1>2 DEF Sample

\* What Measure makes of the samples when the count is now.
Measured(s, now) ==
    LET new == now - s.seen IN
    [last  |-> IF new = 0 THEN [i \in DOMAIN s.last |-> 0] ELSE [s.last EXCEPT ![s.index] = new],
     index |-> NextSample(s.index),
     total |-> IF new = 0 THEN 0 ELSE s.total - s.last[s.index] + new,
     seen |-> now]

LEMMA MeasuringCounts ==
  ASSUME NEW s \in [last : [Sample -> Int], index : Sample, total : Int, seen : Nat],
         NEW now \in Nat, s.seen <= now,
         NEW c \in [Sample -> Nat], Counted(s, c)
  PROVE  /\ Measured(s, now) \in [last : [Sample -> Int], index : Sample, total : Int, seen : Nat]
         /\ \E d \in [Sample -> Nat] : Counted(Measured(s, now), d)
         /\ Measured(s, now).total \in 0 .. now
<1> DEFINE t == Measured(s, now)
           new == now - s.seen
<1>0. /\ s.index \in Sample /\ NextSample(s.index) \in Sample /\ s.seen \in Nat /\ s.total \in Int
      /\ s.last \in [Sample -> Int]
  BY NextSampleTurns
<1>1. t.index = NextSample(s.index) /\ t.seen = now
  BY DEF Measured
<1>2. CASE new = 0
  <2> DEFINE d == [i \in Sample |-> now]
  <2>1. t = [last |-> [i \in Sample |-> 0], index |-> NextSample(s.index), total |-> 0, seen |-> now]
    BY <1>0, <1>2 DEF Measured
  <2>2. \A i \in Sample : EndOf(t, d, i) = now
    BY <2>1, NextSampleTurns DEF EndOf
  <2>3. Counted(t, d)
    BY <1>0, <2>1, <2>2 DEF Counted
  <2> QED
    BY <1>0, <2>1, <2>3
<1>3. CASE new # 0
  <2> DEFINE d == [c EXCEPT ![s.index] = s.seen]
  <2>1. /\ t = [last |-> [s.last EXCEPT ![s.index] = new], index |-> NextSample(s.index),
                total |-> s.total - s.last[s.index] + new, seen |-> now]
        /\ new \in Int
    BY <1>0, <1>3 DEF Measured
  <2>2. d \in [Sample -> Nat]
    BY <1>0
  <2>3. /\ s.last[s.index] = EndOf(s, c, s.index) - c[s.index] /\ s.total = s.seen - c[s.index]
        /\ EndOf(s, c, s.index) \in Nat /\ c[s.index] \in Nat /\ EndOf(s, c, s.index) <= s.seen
    BY <1>0 DEF Counted, EndOf
  <2>4. d[t.index] = EndOf(s, c, s.index)
    BY <1>0, <2>1 DEF EndOf
  <2>5. t.total = t.seen - d[t.index]
    BY <1>0, <2>1, <2>3, <2>4
  <2>6. ASSUME NEW i \in Sample
        PROVE  /\ d[i] <= t.seen /\ d[i] <= EndOf(t, d, i)
               /\ t.last[i] = EndOf(t, d, i) - d[i]
    <3>1. CASE i = s.index
      <4>1. EndOf(t, d, i) = now
        BY <2>1, <3>1 DEF EndOf
      <4>2. d[i] = s.seen /\ t.last[i] = new
        BY <1>0, <2>1, <3>1
      <4> QED
        BY <1>0, <2>1, <4>1, <4>2
    <3>2. CASE i # s.index
      <4>1. NextSample(i) # t.index /\ NextSample(i) \in Sample
        BY <1>0, <1>1, <3>2, NextSampleTurns
      <4>2. EndOf(t, d, i) = EndOf(s, c, i)
        BY <1>0, <4>1 DEF EndOf
      <4>3. d[i] = c[i] /\ t.last[i] = s.last[i] /\ c[i] \in Nat
        BY <1>0, <2>1, <3>2
      <4>4. c[i] <= s.seen /\ c[i] <= EndOf(s, c, i) /\ s.last[i] = EndOf(s, c, i) - c[i]
        BY DEF Counted
      <4> QED
        BY <1>0, <1>1, <4>2, <4>3, <4>4
    <3> QED
      BY <3>1, <3>2
  <2>7. Counted(t, d)
    BY <2>5, <2>6 DEF Counted
  <2>8. t \in [last : [Sample -> Int], index : Sample, total : Int, seen : Nat]
    BY <1>0, <2>1
  <2>9. t.total \in 0 .. now
    <3>1. t.total = now - EndOf(s, c, s.index)
      BY <1>1, <2>4, <2>5
    <3>2. EndOf(s, c, s.index) <= now
      BY <1>0, <2>3
    <3> QED
      BY <2>3, <3>1, <3>2
  <2> QED
    BY <2>2, <2>7, <2>8, <2>9
<1> QED
  BY <1>2, <1>3

LEMMA SamplesStay ==
  ASSUME SampleInv, rinput_cnt \in Nat, rinput_cnt' \in Nat, rinput_cnt' >= rinput_cnt,
         UNCHANGED samples, rate' \in {rate, [hz |-> 0, max |-> 0]}
  PROVE  SampleInv'
<1>1. samples' = samples /\ samples \in [last : [Sample -> Int], index : Sample, total : Int, seen : Nat]
  BY DEF SampleInv
<1>2. samples'.seen <= rinput_cnt'
  BY <1>1 DEF SampleInv
<1>3. rate' \in [hz : 0 .. MaxInput, max : 0 .. MaxInput]
  BY RInputAssumption DEF SampleInv
<1>4. \E c \in [Sample -> Nat] : Counted(samples', c)
  BY <1>1 DEF SampleInv
<1> QED
  BY <1>1, <1>2, <1>3, <1>4 DEF SampleInv

LEMMA MeasureCounts ==
  ASSUME SampleInv, rinput_cnt \in 0 .. MaxInput, Measure
  PROVE  SampleInv'
<1>0. rinput_cnt' = rinput_cnt /\ rinput_cnt \in Nat
  BY RInputAssumption DEF Measure, input
<1>1. CASE UNCHANGED <<samples, rate>>
  BY <1>0, <1>1, SamplesStay
<1>2. CASE ~UNCHANGED <<samples, rate>>
  <2>1. /\ samples' = Measured(samples, rinput_cnt)
        /\ rate' = [hz  |-> samples'.total,
                    max |-> IF samples'.total > rate.max THEN samples'.total ELSE rate.max]
    BY <1>2 DEF Measure, Measured, NewTotal
  <2>2. PICK c \in [Sample -> Nat] : Counted(samples, c)
    BY DEF SampleInv
  <2>3. /\ samples \in [last : [Sample -> Int], index : Sample, total : Int, seen : Nat]
        /\ samples.seen <= rinput_cnt
        /\ rate \in [hz : 0 .. MaxInput, max : 0 .. MaxInput]
    BY DEF SampleInv
  <2>4. /\ samples' \in [last : [Sample -> Int], index : Sample, total : Int, seen : Nat]
        /\ \E d \in [Sample -> Nat] : Counted(samples', d)
        /\ samples'.total \in 0 .. rinput_cnt
    BY <1>0, <2>1, <2>2, <2>3, MeasuringCounts
  <2>5. samples'.seen = rinput_cnt
    BY <2>1 DEF Measured
  <2>6. samples'.total \in 0 .. MaxInput
    BY <1>0, <2>4, RInputAssumption
  <2>7. rate' \in [hz : 0 .. MaxInput, max : 0 .. MaxInput]
    BY <2>1, <2>3, <2>6
  <2> QED
    BY <1>0, <2>4, <2>5, <2>7 DEF SampleInv
<1> QED
  BY <1>1, <1>2

\* Nobody else touches the samples.
LEMMA OthersDoNotMeasure ==
  ASSUME [Next]_vars, ~Measure
  PROVE  UNCHANGED samples /\ rate' \in {rate, [hz |-> 0, max |-> 0]}
<1>1. CASE InputThread
  BY <1>1 DEF InputThread, RegisterClass, CreateInputWindow, RegisterInputDevice, CleanUp,
              Report, Activate, BeginAdd, EndAdd, ThreadQuits, ThreadStep
<1>2. CASE MouseLoop
  BY <1>2 DEF MouseLoop, Unregister, Joined, JoinInputThread, ResetOffset, FindOtherRinput,
              CreateInputThread, Activated, RegisterGameWindow, SetValue, BeginTake, EndTake,
              NothingTaken
<1>3. CASE BeginMouseLoop
  BY <1>3 DEF BeginMouseLoop
<1>4. CASE \/ SetLatched \/ GameWindowInput \/ DestroyWindow \/ DestroyJoined
           \/ MouseMoves \/ OtherRinput \/ GameQuits \/ UNCHANGED vars
  BY <1>4 DEF SetLatched, GameWindowInput, DestroyWindow, DestroyJoined, JoinInputThread,
              MouseMoves, OtherRinput, GameQuits, vars
<1> QED
  BY <1>1, <1>2, <1>3, <1>4 DEF Next

-----------------------------------------------------------------------------
(* What was received and what waits.                                       *)

\* A copy of the sum is only kept inside the critical section.
CopiesAreTemporary ==
    /\ taken = IF main = "take" THEN rinput_x ELSE 0
    /\ read = IF thread = "add" THEN rinput_x ELSE 0

Adding == IF thread = "add" THEN 1 ELSE 0

\* Every input is counted, is being added, or waits.
InputIsBounded ==
    /\ queue \in [Window -> Nat]
    /\ rinput_cnt + Adding + queue["input"] + queue["game"] <= MaxInput

CountInv ==
    /\ rinput_x \in Nat /\ rinput_cnt \in Nat /\ used \in Nat
    /\ CopiesAreTemporary
    /\ InputIsBounded

QueueShrinks ==
    /\ queue' \in [Window -> Nat]
    /\ queue'["input"] <= queue["input"] /\ queue'["game"] <= queue["game"]

LEMMA WindowGoneShrinks ==
  ASSUME queue \in [Window -> Nat], NEW w \in Window, WindowGone(w)
  PROVE  QueueShrinks
<1>1. queue' = [queue EXCEPT ![w] = 0] /\ "input" \in Window /\ "game" \in Window
  BY DEF WindowGone, Window
<1>2. queue["input"] \in Nat /\ queue["game"] \in Nat
  BY <1>1
<1> QED
  BY <1>1, <1>2 DEF QueueShrinks

LEMMA QueueStays ==
  ASSUME queue \in [Window -> Nat], UNCHANGED queue
  PROVE  QueueShrinks
BY DEF QueueShrinks, Window

LEMMA OutsideShrinks ==
  ASSUME queue \in [Window -> Nat], [Next]_vars, ~Critical
  PROVE  QueueShrinks \/ MouseMoves
<1> "input" \in Window /\ "game" \in Window
  BY DEF Window
<1>1. CASE InputThread
  <2>1. CASE RegisterClass \/ CreateInputWindow \/ RegisterInputDevice \/ Report \/ Activate
    BY <2>1, QueueStays
    DEF RegisterClass, CreateInputWindow, RegisterInputDevice, Report, Activate, os
  <2>2. CASE CleanUp \/ ThreadQuits
    BY <2>2, WindowGoneShrinks DEF CleanUp, ThreadQuits
  <2> QED
    BY <1>1, <2>1, <2>2 DEF InputThread, Critical
<1>2. CASE MouseLoop
  <2>1. UNCHANGED queue
    BY <1>2 DEF MouseLoop, Critical, Unregister, Joined, FindOtherRinput, CreateInputThread,
                Activated, RegisterGameWindow, SetValue, Measure, NothingTaken, os
  <2> QED
    BY <2>1, QueueStays
<1>3. CASE DestroyWindow
  <2>1. WindowGone("game") \/ UNCHANGED queue
    BY <1>3 DEF DestroyWindow
  <2> QED
    BY <2>1, QueueStays, WindowGoneShrinks
<1>4. CASE DestroyJoined
  BY <1>4, WindowGoneShrinks DEF DestroyJoined
<1>5. CASE BeginMouseLoop \/ SetLatched \/ OtherRinput \/ GameQuits \/ UNCHANGED vars
  BY <1>5, QueueStays DEF BeginMouseLoop, SetLatched, OtherRinput, GameQuits, os, vars
<1> QED
  BY <1>1, <1>2, <1>3, <1>4, <1>5 DEF Next, Critical

LEMMA NextCounts ==
  ASSUME OneThread, Exclusion, CountInv, target \in Window \cup {NULL}, [Next]_vars
  PROVE  CountInv' /\ rinput_cnt' >= rinput_cnt
<1> USE DEF CountInv, InputIsBounded, CopiesAreTemporary, Adding
<1>0. /\ "input" \in Window /\ "game" \in Window
      /\ queue["input"] \in Nat /\ queue["game"] \in Nat
  BY DEF Window
<1>1. CASE BeginAdd
  <2>1. /\ thread = "loop" /\ thread' = "add" /\ inside = {} /\ read' = rinput_x
        /\ UNCHANGED <<main, taken, used, rinput_x, rinput_cnt>>
        /\ queue["input"] > 0 /\ queue' = [queue EXCEPT !["input"] = @ - 1]
    BY <1>1 DEF BeginAdd, ThreadStep, Enter
  <2>2. /\ queue' \in [Window -> Nat] /\ queue'["input"] = queue["input"] - 1
        /\ queue'["game"] = queue["game"]
    BY <1>0, <2>1
  <2> QED
    BY <1>0, <2>1, <2>2
<1>2. CASE EndAdd
  <2>1. /\ thread = "add" /\ thread' = "loop" /\ read' = 0
        /\ UNCHANGED <<main, taken, used, queue>>
        /\ rinput_x' = read + 1 /\ rinput_cnt' = rinput_cnt + 1
    BY <1>2 DEF EndAdd, ThreadStep, os
  <2>2. main # "take"
    BY <2>1 DEF Exclusion
  <2> QED
    BY <1>0, <2>1, <2>2
<1>3. CASE BeginTake
  <2>1. /\ main' = "take" /\ taken' = rinput_x
        /\ UNCHANGED <<thread, queue, read, used, rinput_x, rinput_cnt>>
    BY <1>3 DEF BeginTake, MainStep, os
  <2> QED
    BY <1>0, <2>1
<1>4. CASE EndTake
  <2>1. /\ main = "take" /\ main' = "frame" /\ taken' = 0 /\ rinput_x' = 0
        /\ used' = used + taken
        /\ UNCHANGED <<thread, queue, read, rinput_cnt>>
    BY <1>4 DEF EndTake, MainStep, os
  <2>2. thread # "add"
    BY <2>1 DEF Exclusion
  <2> QED
    BY <1>0, <2>1, <2>2
<1>5. CASE ResetOffset
  <2>1. /\ main = "register" /\ main' = "find" /\ rinput_x' = 0 /\ used' = used + rinput_x
        /\ inside = {} /\ UNCHANGED <<thread, queue, read, taken, rinput_cnt>>
    BY <1>5 DEF ResetOffset, MainStep, os
  <2>2. thread # "add"
    BY <2>1 DEF Exclusion
  <2> QED
    BY <1>0, <2>1, <2>2
<1>6. CASE GameWindowInput
  <2>1. /\ main = "frame" /\ inside = {} /\ rinput_x' = rinput_x + 1 /\ rinput_cnt' = rinput_cnt + 1
        /\ UNCHANGED <<thread, main, read, taken, used>>
        /\ queue["game"] > 0 /\ queue' = [queue EXCEPT !["game"] = @ - 1]
    BY <1>6 DEF GameWindowInput
  <2>2. thread # "add"
    BY <2>1 DEF Exclusion
  <2>3. /\ queue' \in [Window -> Nat] /\ queue'["game"] = queue["game"] - 1
        /\ queue'["input"] = queue["input"]
    BY <1>0, <2>1 DEF Window
  <2> QED
    BY <1>0, <2>1, <2>2, <2>3
<1>7. CASE MouseMoves
  <2>1. /\ UNCHANGED <<thread, main, rinput_x, rinput_cnt, read, taken, used>>
        /\ rinput_cnt + Adding + queue["input"] + queue["game"] < MaxInput
        /\ target \in Window /\ queue' = [queue EXCEPT ![target] = @ + 1]
    BY <1>7 DEF MouseMoves, input
  <2>2. /\ queue' \in [Window -> Nat]
        /\ queue'["input"] + queue'["game"] = queue["input"] + queue["game"] + 1
    BY <1>0, <2>1 DEF Window
  <2> QED
    BY <1>0, <2>1, <2>2, RInputAssumption
<1>8. CASE Outside /\ QueueShrinks
  <2>1. /\ UNCHANGED <<rinput_x, rinput_cnt, read, taken, used>>
        /\ main' = "take" <=> main = "take"
        /\ thread' = "add" <=> thread = "add"
    BY <1>8 DEF Outside, input
  <2>2. /\ queue' \in [Window -> Nat] /\ queue'["input"] \in Nat /\ queue'["game"] \in Nat
        /\ queue'["input"] <= queue["input"] /\ queue'["game"] <= queue["game"]
    BY <1>0, <1>8 DEF QueueShrinks
  <2> QED
    BY <1>0, <2>1, <2>2, RInputAssumption
<1> QED
  BY <1>1, <1>2, <1>3, <1>4, <1>5, <1>6, <1>7, <1>8, NextIsOutside, OutsideShrinks DEF Critical

-----------------------------------------------------------------------------
(* Types.                                                                  *)

PlainTypes ==
    /\ main \in {"frame", "unregister", "join", "register", "find", "wait", "set",
                 "measure", "mouse", "take", "destroy", "ended"}
    /\ rinput_activated \in BOOLEAN /\ rinput_error \in BOOLEAN
    /\ class \in BOOLEAN /\ otherRinput \in BOOLEAN /\ refused \in BOOLEAN
    /\ target \in Window \cup {NULL}
    /\ quit \subseteq {"main", "thread"}

LEMMA InputThreadTypes ==
  ASSUME PlainTypes, InputThread
  PROVE  PlainTypes'
<1> USE DEF PlainTypes, ThreadStep, os, Window
<1>1. CASE RegisterClass \/ CreateInputWindow \/ RegisterInputDevice
  BY <1>1 DEF RegisterClass, CreateInputWindow, RegisterInputDevice
<1>2. CASE CleanUp
  BY <1>2 DEF CleanUp, WindowGone
<1>3. CASE Report \/ Activate
  BY <1>3 DEF Report, Activate
<1>4. CASE BeginAdd \/ EndAdd
  BY <1>4 DEF BeginAdd, EndAdd
<1>5. CASE ThreadQuits
  BY <1>5 DEF ThreadQuits, WindowGone
<1> QED
  BY <1>1, <1>2, <1>3, <1>4, <1>5 DEF InputThread

LEMMA MouseLoopTypes ==
  ASSUME PlainTypes, MouseLoop
  PROVE  PlainTypes'
<1> USE DEF PlainTypes, MainStep, Drop, start, os, Window
<1>1. CASE Unregister
  BY <1>1 DEF Unregister, Chosen, PostQuit
<1>2. CASE Joined
  BY <1>2 DEF Joined, JoinInputThread, Chosen
<1>3. CASE ResetOffset \/ FindOtherRinput
  BY <1>3 DEF ResetOffset, FindOtherRinput
<1>4. CASE CreateInputThread \/ Activated
  BY <1>4 DEF CreateInputThread, Activated
<1>5. CASE RegisterGameWindow \/ SetValue
  BY <1>5 DEF RegisterGameWindow, SetValue
<1>6. CASE Measure \/ BeginTake \/ EndTake \/ NothingTaken
  BY <1>6 DEF Measure, BeginTake, EndTake, NothingTaken
<1> QED
  BY <1>1, <1>2, <1>3, <1>4, <1>5, <1>6 DEF MouseLoop

LEMMA RestTypes ==
  ASSUME PlainTypes,
         \/ BeginMouseLoop \/ SetLatched \/ GameWindowInput \/ DestroyWindow
         \/ DestroyJoined \/ MouseMoves \/ OtherRinput \/ GameQuits \/ UNCHANGED vars
  PROVE  PlainTypes'
<1> USE DEF PlainTypes, MainStep, start, os, Window
<1>1. CASE BeginMouseLoop \/ SetLatched \/ GameWindowInput
  BY <1>1 DEF BeginMouseLoop, SetLatched, GameWindowInput
<1>2. CASE DestroyWindow
  BY <1>2 DEF DestroyWindow, PostQuit, WindowGone
<1>3. CASE DestroyJoined
  BY <1>3 DEF DestroyJoined, JoinInputThread, WindowGone
<1>4. CASE MouseMoves \/ OtherRinput \/ GameQuits \/ UNCHANGED vars
  BY <1>4 DEF MouseMoves, OtherRinput, GameQuits, vars
<1> QED
  BY <1>1, <1>2, <1>3, <1>4

LEMMA NextPlainTypes == PlainTypes /\ [Next]_vars => PlainTypes'
BY InputThreadTypes, MouseLoopTypes, RestTypes DEF Next

TypeInv == IInv /\ TInv /\ PlainTypes /\ CountInv /\ SampleInv

LEMMA InitTypes == Init => TypeInv
<1> SUFFICES ASSUME Init PROVE TypeInv
  OBVIOUS
<1>1. PlainTypes
  BY DEF Init, PlainTypes
<1>2. CountInv
  BY RInputAssumption DEF Init, CountInv, CopiesAreTemporary, InputIsBounded, Adding, Window
<1>3. SampleInv
  <2>1. 0 \in Sample /\ SAMPLE_COUNT \in Nat
    BY RInputAssumption DEF Sample
  <2> DEFINE c == [i \in Sample |-> 0]
  <2>2. /\ samples = [last |-> [i \in Sample |-> 0], index |-> 0, total |-> 0, seen |-> 0]
        /\ rinput_cnt = 0 /\ rate = [hz |-> 0, max |-> 0]
    BY DEF Init, Sample
  <2>3. \A i \in Sample : EndOf(samples, c, i) = 0
    BY <2>2, NextSampleTurns DEF EndOf
  <2>4. Counted(samples, c)
    BY <2>1, <2>2, <2>3 DEF Counted
  <2>5. rate \in [hz : 0 .. MaxInput, max : 0 .. MaxInput]
    BY <2>2, RInputAssumption
  <2> QED
    BY <2>1, <2>2, <2>4, <2>5 DEF SampleInv
<1>4. OneThread /\ TInv
  BY RInputAssumption
  DEF Init, OneThread, Running, Method, TInv, Places, HiddenWindow, Started, Registered, Told,
      Truth, Settled
<1>5. Kept
  BY DEF Init, Kept, Counts, Exclusion, CopiesAreCurrent, MovementIsKept
<1> QED
  BY <1>1, <1>2, <1>3, <1>4, <1>5 DEF TypeInv, IInv

LEMMA NextTypes == TypeInv /\ [Next]_vars => TypeInv'
<1> SUFFICES ASSUME TypeInv, [Next]_vars PROVE TypeInv'
  OBVIOUS
<1>1. OneThread' /\ Kept' /\ TInv' /\ PlainTypes'
  BY NextKeepsOne, NextKeeps, NextTells, NextPlainTypes DEF TypeInv, IInv
<1>2. CountInv' /\ rinput_cnt' >= rinput_cnt
  BY NextCounts DEF TypeInv, IInv, Kept, PlainTypes
<1>3. rinput_cnt \in Nat /\ rinput_cnt' \in Nat /\ rinput_cnt <= MaxInput
  <2>1. queue["input"] \in Nat /\ queue["game"] \in Nat
    BY DEF TypeInv, CountInv, InputIsBounded, Window
  <2> QED
    BY <1>2, <2>1, RInputAssumption DEF TypeInv, CountInv, InputIsBounded, Adding
<1>4. SampleInv'
  <2>1. CASE Measure
    BY <1>3, <2>1, MeasureCounts, RInputAssumption DEF TypeInv
  <2>2. CASE ~Measure
    BY <1>2, <1>3, <2>2, OthersDoNotMeasure, SamplesStay DEF TypeInv
  <2> QED
    BY <2>1, <2>2
<1> QED
  BY <1>1, <1>2, <1>4 DEF TypeInv, IInv

LEMMA CountedIsBounded ==
  ASSUME SampleInv, rinput_cnt \in 0 .. MaxInput
  PROVE  samples \in [last : [0 .. SAMPLE_COUNT - 1 -> 0 .. MaxInput],
                      index : 0 .. SAMPLE_COUNT - 1,
                      total : 0 .. MaxInput, seen : 0 .. MaxInput]
<1>1. /\ samples \in [last : [Sample -> Int], index : Sample, total : Int, seen : Nat]
      /\ samples.seen <= rinput_cnt
  BY DEF SampleInv
<1>2. PICK c \in [Sample -> Nat] : Counted(samples, c)
  BY DEF SampleInv
<1>3. samples.seen \in 0 .. MaxInput
  BY <1>1, RInputAssumption
<1>4. samples.total \in 0 .. MaxInput
  <2>1. c[samples.index] \in Nat /\ c[samples.index] <= samples.seen
        /\ samples.total = samples.seen - c[samples.index]
    BY <1>1, <1>2 DEF Counted
  <2> QED
    BY <1>3, <2>1, RInputAssumption
<1>5. ASSUME NEW i \in Sample
      PROVE  samples.last[i] \in 0 .. MaxInput
  <2>1. EndOf(samples, c, i) \in Nat /\ EndOf(samples, c, i) <= samples.seen
    BY <1>1, <1>2, NextSampleTurns DEF EndOf, Counted
  <2>2. c[i] \in Nat /\ c[i] <= EndOf(samples, c, i)
        /\ samples.last[i] = EndOf(samples, c, i) - c[i]
    BY <1>2 DEF Counted
  <2> QED
    BY <1>3, <2>1, <2>2, RInputAssumption
<1>6. samples.last \in [Sample -> 0 .. MaxInput]
  BY <1>1, <1>5
<1> QED
  BY <1>1, <1>3, <1>4, <1>6 DEF Sample

LEMMA TypeInvImplies == TypeInv => TypeOK
<1> SUFFICES ASSUME TypeInv PROVE TypeOK
  OBVIOUS
<1>1. /\ rinput_x \in Nat /\ rinput_cnt \in Nat /\ used \in Nat
      /\ queue["input"] \in Nat /\ queue["game"] \in Nat /\ queue \in [Window -> Nat]
      /\ rinput_cnt + Adding + queue["input"] + queue["game"] <= MaxInput
      /\ Adding \in Nat /\ MaxInput \in Nat
      /\ rinput_cnt = used + rinput_x
  BY RInputAssumption
  DEF TypeInv, CountInv, InputIsBounded, Window, Adding, IInv, Kept, MovementIsKept
<1>2. /\ rinput_x \in 0 .. MaxInput /\ rinput_cnt \in 0 .. MaxInput /\ used \in 0 .. MaxInput
      /\ 0 \in 0 .. MaxInput
  BY <1>1
<1>3. taken \in 0 .. MaxInput /\ read \in 0 .. MaxInput
  BY <1>2 DEF TypeInv, CountInv, CopiesAreTemporary
<1>4. queue \in [Window -> 0 .. MaxInput]
  <2>1. queue["input"] \in 0 .. MaxInput /\ queue["game"] \in 0 .. MaxInput
    BY <1>1
  <2> QED
    BY <1>1, <2>1 DEF Window
<1>5. /\ samples \in [last : [0 .. SAMPLE_COUNT - 1 -> 0 .. MaxInput],
                      index : 0 .. SAMPLE_COUNT - 1,
                      total : 0 .. MaxInput, seen : 0 .. MaxInput]
      /\ rate \in [hz : 0 .. MaxInput, max : 0 .. MaxInput]
  BY <1>2, CountedIsBounded DEF TypeInv, SampleInv
<1>6. inside \in SUBSET {"main", "thread"}
  BY DEF TypeInv, IInv, Kept, Exclusion
<1> QED
  BY <1>2, <1>3, <1>4, <1>5, <1>6
  DEF TypeInv, TypeOK, IInv, OneThread, TInv, Places, PlainTypes

(* The state is well formed, and in particular the input rate, which is    *)
(* kept as a running total of a ring of samples, is never negative and     *)
(* never more than the inputs received, for any number of samples.         *)
THEOREM RInputTypeCorrect == Spec => []TypeOK
BY InitTypes, NextTypes, TypeInvImplies, PTL DEF Spec
=============================================================================
