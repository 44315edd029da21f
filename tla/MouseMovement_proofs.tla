------------------------ MODULE MouseMovement_proofs ------------------------
(***************************************************************************)
(* Theorems about the mouse of the Windows client: the types, what may     *)
(* turn the view, and who may move the system cursor.                      *)
(***************************************************************************)
EXTENDS MouseMovement, TLAPS

\* While the system cursor is hidden and no windowed menu leads it, it is where
\* the last frame has put it, plus what the mouse moved.
CursorIsPut ==
    ~mode.rinput /\ mouse_ingameMouseActive /\ ~(in_menu_last /\ ~mode.fullscreen)
        => cursor = OnDesktop(mouse_center_x) + moved

IInv == TypeOK /\ CursorIsPut

-----------------------------------------------------------------------------
(* Arithmetic.                                                             *)

LEMMA QuotientIsInt ==
  ASSUME NEW a \in Int, NEW b \in Nat \ {0}
  PROVE  Quotient(a, b) \in Int
<1>1. CASE a >= 0
  BY <1>1 DEF Quotient
<1>2. CASE a < 0
  <2>1. -a \in Int /\ (-a) \div b \in Int
    OBVIOUS
  <2> QED
    BY <1>2, <2>1 DEF Quotient
<1> QED
  BY <1>1, <1>2

LEMMA DesktopHoldsCursor ==
  ASSUME NEW x \in Int
  PROVE  OnDesktop(x) \in 0 .. Desktop - 1
BY MouseAssumption DEF OnDesktop, Between

LEMMA WindowSize ==
  ASSUME TypeOK
  PROVE  /\ ClientWidth \in Nat /\ ClientLeft \in Int /\ cursorRelative \in Int
         /\ ~minimized => ClientWidth \in Nat \ {0}
BY MouseAssumption DEF TypeOK, ClientWidth, ClientLeft, cursorRelative

LEMMA CenterIsInt ==
  ASSUME TypeOK, Activate
  PROVE  mouse_ingameMouseActive' \in BOOLEAN /\ mouse_center_x' \in Int
<1>1. ClientLeft + (ClientLeft + ClientWidth) \in Int
  BY WindowSize
<1> QED
  BY <1>1, QuotientIsInt DEF Activate

-----------------------------------------------------------------------------
(* The invariant.                                                          *)

LEMMA InitCorrect == Init => IInv
<1> SUFFICES ASSUME Init
             PROVE  IInv
  OBVIOUS
<1>1. inbox \in Seq({"activate", "deactivate", "minimize"})
  BY DEF Init
<1>2. 0 \in 0 .. MenuWidth
  BY MouseAssumption
<1>3. TypeOK
  BY <1>1, <1>2, MouseAssumption DEF Init, TypeOK
<1> QED
  BY <1>3 DEF Init, IInv, CursorIsPut

\* Everything but Mouse_ProcessMovement.
LEMMA DesktopStep ==
  ASSUME IInv, MoveMouse \/ SwitchWindow \/ ToggleMenu \/ WM_ACTIVATE \/ WM_MOVE
               \/ WM_BUTTONDOWN
  PROVE  IInv'
<1> USE DEF IInv
<1>1. CASE MoveMouse
  <2>1. PICK d \in Steps :
           /\ SetCursorPos(cursor + d)
           /\ IF mode.rinput
              THEN raw' = (IF foreground THEN raw + d ELSE raw) /\ UNCHANGED moved
              ELSE moved' = moved + cursor' - cursor /\ UNCHANGED raw
    BY <1>1 DEF MoveMouse
  <2>2. d \in Int
    BY MouseAssumption
  <2>3. cursor' \in 0 .. Desktop - 1 /\ raw' \in Int /\ moved' \in Int
    <3>1. cursor \in Int /\ cursor + d \in Int
      BY <2>2, MouseAssumption DEF TypeOK
    <3>2. cursor' \in 0 .. Desktop - 1
      BY <2>1, <3>1, DesktopHoldsCursor DEF SetCursorPos
    <3>3. cursor' \in Int
      BY <3>2, MouseAssumption
    <3>4. CASE mode.rinput
      BY <2>1, <2>2, <3>2, <3>4 DEF TypeOK
    <3>5. CASE ~mode.rinput
      BY <2>1, <3>1, <3>2, <3>3, <3>5 DEF TypeOK
    <3> QED
      BY <3>4, <3>5
  <2>4. TypeOK'
    BY <1>1, <2>3 DEF MoveMouse, TypeOK, window, ingame, menu, ViewStays
  <2>5. OnDesktop(mouse_center_x) \in Int
    BY DesktopHoldsCursor, MouseAssumption DEF TypeOK
  <2>6. CursorIsPut'
    <3>1. UNCHANGED <<mode, mouse_ingameMouseActive, mouse_center_x, in_menu_last>>
      BY <1>1 DEF MoveMouse, ingame, menu
    <3>2. OnDesktop(mouse_center_x)' = OnDesktop(mouse_center_x)
      BY <3>1 DEF OnDesktop, Between
    <3>3. cursor \in Int /\ cursor' \in Int /\ moved \in Int
      BY <2>3, MouseAssumption DEF TypeOK
    <3> QED
      BY <2>1, <2>5, <3>1, <3>2, <3>3 DEF CursorIsPut
  <2> QED
    BY <2>4, <2>6
<1>2. CASE SwitchWindow
  <2>1. inbox' \in Seq({"activate", "deactivate", "minimize"})
    BY <1>2 DEF SwitchWindow, TypeOK
  <2>2. foreground' \in BOOLEAN /\ minimized' \in BOOLEAN
    BY <1>2, Zenon DEF SwitchWindow, TypeOK
  <2>3. TypeOK'
    BY <1>2, <2>1, <2>2 DEF SwitchWindow, TypeOK, mouse, ingame, menu, ViewStays
  <2> QED
    BY <1>2, <2>3 DEF SwitchWindow, CursorIsPut, mouse, ingame, menu, OnDesktop, Between
<1>3. CASE ToggleMenu
  BY <1>3 DEF ToggleMenu, TypeOK, CursorIsPut, window, mouse, ingame, menu, ViewStays,
              OnDesktop, Between
<1>4. CASE WM_ACTIVATE
  <2>1. inbox' \in Seq({"activate", "deactivate", "minimize"})
    BY <1>4 DEF WM_ACTIVATE, TypeOK
  <2>2. TypeOK'
    <3>1. win_isActivated' \in BOOLEAN /\ mouse_windowIsActive' \in BOOLEAN
      BY <1>4, Zenon DEF WM_ACTIVATE
    <3>2. mouse_ingameMouseActive' \in BOOLEAN /\ mouse_center_x' = mouse_center_x
      BY <1>4 DEF WM_ACTIVATE, TypeOK, ingame, Deactivate
    <3> QED
      BY <1>4, <2>1, <3>1, <3>2 DEF WM_ACTIVATE, TypeOK, mouse, menu, ViewStays
  <2> QED
    BY <1>4, <2>2 DEF WM_ACTIVATE, CursorIsPut, mouse, ingame, menu, Deactivate,
                      OnDesktop, Between
<1>5. CASE WM_MOVE
  BY <1>5 DEF WM_MOVE, TypeOK, CursorIsPut, mouse, ingame, menu, ViewStays,
              OnDesktop, Between
<1>6. CASE WM_BUTTONDOWN
  BY <1>6 DEF WM_BUTTONDOWN, TypeOK, CursorIsPut, mouse, ingame, menu, ViewStays,
              OnDesktop, Between
<1> QED
  BY <1>1, <1>2, <1>3, <1>4, <1>5, <1>6

\* What a frame leaves well formed, whatever it does with the cursor.
LEMMA FrameKeepsTypes ==
  ASSUME TypeOK, Process,
         cursor' \in 0 .. Desktop - 1, raw' \in Int, mouse_offset_x' \in Int,
         mouse_ingameMouseActive' \in BOOLEAN, mouse_center_x' \in Int,
         menu_cursorX' \in Int, mode.fullscreen => menu_cursorX' \in 0 .. MenuWidth
  PROVE  TypeOK'
BY DEF TypeOK, Process, window

LEMMA WindowedMenuStep ==
  ASSUME IInv, WindowedMenuOpens \/ WindowedMenuMinimized \/ WindowedMenu
  PROVE  IInv'
<1> USE DEF IInv
<1>1. windowedMenu /\ Process /\ ViewStays /\ UNCHANGED raw
  BY DEF WindowedMenuOpens, WindowedMenuMinimized, WindowedMenu
<1>2. raw' \in Int /\ mouse_offset_x' \in Int
  BY <1>1 DEF ViewStays, TypeOK
<1>3. CursorIsPut'
  BY <1>1 DEF windowedMenu, Process, CursorIsPut
<1>4. CASE WindowedMenuOpens
  <2>1. menu_cursorX' \in Int
    BY <1>4, MouseAssumption DEF WindowedMenuOpens, TypeOK
  <2>2. ClientLeft + (menu_cursorX' * ClientWidth) \div MenuWidth \in Int
    <3>1. menu_cursorX' * ClientWidth \in Int
      BY <2>1, WindowSize
    <3> QED
      BY <3>1, WindowSize, MouseAssumption
  <2>3. cursor' \in 0 .. Desktop - 1
    BY <1>4, <2>2, DesktopHoldsCursor DEF WindowedMenuOpens, SetCursorPos
  <2> QED
    BY <1>1, <1>2, <1>3, <1>4, <2>1, <2>3, FrameKeepsTypes
       DEF WindowedMenuOpens, windowedMenu, ingame, TypeOK
<1>5. CASE WindowedMenuMinimized
  BY <1>1, <1>2, <1>3, <1>5, FrameKeepsTypes
     DEF WindowedMenuMinimized, Deactivate, windowedMenu, TypeOK
<1>6. CASE WindowedMenu
  <2>1. menu_cursorX' \in Int
    <3>1. cursorRelative * MenuWidth \in Int /\ ClientWidth \in Nat \ {0}
      BY <1>6, WindowSize, MouseAssumption DEF WindowedMenu
    <3> QED
      BY <1>6, <3>1, QuotientIsInt DEF WindowedMenu
  <2>2. Activate \/ Deactivate \/ UNCHANGED ingame
    BY <1>6 DEF WindowedMenu
  <2>3. mouse_ingameMouseActive' \in BOOLEAN /\ mouse_center_x' \in Int
    BY <2>2, CenterIsInt DEF Deactivate, ingame, TypeOK
  <2> QED
    BY <1>1, <1>2, <1>3, <1>6, <2>1, <2>3, FrameKeepsTypes
       DEF WindowedMenu, windowedMenu, TypeOK
<1> QED
  BY <1>4, <1>5, <1>6

LEMMA CenteringStep ==
  ASSUME IInv, NoFocus \/ CursorStaysOutside \/ CursorIsTaken \/ Movement
  PROVE  IInv'
<1> USE DEF IInv
<1>1. CASE NoFocus
  <2>1. TypeOK'
    <3>1. /\ Process /\ UNCHANGED <<cursor, raw, mouse_center_x, menu_cursorX>>
          /\ mouse_offset_x' = 0 /\ mouse_ingameMouseActive' = FALSE
      BY <1>1 DEF NoFocus, Deactivate, ViewStays
    <3>2. mouse_ingameMouseActive' \in BOOLEAN
      BY <3>1
    <3>3. /\ cursor' \in 0 .. Desktop - 1 /\ raw' \in Int /\ mouse_offset_x' \in Int
          /\ mouse_center_x' \in Int /\ menu_cursorX' \in Int
          /\ mode.fullscreen => menu_cursorX' \in 0 .. MenuWidth
      BY <3>1 DEF TypeOK
    <3> QED
      BY <3>1, <3>2, <3>3, FrameKeepsTypes
  <2>2. CursorIsPut'
    BY <1>1 DEF NoFocus, Deactivate, CursorIsPut
  <2> QED
    BY <2>1, <2>2
<1>2. CASE CursorStaysOutside
  <2>1. TypeOK'
    BY <1>2, FrameKeepsTypes DEF CursorStaysOutside, ingame, ViewStays, TypeOK
  <2>2. CursorIsPut'
    BY <1>2 DEF CursorStaysOutside, ingame, CursorIsPut
  <2> QED
    BY <2>1, <2>2
<1>3. CASE CursorIsTaken
  <2>1. mouse_ingameMouseActive' \in BOOLEAN /\ mouse_center_x' \in Int
    BY <1>3, CenterIsInt DEF CursorIsTaken
  <2>2. cursor' = OnDesktop(mouse_center_x)' /\ cursor' \in 0 .. Desktop - 1
    BY <1>3, <2>1, DesktopHoldsCursor DEF CursorIsTaken, SetCursorPos, OnDesktop, Between
  <2>3. TypeOK'
    BY <1>3, <2>1, <2>2, FrameKeepsTypes DEF CursorIsTaken, ViewStays, TypeOK
  <2>4. CursorIsPut'
    BY <1>3, <2>2, MouseAssumption DEF CursorIsTaken, Process, CursorIsPut
  <2> QED
    BY <2>3, <2>4
<1>4. CASE Movement
  <2>1. Process /\ UNCHANGED ingame /\ raw' = 0 /\ moved' = 0
    BY <1>4 DEF Movement, Process
  <2>2. cursor' = OnDesktop(mouse_center_x)' /\ cursor' \in 0 .. Desktop - 1
    BY <1>4, <2>1, DesktopHoldsCursor
       DEF Movement, SetCursorPos, OnDesktop, Between, ingame, TypeOK
  <2>3. Offset \in Int
    BY MouseAssumption DEF Offset, cursorPoint, TypeOK
  <2>4. /\ mouse_offset_x' \in Int /\ menu_cursorX' \in Int
        /\ mode.fullscreen => menu_cursorX' \in 0 .. MenuWidth
    BY <1>4, <2>3, MouseAssumption DEF Movement, ViewStays, Between, TypeOK
  <2>5. TypeOK'
    BY <2>1, <2>2, <2>4, FrameKeepsTypes DEF ingame, TypeOK
  <2>6. CursorIsPut'
    BY <2>1, <2>2, MouseAssumption DEF CursorIsPut
  <2> QED
    BY <2>5, <2>6
<1> QED
  BY <1>1, <1>2, <1>3, <1>4

LEMMA NextKeepsIInv == IInv /\ [Next]_vars => IInv'
<1> SUFFICES ASSUME IInv, [Next]_vars
             PROVE  IInv'
  OBVIOUS
<1>1. CASE UNCHANGED vars
  BY <1>1 DEF vars, window, mouse, ingame, menu, IInv, TypeOK, CursorIsPut, OnDesktop, Between
<1>2. CASE Mouse_ProcessMovement
  BY <1>2, WindowedMenuStep, CenteringStep DEF Mouse_ProcessMovement
<1>3. CASE MoveMouse \/ SwitchWindow \/ ToggleMenu \/ WM_ACTIVATE \/ WM_MOVE \/ WM_BUTTONDOWN
  BY <1>3, DesktopStep
<1> QED
  BY <1>1, <1>2, <1>3 DEF Next

LEMMA Invariance == Spec => []IInv
BY InitCorrect, NextKeepsIInv, PTL DEF Spec

-----------------------------------------------------------------------------
\* The state of the mouse is well formed, for every size of the desktop and the
\* window, and the cursor of a fullscreen menu never leaves it.
THEOREM MouseTypeCorrect == Spec => []TypeOK
BY Invariance, PTL DEF IInv

\* Whatever happened since the frame before, the view turns by the movement of the
\* mouse or not at all.
THEOREM ViewFollows == Spec => ViewFollowsMouse
<1>1. IInv /\ [Next]_vars =>
        [OnDesktop(mouse_center_x) = mouse_center_x =>
            mouse_offset_x' \in {0, IF mode.rinput THEN raw ELSE moved}]_vars
  <2> SUFFICES ASSUME IInv, Next, OnDesktop(mouse_center_x) = mouse_center_x
               PROVE  mouse_offset_x' \in {0, IF mode.rinput THEN raw ELSE moved}
    OBVIOUS
  <2>1. CASE Movement
    <3>1. CASE in_menu
      BY <2>1, <3>1 DEF Movement, ViewStays
    <3>2. CASE ~in_menu /\ mode.rinput
      BY <2>1, <3>2 DEF Movement, Offset
    <3>3. CASE ~in_menu /\ ~mode.rinput
      <4>1. mouse_offset_x' = cursorPoint - mouse_center_x
        BY <2>1, <3>3 DEF Movement, Offset
      <4>2. CASE menu_changed /\ ~mode.fullscreen
        BY <4>1, <4>2, <3>3 DEF cursorPoint, IInv, TypeOK
      <4>3. CASE ~(menu_changed /\ ~mode.fullscreen)
        <5>1. cursor = mouse_center_x + moved
          BY <2>1, <3>3, <4>3 DEF IInv, TypeOK, CursorIsPut, menu_changed, Movement
        <5> QED
          BY <4>1, <4>3, <5>1, <3>3 DEF cursorPoint, IInv, TypeOK
      <4> QED
        BY <4>2, <4>3
    <3> QED
      BY <3>1, <3>2, <3>3
  <2>2. CASE ~Movement
    BY <2>2 DEF Next, Mouse_ProcessMovement, MoveMouse, SwitchWindow, ToggleMenu, WM_ACTIVATE,
                WM_MOVE, WM_BUTTONDOWN, WindowedMenuOpens, WindowedMenuMinimized,
                WindowedMenu, NoFocus, CursorStaysOutside, CursorIsTaken, ViewStays
  <2> QED
    BY <2>1, <2>2
<1> QED
  BY <1>1, Invariance, PTL DEF Spec, ViewFollowsMouse

\* Nothing but the opening of a windowed menu moves the cursor of another window.
THEOREM OthersKeepTheCursor == Spec => CursorIsFree
<1>1. [Next]_vars =>
        [Mouse_ProcessMovement /\ ~foreground => cursor' = cursor \/ WindowedMenuOpens]_vars
  BY DEF Mouse_ProcessMovement, WindowedMenuMinimized, WindowedMenu, NoFocus,
         CursorStaysOutside, CursorIsTaken, Movement, HasFocus
<1> QED
  BY <1>1, PTL DEF Spec, CursorIsFree
=============================================================================
