--------------------------- MODULE MouseMovement ---------------------------
(***************************************************************************)
(* How the Windows client turns the system cursor into the cursor of a     *)
(* menu or a movement of the view (Mouse_ProcessMovement and the window    *)
(* procedure, src/src/mss32/window.cpp).                                   *)
(*                                                                         *)
(* In a windowed menu the menu cursor follows the system cursor.  In the   *)
(* game, and in every menu of the fullscreen mode, the system cursor is    *)
(* put back to the center of the window in every frame, and the distance   *)
(* it went, or what raw input collected, is the movement.  Meanwhile other *)
(* windows take the foreground, and the messages about it come later.      *)
(*                                                                         *)
(* One axis is modelled, the borders of the window are not.  The mode is   *)
(* chosen at the start; how raw input is switched is in RInput.            *)
(***************************************************************************)
EXTENDS Integers, Sequences

CONSTANTS
    Desktop,            \* width of the desktop
    Width,              \* width of the window, unless it is fullscreen
    MenuWidth,          \* 640
    Lefts,              \* where the window may be
    Steps,              \* movements of the mouse between two frames
    MaxMoved,           \* bound on what is moved before a frame takes it
    MaxInbox            \* bound on the messages that wait

ASSUME MouseAssumption ==
    /\ Desktop \in Nat \ {0} /\ Width \in 1 .. Desktop /\ MenuWidth \in Nat \ {0}
    /\ Lefts \subseteq Int /\ 0 \in Lefts /\ Steps \subseteq Int
    /\ MaxMoved \in Nat /\ MaxInbox \in Nat \ {0}

VARIABLES
    mode,               \* r_fullscreen, and whether raw input is enabled
    foreground,         \* GetForegroundWindow() is the window
    inbox,              \* WM_ACTIVATE messages that wait
    minimized, left,    \* the window
    cursor,             \* of the system
    win_isActivated, mouse_windowIsActive,
    mouse_ingameMouseActive,    \* the system cursor is hidden and captured
    mouse_center_x,
    in_menu, in_menu_last,
    menu_cursorX,
    raw,                \* the movement raw input has collected
    mouse_offset_x,     \* what the last step adds for the view; the game takes it
    (* observation only: *)
    moved               \* how far the mouse moved the cursor since the last frame

window == <<foreground, inbox, minimized, left, win_isActivated, mouse_windowIsActive>>
menu == <<in_menu_last, menu_cursorX>>
mouse == <<cursor, raw, moved>>
ingame == <<mouse_ingameMouseActive, mouse_center_x>>
vars == <<mode, window, mouse, mouse_offset_x, ingame, in_menu, menu>>

Init ==
    /\ mode \in [fullscreen : BOOLEAN, rinput : BOOLEAN]
    /\ foreground = TRUE /\ inbox = <<"activate">> /\ minimized = FALSE
    /\ left \in Lefts /\ (mode.fullscreen => left = 0)
    /\ win_isActivated = FALSE /\ mouse_windowIsActive = FALSE
    /\ cursor \in 0 .. Desktop - 1 /\ raw = 0 /\ moved = 0
    /\ mouse_offset_x = 0
    /\ mouse_ingameMouseActive = FALSE /\ mouse_center_x = 0
    /\ in_menu = TRUE /\ in_menu_last = TRUE /\ menu_cursorX = 0

(***************************************************************************)
(* The desktop.                                                            *)
(***************************************************************************)
\* Division as in C: towards zero.
Quotient(a, b) == IF a >= 0 THEN a \div b ELSE -((-a) \div b)

\* Mutant: only one end is checked.
Between_UpperOnly(low, x, high) == IF x > high THEN high ELSE x

Between(low, x, high) == IF x < low THEN low ELSE IF x > high THEN high ELSE x

OnDesktop(x) == Between(0, x, Desktop - 1)

\* The client area; that of a minimized window is empty, and far away.
ClientWidth == IF minimized THEN 0 ELSE IF mode.fullscreen THEN Desktop ELSE Width
ClientLeft == IF minimized THEN -32000 ELSE left
cursorRelative == cursor - ClientLeft

SetCursorPos(x) == cursor' = OnDesktop(x)

\* What a step that is no movement of the view leaves.
ViewStays == mouse_offset_x' = 0

\* Raw input is only sent to the window in the foreground.
MoveMouse ==
    /\ \E d \in Steps :
          /\ SetCursorPos(cursor + d)
          /\ IF mode.rinput
             THEN raw' = (IF foreground THEN raw + d ELSE raw) /\ UNCHANGED moved
             ELSE moved' = moved + cursor' - cursor /\ UNCHANGED raw
    /\ {raw', moved'} \subseteq -MaxMoved .. MaxMoved
    /\ ViewStays
    /\ UNCHANGED <<mode, window, ingame, in_menu, menu>>

\* The player goes to another window or comes back, or minimizes this one.
SwitchWindow ==
    /\ Len(inbox) < MaxInbox
    /\ foreground' = ~foreground
    /\ minimized' \in IF foreground THEN BOOLEAN ELSE {FALSE}
    /\ inbox' = Append(inbox, IF ~foreground THEN "activate"
                              ELSE IF minimized' THEN "minimize" ELSE "deactivate")
    /\ ViewStays
    /\ UNCHANGED <<mode, mouse, left, win_isActivated, mouse_windowIsActive, ingame,
                   in_menu, menu>>

\* A menu, or the connection to a server, is opened or closed.
ToggleMenu ==
    /\ in_menu' = ~in_menu
    /\ ViewStays
    /\ UNCHANGED <<mode, window, mouse, ingame, menu>>

(***************************************************************************)
(* The window procedure.                                                   *)
(***************************************************************************)
\* Mouse_DeactivateIngameCursor
Deactivate == mouse_ingameMouseActive' = FALSE /\ UNCHANGED mouse_center_x

\* Mouse_ActivateIngameCursor, and the flag its callers set
Activate ==
    /\ mouse_ingameMouseActive' = TRUE
    /\ mouse_center_x' = Quotient(ClientLeft + (ClientLeft + ClientWidth), 2)

WM_ACTIVATE ==
    /\ inbox # <<>> /\ inbox' = Tail(inbox)
    /\ win_isActivated' = (Head(inbox) = "activate")
    /\ mouse_windowIsActive' = win_isActivated'
    /\ IF win_isActivated' THEN UNCHANGED ingame ELSE Deactivate
    /\ ViewStays
    /\ UNCHANGED <<mode, foreground, minimized, left, mouse, in_menu, menu>>

WM_MOVE ==
    /\ ~mode.fullscreen /\ ~minimized
    /\ left' \in Lefts \ {left}
    /\ mouse_windowIsActive' = (mouse_windowIsActive \/ win_isActivated)
    /\ ViewStays
    /\ UNCHANGED <<mode, foreground, inbox, minimized, win_isActivated, mouse, ingame,
                   in_menu, menu>>

\* A click on a window that is not active, whose hidden cursor it is.
WM_BUTTONDOWN ==
    /\ ~mode.fullscreen /\ ~win_isActivated /\ ~minimized
    /\ cursorRelative \in 0 .. ClientWidth - 1
    /\ ~foreground /\ foreground' = TRUE
    /\ Len(inbox) < MaxInbox /\ inbox' = Append(inbox, "activate")
    /\ ViewStays
    /\ UNCHANGED <<mode, minimized, left, win_isActivated, mouse_windowIsActive, mouse,
                   ingame, in_menu, menu>>

(***************************************************************************)
(* Mouse_ProcessMovement, once or twice in a frame.                        *)
(***************************************************************************)
menu_changed == in_menu # in_menu_last
windowedMenu == in_menu /\ ~mode.fullscreen

\* What every call does.
Process ==
    /\ in_menu_last' = in_menu
    /\ moved' = 0
    /\ UNCHANGED <<mode, window, in_menu>>

\* A windowed menu opens: the system cursor goes where the menu cursor was.
WindowedMenuOpens ==
    /\ windowedMenu /\ menu_changed
    /\ Process /\ ViewStays /\ UNCHANGED raw
    /\ menu_cursorX' = IF menu_cursorX \in 0 .. MenuWidth THEN menu_cursorX
                       ELSE MenuWidth \div 2
    /\ SetCursorPos(ClientLeft + (menu_cursorX' * ClientWidth) \div MenuWidth)
    /\ UNCHANGED ingame

WindowedMenuMinimized ==
    /\ windowedMenu /\ ~menu_changed /\ minimized
    /\ Process /\ ViewStays /\ UNCHANGED raw
    /\ Deactivate
    /\ UNCHANGED <<cursor, menu_cursorX>>

\* The menu cursor follows; the system cursor is hidden inside of the window.
WindowedMenu ==
    /\ windowedMenu /\ ~menu_changed /\ ~minimized
    /\ Process /\ ViewStays /\ UNCHANGED raw
    /\ menu_cursorX' = Quotient(cursorRelative * MenuWidth, ClientWidth)
    /\ CASE menu_cursorX' \in 0 .. MenuWidth /\ ~mouse_ingameMouseActive -> Activate
         [] menu_cursorX' \notin 0 .. MenuWidth /\ mouse_ingameMouseActive -> Deactivate
         [] OTHER -> UNCHANGED ingame
    /\ UNCHANGED cursor

\* Mutant: only the messages of the window are believed.
HasFocus_AsTold == mouse_windowIsActive

HasFocus == mouse_windowIsActive /\ foreground

\* Mutant: the cursor is only left alone.
NoFocus_KeepsCursor ==
    /\ ~windowedMenu /\ ~HasFocus
    /\ Process /\ ViewStays /\ UNCHANGED raw
    /\ UNCHANGED <<cursor, menu_cursorX, ingame>>

NoFocus ==
    /\ ~windowedMenu /\ ~HasFocus
    /\ Process /\ ViewStays /\ UNCHANGED raw
    /\ Deactivate
    /\ UNCHANGED <<cursor, menu_cursorX>>

CursorIsOutside == ~mode.fullscreen /\ (cursorRelative <= 0 \/ cursorRelative >= ClientWidth)

CursorStaysOutside ==
    /\ ~windowedMenu /\ HasFocus /\ ~mouse_ingameMouseActive /\ CursorIsOutside
    /\ Process /\ ViewStays /\ UNCHANGED raw
    /\ UNCHANGED <<cursor, menu_cursorX, ingame>>

CursorIsTaken ==
    /\ ~windowedMenu /\ HasFocus /\ ~mouse_ingameMouseActive /\ ~CursorIsOutside
    /\ Process /\ ViewStays /\ UNCHANGED raw
    /\ Activate /\ SetCursorPos(mouse_center_x')
    /\ UNCHANGED menu_cursorX

\* Mutant: the place of the cursor in a menu that was closed counts.
cursorPoint_OfMenu == cursor

\* When a menu is opened or closed, where the cursor was does not count.
cursorPoint == IF menu_changed /\ ~mode.fullscreen THEN mouse_center_x ELSE cursor

Offset == IF mode.rinput THEN raw ELSE cursorPoint - mouse_center_x

\* The menu cursor or the view moves.
Movement ==
    /\ ~windowedMenu /\ HasFocus /\ mouse_ingameMouseActive
    /\ Process
    /\ raw' = 0
    /\ SetCursorPos(mouse_center_x)
    /\ IF in_menu
       THEN menu_cursorX' = Between(0, menu_cursorX + Offset, MenuWidth) /\ ViewStays
       ELSE mouse_offset_x' = Offset /\ UNCHANGED menu_cursorX
    /\ UNCHANGED ingame

Mouse_ProcessMovement ==
    \/ WindowedMenuOpens \/ WindowedMenuMinimized \/ WindowedMenu
    \/ NoFocus \/ CursorStaysOutside \/ CursorIsTaken \/ Movement

Next ==
    \/ MoveMouse \/ SwitchWindow \/ ToggleMenu
    \/ WM_ACTIVATE \/ WM_MOVE \/ WM_BUTTONDOWN
    \/ Mouse_ProcessMovement

Spec == Init /\ [][Next]_vars

\* Frames go on: every client state calls Mouse_Loop.
FairSpec == Spec /\ WF_vars(Mouse_ProcessMovement)

-----------------------------------------------------------------------------
(***************************************************************************)
(* Properties.                                                             *)
(***************************************************************************)
\* Every variable has its type.
TypeOK ==
    /\ mode \in [fullscreen : BOOLEAN, rinput : BOOLEAN]
    /\ foreground \in BOOLEAN /\ minimized \in BOOLEAN
    /\ inbox \in Seq({"activate", "deactivate", "minimize"})
    /\ left \in Lefts /\ cursor \in 0 .. Desktop - 1
    /\ win_isActivated \in BOOLEAN /\ mouse_windowIsActive \in BOOLEAN
    /\ mouse_ingameMouseActive \in BOOLEAN /\ mouse_center_x \in Int
    /\ in_menu \in BOOLEAN /\ in_menu_last \in BOOLEAN /\ menu_cursorX \in Int
    /\ mode.fullscreen => menu_cursorX \in 0 .. MenuWidth
    /\ raw \in Int /\ moved \in Int /\ mouse_offset_x \in Int

\* The view only turns by what the mouse moved since the frame before, whatever
\* menus, other windows and moves of the window were in between, while the center
\* of the window is on the desktop: neither putting the cursor back nor where it
\* was in a menu counts.  With raw input it turns by what was collected.
ViewFollowsMouse ==
    [][OnDesktop(mouse_center_x) = mouse_center_x =>
          mouse_offset_x' \in {0, IF mode.rinput THEN raw ELSE moved}]_vars

\* While another window is in the foreground, a frame leaves the system cursor
\* alone, but for the one in which a windowed menu opens.
CursorIsFree ==
    [][Mouse_ProcessMovement /\ ~foreground => cursor' = cursor \/ WindowedMenuOpens]_vars

\* Who goes to another window while he plays, or is in a fullscreen menu, gets the
\* system cursor back.
CursorIsReleased ==
    ~foreground ~> (foreground \/ ~mouse_ingameMouseActive \/ windowedMenu)
=============================================================================
