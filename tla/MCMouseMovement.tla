-------------------------- MODULE MCMouseMovement --------------------------
(***************************************************************************)
(* The instance of MouseMovement that TLC checks: windows that are partly  *)
(* off the desktop, one of them with its center, and a mouse that moves    *)
(* both ways.                                                              *)
(***************************************************************************)
EXTENDS MouseMovement

MCLefts == {-3, 0, 1}
MCSteps == {-2, 1}
=============================================================================
