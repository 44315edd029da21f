--------------------------- MODULE MCMasterServer ---------------------------
(***************************************************************************)
(* The instance of MasterServer that TLC checks: the original master, and  *)
(* the CoD2x one, which is named with a port of its own.                   *)
(***************************************************************************)
EXTENDS MasterServer

CONSTANTS activision, cod2x, client

MCHost == [n \in Name |-> IF n = activision THEN "A" ELSE "B"]
MCPort == [n \in Name |-> IF n = cod2x THEN 28960 ELSE 0]

Defaults == [i \in Masters |-> IF i = 0 THEN activision ELSE IF i = 1 THEN cod2x ELSE NoName]
=============================================================================
