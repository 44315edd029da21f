-------------------------- MODULE MCServerConnect --------------------------
(***************************************************************************)
(* Instances of ServerConnect for TLC: a1 and a2 are two ports of one      *)
(* machine, b1 another machine, loop the loopback address.                 *)
(***************************************************************************)
EXTENDS ServerConnect

CONSTANTS a1, a2, b1, loop

MCIpOf == [a \in {a1, a2, b1, loop} |->
              CASE a \in {a1, a2} -> "A" [] a = b1 -> "B" [] OTHER -> "L"]

CurrentClients == {<<118, 2>>}
EveryClient == {<<117, 0>>, <<118, 0>>, <<118, 1>>, <<118, 2>>}

\* The authorization server knows nothing sure about anybody.
AnyAnswer == [a \in Addr |-> {"accept", "unknown", "denyOdd"}]
CrackedAnswers == [a \in Addr |-> {"demo", "unknown"}]
GoodKeys == [a \in Addr |-> {"accept"}]
NoAnswers == [a \in Addr |-> {}]
=============================================================================
