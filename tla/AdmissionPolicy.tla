-------------------------- MODULE AdmissionPolicy --------------------------
(***************************************************************************)
(* What the connection handshake promises, without a table, packets or a   *)
(* clock.  Every challenge number is a ticket made for one address; only a *)
(* client that was handed its ticket, at the address it was made for, gets *)
(* a seat; a refused ticket is void for good; nobody gets a seat under a   *)
(* banned hardware id.  Local clients need no ticket.                      *)
(***************************************************************************)
EXTENDS Integers

CONSTANTS Remote, Local, HWID, Number, Seat, NoAddr

VARIABLES
    madeFor,    \* madeFor[c]: the address ticket c was made for
    ticket,     \* "unused", "held" back, "told" to the client, or "void"
    seats,      \* seats[k]: the player, as <<address, ticket, hardware id>>
    banned      \* the banned hardware ids

policyVars == <<madeFor, ticket, seats, banned>>

Nobody == <<>>

PolicyInit ==
    /\ madeFor = [c \in Number |-> NoAddr]
    /\ ticket = [c \in Number |-> "unused"]
    /\ seats = [k \in Seat |-> Nobody]
    /\ banned = {}

\* A ticket is made, and perhaps handed over at once.
Issue(c, a) ==
    /\ ticket[c] = "unused"
    /\ madeFor' = [madeFor EXCEPT ![c] = a]
    /\ \E s \in {"held", "told"} : ticket' = [ticket EXCEPT ![c] = s]
    /\ UNCHANGED <<seats, banned>>

Tell(c) ==
    /\ ticket[c] = "held"
    /\ ticket' = [ticket EXCEPT ![c] = "told"]
    /\ UNCHANGED <<madeFor, seats, banned>>

Refuse(c) ==
    /\ ticket[c] # "unused"
    /\ ticket' = [ticket EXCEPT ![c] = "void"]
    /\ UNCHANGED <<madeFor, seats, banned>>

\* Seat k may have been occupied: by an older session of the same client.
Admit(k, c, h) ==
    /\ ticket[c] = "told"
    /\ h \notin banned
    /\ seats' = [seats EXCEPT ![k] = <<madeFor[c], c, h>>]
    /\ UNCHANGED <<madeFor, ticket, banned>>

AdmitLocal(k, a, c) ==
    /\ seats' = [seats EXCEPT ![k] = <<a, c, 0>>]
    /\ UNCHANGED <<madeFor, ticket, banned>>

Vacate(k) ==
    /\ seats' = [seats EXCEPT ![k] = Nobody]
    /\ UNCHANGED <<madeFor, ticket, banned>>

\* The administrator bans the player of seat k, who leaves.
Ban(k) ==
    /\ seats[k] # Nobody
    /\ banned' = banned \cup {seats[k][3]}
    /\ seats' = [seats EXCEPT ![k] = Nobody]
    /\ UNCHANGED <<madeFor, ticket>>

Pardon(hs) ==
    /\ banned' = banned \ hs
    /\ UNCHANGED <<madeFor, ticket, seats>>

\* The server starts over: everybody has left, some bans are forgotten.
StartOver(hs) ==
    /\ seats' = [k \in Seat |-> Nobody]
    /\ banned' = banned \ hs
    /\ UNCHANGED <<madeFor, ticket>>

PolicyNext ==
    \/ \E c \in Number :
        \/ \E a \in Remote : Issue(c, a)
        \/ Tell(c)
        \/ Refuse(c)
    \/ \E k \in Seat :
        \/ \E c \in Number, h \in HWID : Admit(k, c, h)
        \/ \E a \in Local, c \in Number \cup {0} : AdmitLocal(k, a, c)
        \/ Vacate(k)
        \/ Ban(k)
    \/ \E hs \in SUBSET HWID : Pardon(hs) \/ StartOver(hs)

PolicySpec == PolicyInit /\ [][PolicyNext]_policyVars
-----------------------------------------------------------------------------
(***************************************************************************)
(* What follows from the policy.                                           *)
(***************************************************************************)
\* Whoever plays from elsewhere holds a ticket that was handed over, and that
\* was made for his own address.
PlayersHoldTickets ==
    \A k \in Seat : seats[k] # Nobody /\ seats[k][1] \notin Local =>
        /\ seats[k][2] \in Number
        /\ madeFor[seats[k][2]] = seats[k][1]
        /\ ticket[seats[k][2]] \in {"told", "void"}

\* A void ticket stays void, and a ticket keeps the address it was made for.
TicketsStay ==
    \A c \in Number :
        /\ ticket[c] = "void" => ticket'[c] = "void"
        /\ ticket[c] # "unused" => ticket'[c] # "unused" /\ madeFor'[c] = madeFor[c]

TicketsAreFinal == [][TicketsStay]_policyVars

\* Whoever takes a seat from elsewhere has a ticket that is valid at that moment,
\* and an id that is not banned.
Earned(k) ==
    seats'[k] \notin {seats[k], Nobody} /\ seats'[k][1] \notin Local =>
        ticket[seats'[k][2]] = "told" /\ seats'[k][3] \notin banned

SeatsAreEarned == [][\A k \in Seat : Earned(k)]_policyVars
=============================================================================
