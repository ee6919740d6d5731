---------------------------- MODULE HttpFrontEnd ----------------------------
(***************************************************************************)
(* What the JMAP HTTP front end promises its deployment: the server sees   *)
(* every client at the client's own address.  A client whose address is    *)
(* blocked is refused; any other request goes through the endpoint rule    *)
(* (loopback exempt), the gate of its route (authentication, the anonymous *)
(* rate limit keyed by the client's address, or none) and, when it falls   *)
(* through to a banned path, gets the client's address banned.  There are  *)
(* no headers and no proxy here: HttpRouter, behind a trusted proxy,       *)
(* implements this specification.                                          *)
(*                                                                         *)
(* A request may also be refused outright: the listener refuses            *)
(* connections from blocked peers, which the front end does not see.       *)
(***************************************************************************)
EXTENDS Naturals

CONSTANTS
    Clients,       \* the actors sending requests
    Addr,          \* the addresses
    Loopback,      \* the loopback addresses
    RealAddr,      \* RealAddr[c]: client c's address
    Routes,        \* the requests of the instance
    Table,         \* Table[r]: the gate and the end of route r
    BannedRoutes,  \* the routes whose path is banned
    Denied,        \* the pairs <<address, route>> the endpoint rule refuses
    AnonLimit,     \* anonymous requests per address and window
    BlockedInit    \* addresses blocked at start

VARIABLES blocked, anon, anonServed, scanners, last

vars == <<blocked, anon, anonServed, scanners, last>>

Init ==
    /\ blocked = BlockedInit
    /\ anon = [a \in Addr |-> 0]
    /\ anonServed = [c \in Clients |-> 0]
    /\ scanners = {}
    /\ last = [client |-> "none", route |-> "none", reached |-> FALSE]

\* A request of client c for route r is refused and changes nothing else.
Refuse(c, r) ==
    /\ last' = [client |-> c, route |-> r, reached |-> FALSE]
    /\ UNCHANGED <<blocked, anon, anonServed, scanners>>

\* The end of a served request: a fall-through to a banned path bans the
\* client's address.
Ban(c, r, end) ==
    IF end = "fall" /\ r \in BannedRoutes
    THEN /\ blocked' = blocked \cup {RealAddr[c]}
         /\ scanners' = scanners \cup {RealAddr[c]}
    ELSE UNCHANGED <<blocked, scanners>>

\* A request of client c, with valid credentials when cred, from an
\* unblocked address the endpoint rule lets through (or a loopback one).
Serve(c, r, cred) ==
    LET a == RealAddr[c]
        p == Table[r]
    IN
    /\ a \notin blocked
    /\ <<a, r>> \notin Denied \/ a \in Loopback
    /\ last' = [client |-> c, route |-> r, reached |-> TRUE]
    /\ \/ /\ p.gate = "auth" /\ ~cred
          /\ UNCHANGED <<blocked, anon, anonServed, scanners>>
       \/ /\ p.gate = "anon" /\ anon[a] >= AnonLimit
          /\ UNCHANGED <<blocked, anon, anonServed, scanners>>
       \/ /\ p.gate = "anon" /\ anon[a] < AnonLimit
          /\ anon' = [anon EXCEPT ![a] = @ + 1]
          /\ anonServed' = [anonServed EXCEPT ![c] = @ + 1]
          /\ Ban(c, r, p.end)
       \/ /\ p.gate = "none" \/ (p.gate = "auth" /\ cred)
          /\ UNCHANGED <<anon, anonServed>>
          /\ Ban(c, r, p.end)

\* The rate limiter's window ends.
Expire ==
    /\ anon' = [a \in Addr |-> 0]
    /\ anonServed' = [c \in Clients |-> 0]
    /\ UNCHANGED <<blocked, scanners, last>>

Next ==
    \/ \E c \in Clients, r \in Routes : Refuse(c, r)
    \/ \E c \in Clients, r \in Routes, cred \in BOOLEAN : Serve(c, r, cred)
    \/ Expire

Spec == Init /\ [][Next]_vars

=============================================================================
