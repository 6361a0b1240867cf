----------------------------- MODULE Connection -----------------------------
(***************************************************************************)
(* What the helper promises an app that asks it for a tunnel, with none of *)
(* its goroutines, stamps or leases.  conn is where the tunnel leads, or   *)
(* Off; asked, for each request in flight, where it asks it to lead.       *)
(* The tunnel may go down at any time, and by itself never comes up nor    *)
(* moves to another peer.                                                  *)
(***************************************************************************)
CONSTANTS
    Conns,  \* the requests
    Peers,  \* where a tunnel may lead: a device key at a server
    Off     \* no tunnel; nothing asked

VARIABLES conn, asked

vars == <<conn, asked>>

Init ==
    /\ conn = Off
    /\ asked = [c \in Conns |-> Off]

Ask(c, p) ==
    /\ asked[c] = Off
    /\ asked' = [asked EXCEPT ![c] = p]
    /\ UNCHANGED conn

Grant(c) ==
    /\ asked[c] # Off
    /\ conn' = asked[c]
    /\ asked' = [asked EXCEPT ![c] = Off]

\* The request fails; a tunnel that was up for another may be down by then.
Deny(c) ==
    /\ asked[c] # Off
    /\ conn' \in {conn, Off}
    /\ asked' = [asked EXCEPT ![c] = Off]

GoDown ==
    /\ conn' = Off
    /\ UNCHANGED asked

\* The helper ends, and its connections with it.
Crash == conn' = Off /\ asked' = [c \in Conns |-> Off]

Next ==
    \/ \E c \in Conns : (\E p \in Peers : Ask(c, p)) \/ Grant(c) \/ Deny(c)
    \/ GoDown
    \/ Crash

Spec == Init /\ [][Next]_vars
=============================================================================
