------------------------------- MODULE Pipe -------------------------------
(***************************************************************************)
(* What a connection (Conn) does to the frames of its two ends: it may     *)
(* lose them, confirms only those whose header reached the other end, and  *)
(* hands bytes to the user frame by frame.  It keeps them in order as long *)
(* as the datagrams under it keep theirs.                                  *)
(***************************************************************************)
EXTENDS Naturals, FiniteSets

CONSTANTS Ends, Peer(_)

VARIABLES
    sent,      \* per end, the number of its last frame
    arrived,   \* per end, the frames of the peer whose header it has parsed
    confirmed, \* per end, its frames that have been acknowledged
    surfaced,  \* per end, the last frame of the peer its user has bytes of
    orderly    \* no datagram has overtaken another

vars == <<sent, arrived, confirmed, surfaced, orderly>>

Init ==
    /\ sent = [e \in Ends |-> 0]
    /\ arrived = [e \in Ends |-> {}]
    /\ confirmed = [e \in Ends |-> {}]
    /\ surfaced = [e \in Ends |-> 0]
    /\ orderly = TRUE

Send(e) ==
    /\ sent' = [sent EXCEPT ![e] = @ + 1]
    /\ UNCHANGED <<arrived, confirmed, surfaced, orderly>>

Arrive(e, n) ==
    /\ n <= sent[Peer(e)]
    /\ orderly => \A k \in arrived[e] : k < n
    /\ arrived' = [arrived EXCEPT ![e] = @ \cup {n}]
    /\ UNCHANGED <<sent, confirmed, surfaced, orderly>>

Confirm(e, n) ==
    /\ n \in arrived[Peer(e)] \ confirmed[e]
    /\ confirmed' = [confirmed EXCEPT ![e] = @ \cup {n}]
    /\ UNCHANGED <<sent, arrived, surfaced, orderly>>

Surface(e, n) ==
    /\ n <= sent[Peer(e)]
    /\ orderly => surfaced[e] < n
    /\ surfaced' = [surfaced EXCEPT ![e] = n]
    /\ UNCHANGED <<sent, arrived, confirmed, orderly>>

Overtake == orderly' = FALSE /\ UNCHANGED <<sent, arrived, confirmed, surfaced>>

Next ==
    \/ Overtake
    \/ \E e \in Ends :
        \/ Send(e)
        \/ \E n \in 1 .. sent[Peer(e)] : Arrive(e, n) \/ Surface(e, n)
        \/ \E n \in arrived[Peer(e)] : Confirm(e, n)

Spec == Init /\ [][Next]_vars

=============================================================================
