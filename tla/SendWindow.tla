---------------------------- MODULE SendWindow ----------------------------
(***************************************************************************)
(* What src/ringbuffer.go keeps for a connection: the frames that have     *)
(* been written and not acknowledged, at most Window of them.  A frame     *)
(* joins them when it has been written and leaves them when its own        *)
(* acknowledgement arrives, in any order.  Only after a call has come in   *)
(* the middle of an updateAckSeqNum (apart is FALSE then, see RingBuffer)  *)
(* may a frame be lost, to a newer one that takes its place.               *)
(***************************************************************************)
EXTENDS Naturals, FiniteSets

CONSTANTS
    Numbers,  \* sequence numbers
    Window    \* windowSize

VARIABLES unacknowledged, apart

vars == <<unacknowledged, apart>>

Init == unacknowledged = {} /\ apart = TRUE

Record(n) ==
    /\ n \notin unacknowledged
    /\ \/ Cardinality(unacknowledged) < Window /\ unacknowledged' = unacknowledged \cup {n}
       \/ /\ ~apart
          /\ \E m \in unacknowledged : unacknowledged' = (unacknowledged \ {m}) \cup {n}
    /\ UNCHANGED apart

Confirm(n) ==
    /\ n \in unacknowledged
    /\ unacknowledged' = unacknowledged \ {n}
    /\ UNCHANGED apart

Disturb == apart' = FALSE /\ UNCHANGED unacknowledged

Next == Disturb \/ \E n \in Numbers : Record(n) \/ Confirm(n)

Spec == Init /\ [][Next]_vars

=============================================================================
