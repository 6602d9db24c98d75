---------------------------- MODULE MCHandshake ----------------------------
(* Instances of Handshake for TLC. *)
EXTENDS Handshake

Numbers == [e \in Ends |-> IF e = "dialer" THEN 1001 ELSE 1002]

Plan(dials, accepts, hasty, n) ==
    [dials |-> dials, accepts |-> accepts, early |-> hasty, faults |-> n]

Writes == Ends \X {<<"W", "WRITE1">>}

\* Two things fail during one Dial and one Accept.
Disturbed == Plan(1, 1, {}, 2)

\* One thing fails and both ends may try again.
Retried == Plan(2, 2, {}, 1)

\* Nothing fails and both connections are used at once.
Eager == Plan(1, 1, Ends \X Calls, 0)

\* The listener accepts again at once while another greeting waits.
Greedy == Plan(2, 2, Writes, 0)

\* One thing fails and both ends write at once.
Hasty == Plan(1, 1, Writes, 1)

AllPlans == {Disturbed, Retried, Eager, Greedy, Hasty}

=============================================================================
