------------------------------ MODULE Replies ------------------------------
(***************************************************************************)
(* What SubmitIoReq (src/epoller/base.go) promises a goroutine: it sends   *)
(* one request, and the channel it gets back carries at most one answer,   *)
(* of a kind that request can have.  Several goroutines may be answered at *)
(* once.  A goroutine may leave before or after the answer, and it never   *)
(* finds the answer to an earlier request in the channel of a later one.   *)
(***************************************************************************)
CONSTANTS
    Clients,    \* goroutines
    MayAnswer   \* the answers each kind of request can have, a function

VARIABLES
    pc,   \* the request a goroutine waits for, or "idle"
    ans   \* the answer in its channel, or "none"

vars == <<pc, ans>>

Init ==
    /\ pc = [c \in Clients |-> "idle"]
    /\ ans = [c \in Clients |-> "none"]

\* A request; it may put fresh goroutines in the place of those in S.
Ask(c, S) ==
    /\ pc[c] = "idle" /\ c \notin S
    /\ pc'[c] \in DOMAIN MayAnswer
    /\ pc' = [d \in Clients |->
                IF d = c THEN pc'[c] ELSE IF d \in S THEN "idle" ELSE pc[d]]
    /\ ans' = [d \in Clients |-> IF d \in S THEN "none" ELSE ans[d]]

Answer ==
    /\ UNCHANGED pc
    /\ ans' = [c \in Clients |-> ans'[c]]
    /\ \A c \in Clients : ans'[c] # ans[c] =>
            /\ pc[c] # "idle" /\ ans[c] = "none"
            /\ ans'[c] \in MayAnswer[pc[c]]

Leave(c) ==
    /\ pc[c] # "idle"
    /\ pc' = [pc EXCEPT ![c] = "idle"]
    /\ ans' = [ans EXCEPT ![c] = "none"]

Next ==
    \/ \E c \in Clients, S \in SUBSET Clients : Ask(c, S)
    \/ Answer
    \/ \E c \in Clients : Leave(c)

Spec == Init /\ [][Next]_vars

=============================================================================
