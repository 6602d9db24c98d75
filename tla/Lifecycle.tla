----------------------------- MODULE Lifecycle -----------------------------
(***************************************************************************)
(* Start, wake-up and end of the epoller (src/epoller/base.go,             *)
(* src/epoller/poller.go): init starts epoller.run in a goroutine that     *)
(* makes eventCh only then; SubmitIoReq and Stop send to that channel from *)
(* any goroutine; epollWait reports through it and resizes its buffer of   *)
(* events.  Of a request only matters here whether it waits for readiness; *)
(* Epoller has the rest, deadlines included.                               *)
(*                                                                         *)
(* Nothing calls SetAffinity and Close and nothing writes to the eventfd,  *)
(* so that the branches for its reports never run.                         *)
(***************************************************************************)
EXTENDS Integers, Sequences, FiniteSets

CONSTANTS
    Clients,   \* goroutines that submit requests, each for a descriptor of its own
    MinEvents, MaxEvents, \* bounds of the buffer, 64 and 4096 in the code
    Delta      \* step of the buffer, 16 in the code

ASSUME SizesAssumption ==
    /\ MinEvents \in Nat \ {0} /\ MaxEvents \in Nat /\ Delta \in Nat \ {0}
    /\ Delta <= MinEvents /\ MinEvents <= MaxEvents

VARIABLES
    made,    \* eventCh has been made
    slot,    \* its one slot
    running, \* epoller.running, written by the loop and by Stop
    loop,    \* where epoller.run is
    pfd,     \* the epoll descriptor: open, closed, or -1
    waiter,  \* where epollWait is
    count,   \* the events epollWait has taken, -1 for an error
    named,   \* the clients whose descriptors are ready by those events
    size,    \* len of eventBuffer.this
    sizeLog, since,  \* eventBuffer.sizeLog, sinceLastResize
    streak,  \* how many reports in a row, and for how long with this size, have
             \* filled the buffer, and have left Delta places empty (history)
    client,  \* what a client is doing: idle, sending, blocked at the nil channel, or
             \* waiting for the answer to a request that is queued, or parked
    stopper  \* what the goroutine that calls Stop is doing

bufVars == <<size, sizeLog, since, streak>>
vars == <<made, slot, running, loop, pfd, waiter, count, named, bufVars, client, stopper>>

Item(kind, clients) == [kind |-> kind, of |-> clients]

Init ==
    /\ made = FALSE /\ slot = <<>>
    /\ running = FALSE
    /\ loop = "make" /\ pfd = "open"
    /\ waiter = "none" /\ count = 0 /\ named = {}
    /\ size = MinEvents /\ sizeLog = <<0, 0>> /\ since = 0
    /\ streak = [full |-> 0, sparse |-> 0]
    /\ client = [c \in Clients |-> "idle"]
    /\ stopper = "idle"

-----------------------------------------------------------------------------
(* epoller.run                                                             *)

Begin ==
    \/ /\ loop = "make" /\ made' = TRUE /\ loop' = "enable" /\ UNCHANGED <<running, waiter>>
    \/ /\ loop = "enable" /\ running' = TRUE /\ loop' = "start" /\ UNCHANGED <<made, waiter>>
    \/ /\ loop = "start" /\ waiter' = "check" /\ loop' = "check" /\ UNCHANGED <<made, running>>

BeginLoop ==
    /\ Begin
    /\ UNCHANGED <<slot, pfd, count, named, bufVars, client, stopper>>

Check ==
    /\ loop = "check"
    /\ loop' = IF running THEN "take" ELSE "close"
    /\ UNCHANGED <<made, slot, running, pfd, waiter, count, named, bufVars, client, stopper>>

(* Definitions named Bad... are slips this code could have; no action uses *)
(* them, they only show which property would notice.                       *)

BadServed(clients) ==  \* the loop over a report stops early
    IF clients = {} THEN {} ELSE {CHOOSE c \in clients : TRUE}

\* The loop over a report answers for each of its descriptors.
Served(clients) == clients

Become(clients, what) == [c \in Clients |-> IF c \in clients THEN what ELSE client[c]]

\* A wait for readiness (EPOLL_CTL_MOD) is answered at once if a result was kept or if
\* rearm fails; otherwise it is parked and gets no answer before a report names it.
\* Stop's empty event counts as a request without a channel; an error that is not
\* a timeout is dropped.
Take ==
    /\ loop = "take" /\ slot # <<>>
    /\ slot' = <<>>
    /\ loop' = "check"
    /\ LET item == Head(slot) IN
       \/ item.kind = "empty" /\ UNCHANGED client
       \/ item.kind = "report" /\ client' = Become(Served(item.of), "idle")
       \/ item.kind = "other" /\ client' = Become(item.of, "idle")
       \/ item.kind = "wait" /\ \E what \in {"idle", "parked"} : client' = Become(item.of, what)
    /\ UNCHANGED <<made, running, pfd, waiter, count, named, bufVars, stopper>>

\* shutdown, in two steps: the number stays in pfd for a moment.
Shutdown ==
    /\ \/ loop = "close" /\ pfd' = "closed" /\ loop' = "forget"
       \/ loop = "forget" /\ pfd' = "none" /\ loop' = "end"
    /\ UNCHANGED <<made, slot, running, waiter, count, named, bufVars, client, stopper>>

-----------------------------------------------------------------------------
(* eventBuffer                                                             *)

Smaller(a, b) == IF a < b THEN a ELSE b
Larger(a, b) == IF a < b THEN b ELSE a
Counts(n) == {n, sizeLog[1], sizeLog[2]}

upSizable(n) == \A k \in Counts(n) : k >= size
downSizable(n) == \A k \in Counts(n) : k <= size - Delta

BadGrown == size + Delta  \* past the maximum

Grown == Smaller(size + Delta, MaxEvents)
Shrunk == Larger(size - Delta, MinEvents)

BadSince(resized) == since + 1  \* the count goes on

Since(resized) == IF resized THEN 1 ELSE since + 1

Resize(n) ==
    LET up == since > 2 /\ upSizable(n)
        down == since > 2 /\ ~upSizable(n) /\ downSizable(n)
        next == IF up THEN Grown ELSE IF down THEN Shrunk ELSE size
    IN /\ size' = next
       /\ sizeLog' = <<sizeLog[2], n>>
       /\ since' = Smaller(Since(up \/ down), 3)  \* more than 2 is all the same
       /\ streak' = IF next # size THEN [full |-> 0, sparse |-> 0]
                    ELSE [full |-> IF n = size THEN Smaller(streak.full + 1, 3) ELSE 0,
                          sparse |-> IF n <= size - Delta THEN Smaller(streak.sparse + 1, 3)
                                     ELSE 0]

-----------------------------------------------------------------------------
(* epollWait                                                               *)

WaitStep ==
    \/ /\ waiter = "check"
       /\ waiter' = IF running THEN "call" ELSE "gone"
       /\ UNCHANGED count
    \/ /\ waiter = "call" /\ pfd = "open"
       /\ waiter' = "blocked"
       /\ UNCHANGED count
    \/ /\ waiter = "call" /\ pfd # "open"  \* EBADF
       /\ waiter' = "post" /\ count' = -1

Wait ==
    /\ WaitStep
    /\ UNCHANGED <<made, slot, running, loop, pfd, named, bufVars, client, stopper>>

\* Parked clients whose one registration has not been reported yet.
Armed == {c \in Clients : client[c] = "parked"} \ IF slot = <<>> THEN {} ELSE Head(slot).of

\* The kernel wakes it, by a signal or with at most as many events as asked for, some
\* of them readiness that a client waits for (one with EPOLLERR is not: handleIoReady
\* ignores it); closing the epoll descriptor does not wake it.
Wake ==
    /\ waiter = "blocked"
    /\ \/ waiter' = "check" /\ UNCHANGED <<count, named>>  \* EINTR
       \/ /\ waiter' = "post" /\ count' \in 1 .. size
          /\ named' \in SUBSET Armed /\ Cardinality(named') <= count'
    /\ UNCHANGED <<made, slot, running, loop, pfd, bufVars, client, stopper>>

Post ==
    /\ waiter = "post" /\ slot = <<>>
    /\ slot' = <<Item("report", named)>>
    /\ IF count = -1 THEN waiter' = "gone" /\ UNCHANGED bufVars
       ELSE waiter' = "check" /\ Resize(count)
    /\ count' = 0 /\ named' = {}
    /\ UNCHANGED <<made, running, loop, pfd, client, stopper>>

-----------------------------------------------------------------------------
(* Goroutines outside                                                      *)

\* A channel that is nil when the send begins blocks for ever.
Submit(c) ==
    /\ client[c] = "idle"
    /\ client' = [client EXCEPT ![c] = IF made THEN "send" ELSE "nil"]
    /\ UNCHANGED <<made, slot, running, loop, pfd, waiter, count, named, bufVars, stopper>>

Send(c) ==
    /\ client[c] = "send" /\ slot = <<>>
    /\ \E kind \in {"wait", "other"} : slot' = <<Item(kind, {c})>>
    /\ client' = [client EXCEPT ![c] = "queued"]
    /\ UNCHANGED <<made, running, loop, pfd, waiter, count, named, bufVars, stopper>>

Stop ==
    /\ stopper = "idle"
    /\ running' = FALSE
    /\ stopper' = "clear"
    /\ UNCHANGED <<made, slot, loop, pfd, waiter, count, named, bufVars, client>>

BadStopWakes == slot' = slot /\ stopper' = "done"  \* the flag has to be enough

\* The empty event, which wakes a loop that waits.
StopWakes == slot = <<>> /\ slot' = <<Item("empty", {})>> /\ stopper' = "done"

StopSend ==
    /\ \/ stopper = "clear" /\ stopper' = (IF made THEN "send" ELSE "nil") /\ UNCHANGED slot
       \/ stopper = "send" /\ StopWakes
    /\ UNCHANGED <<made, running, loop, pfd, waiter, count, named, bufVars, client>>

-----------------------------------------------------------------------------

LoopNext == BeginLoop \/ Check \/ Take \/ Shutdown
Next ==
    \/ LoopNext \/ Wait \/ Wake \/ Post \/ Stop \/ StopSend
    \/ \E c \in Clients : Submit(c) \/ Send(c)

Spec == Init /\ [][Next]_vars

\* Goroutines go on when they can and channels serve their senders in turn;
\* nobody has to ask, to stop, or to be ready.
Fairness ==
    /\ WF_vars(LoopNext) /\ WF_vars(Wait) /\ SF_vars(Post) /\ SF_vars(StopSend)
    /\ \A c \in Clients : SF_vars(Send(c))
LiveSpec == Spec /\ Fairness

-----------------------------------------------------------------------------
(* Properties.                                                             *)

\* The variables have their types; the buffer of events stays within its bounds
\* and a report never has more events than it has places.
TypeOK ==
    /\ made \in BOOLEAN /\ running \in BOOLEAN
    /\ Len(slot) <= 1
    /\ loop \in {"make", "enable", "start", "check", "take", "close", "forget", "end"}
    /\ pfd \in {"open", "closed", "none"}
    /\ waiter \in {"none", "check", "call", "blocked", "post", "gone"}
    /\ size \in MinEvents .. MaxEvents
    /\ count \in -1 .. size /\ named \subseteq Clients
    /\ since \in 0 .. 3
    /\ client \in [Clients -> {"idle", "nil", "send", "queued", "parked"}]
    /\ stopper \in {"idle", "clear", "nil", "send", "done"}

\* "if the buffer was full for the last 3 iterations" (src/epoller/poller.go:714),
\* and for shrinking likewise (700): a change of size rests on this report and the
\* two before it, all of them made with the present size.
ResizedOnEvidence ==
    [][/\ size' > size => count = size /\ streak.full >= 2
       /\ size' < size => count <= size - Delta /\ streak.sparse >= 2]_vars

Ended == loop = "end"

Reported == named \cup IF slot # <<>> /\ Head(slot).kind = "report" THEN Head(slot).of ELSE {}

\* While the loop runs, a request that finds the channel is answered or parked, however
\* long reports and Stop compete for the slot; and a parked one is answered when
\* epoll_wait has returned the readiness it waits for, together with others or alone.
AnsweredWhileRunning ==
    \A c \in Clients :
        /\ client[c] \in {"send", "queued"} ~> client[c] \in {"idle", "parked"} \/ Ended
        /\ client[c] = "parked" /\ c \in Reported ~> client[c] = "idle" \/ Ended

\* Once run has set running, clearing it ends the loop however long it has
\* nothing to do: the event that Stop sends, or another one, wakes it.
StopEnds == loop \notin {"make", "enable"} /\ ~running ~> Ended

=============================================================================
