------------------------------ MODULE Epoller ------------------------------
(***************************************************************************)
(* The readiness service of src/epoller/poller.go: one event-loop          *)
(* goroutine (epoller.run) that owns every ioRace, one goroutine blocked   *)
(* in epoll_wait (epoller.epollWait), one goroutine per deadline           *)
(* (epoller.raceDeadline1), and the goroutines of package aionet that      *)
(* submit requests through SubmitIoReq and receive one answer each.  All   *)
(* of them meet in eventCh, a channel with one slot.                       *)
(*                                                                         *)
(* A file descriptor is used by one reading goroutine, one writing         *)
(* goroutine and one goroutine that opens and closes it; each is           *)
(* sequential.  The kernel side is what epoll does for an                  *)
(* EPOLLONESHOT|EPOLLET registration: one report, then silence until the   *)
(* next EPOLL_CTL_MOD.                                                     *)
(*                                                                         *)
(* Left out: the eventfd, start-up and shutdown of the loop; the timeouts  *)
(* of the goroutines that deliver an answer (sendError, deleteResultCh),   *)
(* which cannot expire while the answered channel has a free slot, as      *)
(* AnsweredOnce says it always has.                                        *)
(***************************************************************************)
EXTENDS Naturals, FiniteSets

CONSTANTS
    Fds,          \* file descriptors
    Timers,       \* slots for deadline goroutines (a bound)
    MaxRef,       \* modulus of dlRef, a uint16 in the code
    DataOps,      \* <<direction, operation>> pairs the data goroutines request
    CtlOps,       \* what the opening/closing goroutine requests
    Quitters,     \* roles that may stop waiting for an answer
    SocketErrors  \* may a socket get an asynchronous error (EPOLLERR)?

Modes == {"R", "W"}
Roles == Modes \cup {"ctl"}
Races == Fds \X Modes
Clients == Fds \X Roles
Flags == Modes \cup {"E"}

ASSUME FdsAssumption == Fds # {}
ASSUME RefAssumption == MaxRef \in Nat \ {0}
ASSUME OpsAssumption ==
    /\ DataOps \subseteq Modes \X {"ARM", "DEADLINE", "CANCEL", "RESET"}
    /\ CtlOps \subseteq {"ADD", "DEL", "CANCEL"}
    /\ Quitters \subseteq Roles
    /\ SocketErrors \in BOOLEAN

Ops == {"ARM", "DEADLINE", "CANCEL", "RESET", "ADD", "DEL"}
Answers == {"nil", "deadline", "closed", "undefined", "failed"}

VARIABLES
    ch,        \* ioRace.ch: no channel, one whose goroutine waits, or one it left
    err,       \* ioRace.err: the error kept for the next request
    ready,     \* ioRace.ready: readiness kept for the next request
    doneCh,    \* ioRace.doneCh: the deadlines the race can still cancel
    dlRef,     \* ioRace.dlRef: the last deadline reference handed out
    eventCh,   \* the loop's channel: one slot
    harvest,   \* events epollWait has taken from the kernel and not yet sent
    timers,    \* the deadline goroutines
    interest,  \* kernel: directions the descriptor is armed for
    avail,     \* kernel: directions in which I/O would not block
    sockerr,   \* kernel: descriptors with a pending asynchronous error
    sock,      \* life of the descriptor
    pc,        \* what each client goroutine has outstanding
    ans,       \* the content of the channel it receives from
    errored,   \* history: a report was dropped since the last arming
    panicked   \* the loop dereferenced a nil ioRace

raceVars == <<ch, err, ready, doneCh, dlRef>>
kernelVars == <<interest, avail, sockerr, sock>>
clientVars == <<pc, ans>>
vars == <<raceVars, eventCh, harvest, timers, kernelVars, clientVars,
          errored, panicked>>

-----------------------------------------------------------------------------
(* Messages of eventCh.                                                    *)

Empty == [type |-> "none"]
Requests == [type: {"req"}, op: Ops, from: Clients, race: Races, live: BOOLEAN]
Batches == [Fds -> SUBSET Flags]
ReadyEvents == [type: {"ready"}, pev: Batches]
TimeoutEvents == [type: {"timeout"}, timer: Timers]
Events == {Empty} \cup Requests \cup ReadyEvents \cup TimeoutEvents

NoEvents == [fd \in Fds |-> {}]

Free == [st |-> "free"]
TimerStates ==
    {Free} \cup [st: {"armed", "closed", "fired", "posted"}, race: Races,
                 ref: 0 .. MaxRef - 1]

\* The map p.race has an entry for the descriptor.
Watched(fd) == sock[fd] \in {"usable", "failed"}

Init ==
    /\ ch = [k \in Races |-> "none"]
    /\ err = [k \in Races |-> "nil"]
    /\ ready = [k \in Races |-> FALSE]
    /\ doneCh = [k \in Races |-> {}]
    /\ dlRef = [k \in Races |-> 0]
    /\ eventCh = Empty
    /\ harvest = NoEvents
    /\ timers = [t \in Timers |-> Free]
    /\ interest = [fd \in Fds |-> {}]
    /\ avail = [fd \in Fds |-> {}]
    /\ sockerr = {}
    /\ sock = [fd \in Fds |-> "new"]
    /\ pc = [c \in Clients |-> "idle"]
    /\ ans = [c \in Clients |-> "none"]
    /\ errored = {}
    /\ panicked = FALSE

-----------------------------------------------------------------------------
(* Client goroutines: SubmitIoReq sends the request, the caller receives.  *)

\* Opening a descriptor starts fresh goroutines for its two directions.
Started(fd) == [c \in Clients |-> IF c[1] = fd /\ c[2] \in Modes
                                   THEN "idle" ELSE pc[c]]
Unanswered(fd) == [c \in Clients |-> IF c[1] = fd /\ c[2] \in Modes
                                      THEN "none" ELSE ans[c]]

Send(op, c, k) ==
    /\ eventCh = Empty
    /\ eventCh' = [type |-> "req", op |-> op, from |-> c, race |-> k, live |-> TRUE]

SubmitData(fd, m, op) ==
    LET c == <<fd, m>> IN
    /\ ~panicked
    /\ <<m, op>> \in DataOps
    /\ sock[fd] \in {"usable", "closed"} /\ pc[<<fd, "ctl">>] # "ADD"
    /\ pc[c] = "idle"
    /\ op = "DEADLINE" => \E t \in Timers : timers[t].st = "free"
    /\ Send(op, c, c)
    /\ pc' = [pc EXCEPT ![c] = op]
    /\ UNCHANGED <<raceVars, harvest, timers, kernelVars, ans, errored, panicked>>

\* ADD and DEL carry EV_NULL, which getIoRace takes for the read race.
SubmitCtl(fd, m, op) ==
    LET c == <<fd, "ctl">> IN
    /\ ~panicked
    /\ op \in CtlOps
    /\ pc[c] = "idle"
    /\ op = "ADD" => m = "R" /\ sock[fd] \in {"new", "closed"}
    /\ op = "DEL" => m = "R" /\ Watched(fd)
    /\ op = "CANCEL" => sock[fd] = "usable"
    /\ Send(op, c, <<fd, m>>)
    /\ pc' = [IF op = "ADD" THEN Started(fd) ELSE pc EXCEPT ![c] = op]
    /\ ans' = IF op = "ADD" THEN Unanswered(fd) ELSE ans
    /\ UNCHANGED <<raceVars, harvest, timers, kernelVars, errored, panicked>>

\* After a nil answer to ARM the goroutine performs its I/O at once; that may
\* use up what made the direction ready, and it collects a pending error.
Collect(c) ==
    LET fd == c[1]
        served == pc[c] = "ARM" /\ ans[c] = "nil" /\ sock[fd] = "usable" IN
    /\ ~panicked
    /\ ans[c] # "none"
    /\ pc' = [pc EXCEPT ![c] = "idle"]
    /\ ans' = [ans EXCEPT ![c] = "none"]
    /\ IF served
       THEN /\ avail' \in {avail, [avail EXCEPT ![fd] = @ \ {c[2]}]}
            /\ sockerr' = sockerr \ {fd}
       ELSE UNCHANGED <<avail, sockerr>>
    /\ UNCHANGED <<raceVars, eventCh, harvest, timers, interest, sock, errored,
                   panicked>>

\* Accept, connect and close receive in a select with a timeout and leave.
\* The channel they created stays wherever the request has got to.
GiveUp(c) ==
    /\ ~panicked
    /\ c[2] \in Quitters
    /\ pc[c] \in {"ARM", "DEL"}
    /\ pc' = [pc EXCEPT ![c] = "idle"]
    /\ ans' = [ans EXCEPT ![c] = "none"]
    /\ ch' = [k \in Races |-> IF k = c /\ ch[k] = "live" THEN "orphan" ELSE ch[k]]
    /\ eventCh' = IF eventCh.type = "req" /\ eventCh.from = c
                  THEN [eventCh EXCEPT !.live = FALSE] ELSE eventCh
    /\ UNCHANGED <<err, ready, doneCh, dlRef, harvest, timers, kernelVars,
                   errored, panicked>>

-----------------------------------------------------------------------------
(* The kernel and the goroutine in epoll_wait.                             *)

DataArrives(fd) ==
    /\ ~panicked
    /\ sock[fd] = "usable" /\ "R" \notin avail[fd]
    /\ avail' = [avail EXCEPT ![fd] = @ \cup {"R"}]
    /\ UNCHANGED <<raceVars, eventCh, harvest, timers, interest, sockerr, sock,
                   clientVars, errored, panicked>>

SpaceFrees(fd) ==
    /\ ~panicked
    /\ sock[fd] = "usable" /\ "W" \notin avail[fd]
    /\ avail' = [avail EXCEPT ![fd] = @ \cup {"W"}]
    /\ UNCHANGED <<raceVars, eventCh, harvest, timers, interest, sockerr, sock,
                   clientVars, errored, panicked>>

SockError(fd) ==
    /\ ~panicked
    /\ SocketErrors
    /\ sock[fd] = "usable" /\ fd \notin sockerr
    /\ sockerr' = sockerr \cup {fd}
    /\ UNCHANGED <<raceVars, eventCh, harvest, timers, interest, avail, sock,
                   clientVars, errored, panicked>>

\* What epoll_wait reports: nothing for a descriptor whose oneshot is used up.
Reported(fd) ==
    IF interest[fd] = {} THEN {}
    ELSE (interest[fd] \cap avail[fd])
            \cup (IF fd \in sockerr THEN {"E"} ELSE {})

\* The caller's buffer bounds a batch, so it may hold any of the ready ones.
EpollWait(batch) ==
    /\ ~panicked
    /\ harvest = NoEvents
    /\ batch # {}
    /\ \A fd \in batch : Reported(fd) # {}
    /\ harvest' = [fd \in Fds |-> IF fd \in batch THEN Reported(fd) ELSE {}]
    /\ interest' = [fd \in Fds |-> IF fd \in batch THEN {} ELSE interest[fd]]
    /\ UNCHANGED <<raceVars, eventCh, timers, avail, sockerr, sock, clientVars,
                   errored, panicked>>

PostReady ==
    /\ ~panicked
    /\ harvest # NoEvents
    /\ eventCh = Empty
    /\ eventCh' = [type |-> "ready", pev |-> harvest]
    /\ harvest' = NoEvents
    /\ UNCHANGED <<raceVars, timers, kernelVars, clientVars, errored, panicked>>

-----------------------------------------------------------------------------
(* Deadline goroutines (raceDeadline1).                                    *)

Move(t, st) == timers' = [timers EXCEPT ![t] = [@ EXCEPT !.st = st]]

\* With the timer expired and doneCh closed the select may take either case.
Fire(t) ==
    /\ ~panicked
    /\ timers[t].st \in {"armed", "closed"}
    /\ Move(t, "fired")
    /\ UNCHANGED <<raceVars, eventCh, harvest, kernelVars, clientVars, errored,
                   panicked>>

Expire(t) ==
    /\ ~panicked
    /\ timers[t].st = "closed"
    /\ timers' = [timers EXCEPT ![t] = Free]
    /\ UNCHANGED <<raceVars, eventCh, harvest, kernelVars, clientVars, errored,
                   panicked>>

PostTimeout(t) ==
    /\ ~panicked
    /\ timers[t].st = "fired"
    /\ eventCh = Empty
    /\ eventCh' = [type |-> "timeout", timer |-> t]
    /\ Move(t, "posted")
    /\ UNCHANGED <<raceVars, harvest, kernelVars, clientVars, errored, panicked>>

-----------------------------------------------------------------------------
(* The event loop.  Each action is one iteration of epoller.run.           *)

\* Definitions named Bad... are slips this code could have; they are used by
\* no action and only show which property would notice.

BadReply(req, a) ==  \* report errors only
    IF req.live /\ a # "nil" THEN [ans EXCEPT ![req.from] = a] ELSE ans

\* sendError: the answer to the request itself.
Reply(req, a) == IF req.live THEN [ans EXCEPT ![req.from] = a] ELSE ans

\* close(doneCh) for a set of deadlines; one that has fired is not recalled.
Closed(ts) ==
    [t \in Timers |-> IF t \in ts /\ timers[t].st = "armed"
                      THEN [timers[t] EXCEPT !.st = "closed"] ELSE timers[t]]

BadForgotten(ks) == doneCh  \* close the channel, keep the map entry

\* The map entries of cancelled deadlines are removed.
Forgotten(ks) == [k \in Races |-> IF k \in ks THEN {} ELSE doneCh[k]]

BadReleased(ks) == ch  \* keep the channel that has been answered

\* deleteResultCh: a race lets go of the channel it answers.
Released(ks) == [k \in Races |-> IF k \in ks THEN "none" ELSE ch[k]]

BadToWaiters(ks, a, base) ==  \* let go of the channel without an error's answer
    [c \in Clients |-> IF c \in ks /\ ch[c] = "live" /\ a = "nil" THEN a ELSE base[c]]

\* Answers put into the result channels of a set of races.
ToWaiters(ks, a, base) ==
    [c \in Clients |-> IF c \in ks /\ ch[c] = "live" THEN a ELSE base[c]]

Taking(op) == ~panicked /\ eventCh.type = "req" /\ eventCh.op = op /\ eventCh' = Empty

\* newIoRace for both directions; a deleted entry is kept in this form too.
FreshRaces(fd) ==
    /\ ch' = [k \in Races |-> IF k[1] = fd THEN "none" ELSE ch[k]]
    /\ err' = [k \in Races |-> IF k[1] = fd THEN "nil" ELSE err[k]]
    /\ ready' = [k \in Races |-> IF k[1] = fd THEN FALSE ELSE ready[k]]
    /\ doneCh' = [k \in Races |-> IF k[1] = fd THEN {} ELSE doneCh[k]]
    /\ dlRef' = [k \in Races |-> IF k[1] = fd THEN 0 ELSE dlRef[k]]

HandleAdd ==
    LET fd == eventCh.from[1] IN
    /\ Taking("ADD")
    /\ FreshRaces(fd)
    /\ errored' = errored \ {fd}
    /\ \/ /\ sock' = [sock EXCEPT ![fd] = "usable"]
          /\ interest' = [interest EXCEPT ![fd] = Modes]
          /\ avail' = [avail EXCEPT ![fd] = {"W"}]
          /\ ans' = Reply(eventCh, "nil")
       \/ /\ sock' = [sock EXCEPT ![fd] = "failed"]
          /\ UNCHANGED <<interest, avail>>
          /\ ans' = Reply(eventCh, "failed")
    /\ UNCHANGED <<harvest, timers, sockerr, pc, panicked>>

BadDeletedRaces(fd) == {}  \* delete without telling anybody

\* deleteByFd: EV_NULL selects the read race, the write race is just dropped.
DeletedRaces(fd) == {<<fd, "R">>}

HandleDel ==
    LET fd == eventCh.from[1]
        told == DeletedRaces(fd) IN
    /\ Taking("DEL")
    /\ timers' = Closed(UNION {doneCh[k] : k \in told})
    /\ ans' = ToWaiters(told, "closed", Reply(eventCh, "nil"))
    /\ FreshRaces(fd)
    /\ sock' = [sock EXCEPT ![fd] = "closed"]
    /\ interest' = [interest EXCEPT ![fd] = {}]
    /\ avail' = [avail EXCEPT ![fd] = {}]
    /\ sockerr' = sockerr \ {fd}
    /\ UNCHANGED <<harvest, pc, errored, panicked>>

\* A request for a descriptor the map p.race does not hold.
HandleUndefined ==
    LET fd == eventCh.from[1] IN
    /\ \E op \in {"ARM", "DEADLINE", "CANCEL"} : Taking(op)
    /\ ~Watched(fd)
    /\ ans' = Reply(eventCh, "undefined")
    /\ UNCHANGED <<raceVars, harvest, timers, kernelVars, pc, errored, panicked>>

BadImmediate(k) == ready[k]  \* forget the kept error

Immediate(k) == err[k] # "nil" \/ ready[k]

\* rearm: a kept error or readiness answers at once, otherwise the goroutine
\* waits and the descriptor is armed for its direction.
HandleArm ==
    LET k == eventCh.race IN
    /\ Taking("ARM")
    /\ Watched(k[1])
    /\ \/ /\ Immediate(k)
          /\ ready' = [ready EXCEPT ![k] = FALSE]
          /\ ans' = Reply(eventCh, err[k])
          /\ UNCHANGED <<ch, interest, errored>>
       \/ /\ ~Immediate(k)
          /\ ch' = [ch EXCEPT ![k] = IF eventCh.live THEN "live" ELSE "orphan"]
          /\ interest' = [interest EXCEPT ![k[1]] = {k[2]}]
          /\ errored' = errored \ {k[1]}
          /\ UNCHANGED <<ready, ans>>
    /\ UNCHANGED <<err, doneCh, dlRef, harvest, timers, avail, sockerr, sock, pc,
                   panicked>>

\* resetIoReady
HandleReset ==
    LET k == eventCh.race IN
    /\ Taking("RESET")
    /\ IF Watched(k[1]) THEN ready' = [ready EXCEPT ![k] = FALSE] ELSE ready' = ready
    /\ ans' = Reply(eventCh, "nil")
    /\ UNCHANGED <<ch, err, doneCh, dlRef, harvest, timers, kernelVars, pc,
                   errored, panicked>>

\* errors.Is(race.err, VErrTimeout): the kept error is os.ErrDeadlineExceeded,
\* set by newIoEvent, and that is not an HdpError.
IsHdpTimeout(e) == e = "hdpTimeout"

BadNextRef(k) == dlRef[k] + 1  \* a counter without its width

NextRef(k) == (dlRef[k] + 1) % MaxRef

\* raceDeadline: a new deadline goroutine; its reference may replace an older
\* entry of doneCh once dlRef has wrapped.
HandleDeadline ==
    LET k == eventCh.race
        ref == NextRef(k)
        kept == IF IsHdpTimeout(err[k]) THEN "nil" ELSE err[k] IN
    /\ Taking("DEADLINE")
    /\ Watched(k[1])
    /\ err' = [err EXCEPT ![k] = kept]
    /\ dlRef' = [dlRef EXCEPT ![k] = ref]
    /\ \E t \in Timers :
        /\ timers[t].st = "free"
        /\ timers' = [timers EXCEPT ![t] = [st |-> "armed", race |-> k, ref |-> ref]]
        /\ doneCh' = [doneCh EXCEPT ![k] = {u \in @ : timers[u].ref # ref} \cup {t}]
    /\ ans' = Reply(eventCh, kept)
    /\ UNCHANGED <<ch, ready, harvest, kernelVars, pc, errored, panicked>>

\* cancelIo: a kept error is returned and stays; otherwise every deadline is
\* cancelled and a waiting goroutine is answered nil.
HandleCancel ==
    LET k == eventCh.race IN
    /\ Taking("CANCEL")
    /\ Watched(k[1])
    /\ \/ /\ err[k] # "nil"
          /\ ans' = Reply(eventCh, err[k])
          /\ UNCHANGED <<ch, doneCh, timers>>
       \/ /\ err[k] = "nil"
          /\ timers' = Closed(doneCh[k])
          /\ doneCh' = Forgotten({k})
          /\ ans' = ToWaiters({k}, "nil", Reply(eventCh, "nil"))
          /\ ch' = Released({k})
    /\ UNCHANGED <<err, ready, dlRef, harvest, kernelVars, pc, errored, panicked>>

\* handleIoReady for a batch.  A report with EPOLLERR is dropped whole.  The
\* waiter of a reported direction is answered and its deadlines cancelled, or
\* the readiness is kept; the waiter of a direction that was not reported is
\* armed again, and of two such waiters only the reader.
BadHandled(pev) ==  \* one erroneous report ends the whole batch
    IF \E fd \in Fds : "E" \in pev[fd] THEN {} ELSE {fd \in Fds : pev[fd] # {}}

Handled(pev) == {fd \in Fds : pev[fd] # {} /\ "E" \notin pev[fd]}
Hit(pev) == {k \in Races : k[1] \in Handled(pev) /\ k[2] \in pev[k[1]]}
Missed(pev, fd) == {m \in Modes \ pev[fd] : ch[<<fd, m>>] # "none"}

BadRearmed(pev, fd) == interest[fd]  \* leave the oneshot used up

Rearmed(pev, fd) ==
    IF fd \in Handled(pev) /\ Missed(pev, fd) # {}
    THEN IF "R" \in Missed(pev, fd) THEN {"R"} ELSE {"W"}
    ELSE interest[fd]

HandleReady ==
    LET pev == eventCh.pev
        hit == Hit(pev)
        answered == {k \in hit : ch[k] # "none"} IN
    /\ ~panicked
    /\ eventCh.type = "ready"
    /\ \A fd \in Fds : pev[fd] # {} => Watched(fd)
    /\ eventCh' = Empty
    /\ ch' = Released(answered)
    /\ err' = [k \in Races |-> IF k \in answered THEN "nil" ELSE err[k]]
    /\ ready' = [k \in Races |-> IF k \in hit THEN k \notin answered ELSE ready[k]]
    /\ doneCh' = Forgotten(answered)
    /\ timers' = Closed(UNION {doneCh[k] : k \in answered})
    /\ ans' = ToWaiters(answered, "nil", ans)
    /\ interest' = [fd \in Fds |-> Rearmed(pev, fd)]
    /\ errored' = errored \cup {fd \in Fds : "E" \in pev[fd]}
    /\ UNCHANGED <<dlRef, harvest, avail, sockerr, sock, pc, panicked>>

\* A report for a descriptor that has been deleted meanwhile: race[R].cid is
\* evaluated before the switch that means to log this case.  The process ends
\* with the batch in hand.
HandleUnknown ==
    /\ ~panicked
    /\ eventCh.type = "ready"
    /\ \E fd \in Fds : eventCh.pev[fd] # {} /\ ~Watched(fd)
    /\ panicked' = TRUE
    /\ UNCHANGED <<raceVars, eventCh, harvest, timers, kernelVars, clientVars, errored>>

\* A timeout is stale if ioRace.timedAt is set and earlier; epollWait never
\* sets the time of a report, so timedAt is the zero time for ever.
Stale(k) == FALSE

\* handleTimeout and doIoTimeout.
HandleTimeout ==
    LET t == eventCh.timer
        k == timers[t].race
        named == {u \in doneCh[k] : timers[u].ref = timers[t].ref} IN
    /\ ~panicked
    /\ eventCh.type = "timeout"
    /\ eventCh' = Empty
    /\ IF Watched(k[1]) /\ ~Stale(k)
       THEN /\ timers' = [Closed(named) EXCEPT ![t] = Free]
            /\ doneCh' = [doneCh EXCEPT ![k] = @ \ named]
            /\ err' = [err EXCEPT ![k] = IF ch[k] = "none" THEN "deadline" ELSE "nil"]
            /\ ans' = ToWaiters({k}, "deadline", ans)
            /\ ch' = Released({k})
       ELSE /\ timers' = [timers EXCEPT ![t] = Free]
            /\ UNCHANGED <<doneCh, err, ans, ch>>
    /\ UNCHANGED <<ready, dlRef, harvest, kernelVars, pc, errored, panicked>>

-----------------------------------------------------------------------------
(* The specification.                                                      *)

\* The process is gone after a panic.
Dead == panicked /\ UNCHANGED vars

ClientNext ==
    \/ \E fd \in Fds, m \in Modes, op \in Ops : SubmitData(fd, m, op)
    \/ \E fd \in Fds, m \in Modes, op \in CtlOps : SubmitCtl(fd, m, op)
    \/ \E c \in Clients : Collect(c)
    \/ \E c \in Clients : GiveUp(c)

KernelNext ==
    \/ \E fd \in Fds : DataArrives(fd)
    \/ \E fd \in Fds : SpaceFrees(fd)
    \/ \E fd \in Fds : SockError(fd)
    \/ \E batch \in SUBSET Fds : EpollWait(batch)
    \/ PostReady

TimerNext ==
    \/ \E t \in Timers : Fire(t)
    \/ \E t \in Timers : Expire(t)
    \/ \E t \in Timers : PostTimeout(t)

LoopNext ==
    \/ HandleAdd \/ HandleDel \/ HandleUndefined \/ HandleArm \/ HandleReset
    \/ HandleDeadline \/ HandleCancel \/ HandleReady \/ HandleUnknown
    \/ HandleTimeout

Next == ClientNext \/ KernelNext \/ TimerNext \/ LoopNext \/ Dead

Spec == Init /\ [][Next]_vars

\* The loop and the goroutine in epoll_wait run whenever they can; so do
\* goroutines that have received an answer and timers that are due.  A
\* goroutine blocked in a send on eventCh stands in the channel's queue of
\* senders, which Go serves in order: the slot cannot pass it by for ever.
\* The kernel drains a send buffer; nothing makes a peer send data, and
\* nothing makes a goroutine submit a request.
Fairness ==
    /\ WF_vars(LoopNext)
    /\ WF_vars(\E batch \in SUBSET Fds : EpollWait(batch))
    /\ SF_vars(PostReady)
    /\ \A t \in Timers : WF_vars(Fire(t) \/ Expire(t)) /\ SF_vars(PostTimeout(t))
    /\ \A c \in Clients : WF_vars(Collect(c))
    /\ \A fd \in Fds : WF_vars(SpaceFrees(fd))

FairSpec == Spec /\ Fairness

-----------------------------------------------------------------------------
(* Safety.                                                                 *)

TypeOK ==
    /\ ch \in [Races -> {"none", "live", "orphan"}]
    /\ err \in [Races -> {"nil", "deadline"}]
    /\ ready \in [Races -> BOOLEAN]
    /\ doneCh \in [Races -> SUBSET Timers]
    /\ dlRef \in [Races -> 0 .. MaxRef - 1]
    /\ eventCh \in Events
    /\ harvest \in Batches
    /\ timers \in [Timers -> TimerStates]
    /\ interest \in [Fds -> SUBSET Modes]
    /\ avail \in [Fds -> SUBSET Modes]
    /\ sockerr \in SUBSET Fds
    /\ sock \in [Fds -> {"new", "usable", "failed", "closed"}]
    /\ pc \in [Clients -> Ops \cup {"idle"}]
    /\ ans \in [Clients -> Answers \cup {"none"}]
    /\ errored \in SUBSET Fds
    /\ panicked \in BOOLEAN

QueuedFrom(c) == eventCh.type = "req" /\ eventCh.from = c /\ eventCh.live

\* The channel of a request never has two answers coming, so a goroutine that
\* delivers one never blocks: the loop and the queue hold it only while its
\* owner waits unanswered, never both at once, and an owner that has gone on
\* to something else finds nothing in it.
AnsweredOnce ==
    /\ \A k \in Races : ch[k] = "live" => pc[k] = "ARM" /\ ans[k] = "none"
    /\ \A c \in Clients : pc[c] = "idle" => ans[c] = "none"
    /\ \A c \in Clients : QueuedFrom(c) => pc[c] = eventCh.op /\ ans[c] = "none"
    /\ eventCh.type = "req" /\ eventCh.from \in Races => ch[eventCh.from] # "live"

\* No goroutine waits on a channel everybody else has forgotten, except one
\* that waits to write on a descriptor that has been deleted (deleteByFd
\* answers the reader only).
NobodyForgotten ==
    \A c \in Clients : pc[c] # "idle" /\ ans[c] = "none" =>
        \/ QueuedFrom(c)
        \/ c \in Races /\ ch[c] = "live"
        \/ c[2] = "W" /\ sock[c[1]] = "closed"

\* A result the loop has kept is never withheld from a goroutine that waits
\* for it: rearm hands it out before it stores a channel.
NothingWithheld ==
    \A k \in Races : ch[k] # "none" => ~ready[k] /\ err[k] = "nil"

InFlight(fd) ==
    \/ harvest[fd] # {}
    \/ eventCh.type = "ready" /\ eventCh.pev[fd] # {}

\* While somebody waits for a descriptor the kernel is armed for it, or a
\* report that will arm it again is on its way; the oneshot is never used up
\* for nothing, unless the report carried EPOLLERR (handleIoReady returns).
WaiterArmed ==
    \A k \in Races : ch[k] # "none" =>
        \/ interest[k[1]] # {}
        \/ InFlight(k[1])
        \/ k[1] \in errored

\* Every deadline a race can cancel belongs to a deadline goroutine of that
\* race whose doneCh is still open, and no two of them share a reference.
DeadlinesOwned ==
    \A k \in Races : \A t \in doneCh[k] :
        /\ timers[t].st \in {"armed", "fired", "posted"}
        /\ timers[t].race = k
        /\ \A u \in doneCh[k] : timers[u].ref = timers[t].ref => u = t

\* What the queue and the map keep true of each other; the properties above
\* rest on it.
Bookkeeping ==
    /\ \A fd \in Fds, m \in Modes : ~Watched(fd) =>
            ch[<<fd, m>>] = "none" /\ err[<<fd, m>>] = "nil" /\ doneCh[<<fd, m>>] = {}
    /\ eventCh.type = "timeout" => timers[eventCh.timer].st = "posted"
    /\ eventCh.type = "req" => LET fd == eventCh.from[1] IN
        /\ eventCh.op = "ARM" => eventCh.race = eventCh.from
        /\ eventCh.op = "ADD" =>
            /\ eventCh.from[2] = "ctl" /\ eventCh.live /\ ~Watched(fd)
            /\ \A m \in Modes : pc[<<fd, m>>] = "idle"
        /\ eventCh.op = "DEL" => eventCh.from[2] = "ctl" /\ Watched(fd)

\* The answers a request can have.  Only a goroutine that waits for the socket
\* is told that the descriptor was closed or that it waited long enough; a
\* deadline, set or cleared, can meet the error an earlier one has left.
MayAnswer ==
    [op \in Ops |->
        CASE op = "ARM" -> {"nil", "deadline", "closed", "undefined"}
          [] op \in {"DEADLINE", "CANCEL"} -> {"nil", "deadline", "undefined"}
          [] op = "ADD" -> {"nil", "failed"}
          [] OTHER -> {"nil"}]

Service == INSTANCE Replies

\* Requests and answers pair up as SubmitIoReq promises.
KeepsPromise == Service!Spec

\* poller.go:461 says of a new deadline that it "has cleared a persisting
\* timeout error", so setting a deadline is never refused with that error.
DeadlineClearsTimeout ==
    \A c \in Clients : pc[c] = "DEADLINE" => ans[c] # "deadline"

-----------------------------------------------------------------------------
(* Liveness, for descriptors that stay open and sockets without errors.    *)

\* The loop answers every request that does not wait for the socket.
RequestsAnswered ==
    \A c \in Clients : pc[c] \notin {"idle", "ARM"} ~> pc[c] = "idle"

\* A goroutine that waits under a deadline does not wait for ever, whatever
\* the socket does: its timeout reaches it through the shared slot.
DeadlineUnblocks ==
    \A k \in Races : ch[k] = "live" /\ doneCh[k] # {} ~> pc[k] = "idle"

\* A goroutine that waits to read where there is data gets its answer, once
\* the writing goroutine leaves the descriptor's single registration alone.
ReaderServed ==
    \A fd \in Fds : LET k == <<fd, "R">> IN
        <>[](pc[<<fd, "W">>] # "ARM") =>
            (ch[k] = "live" /\ "R" \in avail[fd] ~> pc[k] = "idle")

\* poller.go:334 and 358: a registered request is armed again, "otherwise
\* epoller effectively deletes the previous ... state".  A goroutine that
\* waits to write on a socket whose buffer drains is then served.
WriterServed ==
    \A fd \in Fds : ch[<<fd, "W">>] = "live" ~> pc[<<fd, "W">>] = "idle"

=============================================================================
