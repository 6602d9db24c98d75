--------------------------- MODULE EpollerProofs ---------------------------
(***************************************************************************)
(* Theorems about Epoller: what holds of the readiness service for every   *)
(* number of descriptors and deadlines, and whatever is requested.         *)
(***************************************************************************)
EXTENDS Epoller, TLAPS

\* The values of the variables stay in their types.
LEMMA TypeInit == Init => TypeOK
<1> SUFFICES ASSUME Init PROVE TypeOK
    OBVIOUS
<1>1. 0 \in 0 .. MaxRef - 1
    BY RefAssumption
<1>2. eventCh \in Events /\ harvest \in Batches /\ timers \in [Timers -> TimerStates]
    BY DEF Init, Events, NoEvents, Batches, TimerStates
<1>3. dlRef \in [Races -> 0 .. MaxRef - 1]
    BY <1>1 DEF Init
<1>4. doneCh \in [Races -> SUBSET Timers] /\ interest \in [Fds -> SUBSET Modes]
      /\ avail \in [Fds -> SUBSET Modes]
    BY DEF Init
<1>5. sockerr \in SUBSET Fds /\ errored \in SUBSET Fds /\ ready \in [Races -> BOOLEAN]
      /\ panicked \in BOOLEAN
    BY DEF Init
<1> QED
    BY <1>2, <1>3, <1>4, <1>5 DEF Init, TypeOK

\* What the helpers of the loop return.
LEMMA ReplyType ==
    ASSUME TypeOK, eventCh.type = "req", NEW a \in Answers
    PROVE  Reply(eventCh, a) \in [Clients -> Answers \cup {"none"}]
BY DEF Reply, TypeOK

\* Answering the channels of a set of races leaves answers in all channels.
LEMMA WaiterType ==
    ASSUME NEW ks, NEW a \in Answers, NEW base \in [Clients -> Answers \cup {"none"}]
    PROVE  ToWaiters(ks, a, base) \in [Clients -> Answers \cup {"none"}]
BY DEF ToWaiters

\* Closing deadlines leaves every deadline goroutine in one of its states.
LEMMA ClosedType ==
    ASSUME TypeOK, NEW ts
    PROVE  Closed(ts) \in [Timers -> TimerStates]
BY DEF Closed, TypeOK, TimerStates, Free

\* What a request in the queue is made of.
LEMMA RequestType ==
    ASSUME TypeOK, eventCh.type = "req"
    PROVE  /\ eventCh \in Requests
           /\ eventCh.from \in Clients /\ eventCh.from[1] \in Fds
           /\ eventCh.race \in Races /\ eventCh.race[1] \in Fds
           /\ eventCh.race[2] \in Modes /\ eventCh.live \in BOOLEAN
           /\ eventCh.op \in Ops
BY DEF TypeOK, Events, Empty, Requests, ReadyEvents, TimeoutEvents, Clients, Races

\* A batch of reports in the queue names flags for descriptors.
LEMMA BatchType ==
    ASSUME TypeOK, eventCh.type = "ready"
    PROVE  eventCh.pev \in Batches
BY DEF TypeOK, Events, Empty, Requests, ReadyEvents, TimeoutEvents

\* A timeout in the queue names the deadline goroutine that sent it.
LEMMA TimeoutType ==
    ASSUME TypeOK, eventCh.type = "timeout"
    PROVE  eventCh.timer \in Timers
BY DEF TypeOK, Events, Empty, Requests, ReadyEvents, TimeoutEvents

\* New races for a descriptor keep the types of the race variables.
LEMMA FreshType ==
    ASSUME TypeOK, NEW fd, FreshRaces(fd)
    PROVE  /\ ch' \in [Races -> {"none", "live", "orphan"}]
           /\ err' \in [Races -> {"nil", "deadline"}]
           /\ ready' \in [Races -> BOOLEAN]
           /\ doneCh' \in [Races -> SUBSET Timers]
           /\ dlRef' \in [Races -> 0 .. MaxRef - 1]
<1>1. ch' \in [Races -> {"none", "live", "orphan"}]
    BY DEF TypeOK, FreshRaces
<1>2. err' \in [Races -> {"nil", "deadline"}]
    BY DEF TypeOK, FreshRaces
<1>3. ready' \in [Races -> BOOLEAN]
    BY DEF TypeOK, FreshRaces
<1>4. doneCh' \in [Races -> SUBSET Timers]
    BY DEF TypeOK, FreshRaces
<1>5. dlRef' \in [Races -> 0 .. MaxRef - 1]
    <2>1. 0 \in 0 .. MaxRef - 1
        BY RefAssumption
    <2> QED
        BY <2>1 DEF TypeOK, FreshRaces
<1> QED
    BY <1>1, <1>2, <1>3, <1>4, <1>5

\* One iteration of the event loop keeps the types.
LEMMA LoopType == TypeOK /\ LoopNext => TypeOK'
<1> SUFFICES ASSUME TypeOK, LoopNext PROVE TypeOK'
    OBVIOUS
<1>0. Empty \in Events /\ "nil" \in Answers /\ "failed" \in Answers
      /\ "undefined" \in Answers /\ "closed" \in Answers /\ "deadline" \in Answers
    BY DEF Events, Answers
<1>1. CASE HandleAdd
    <2>1. eventCh.type = "req" /\ eventCh' = Empty
        BY <1>1 DEF HandleAdd, Taking
    <2>2. eventCh.from[1] \in Fds
        BY <2>1, RequestType
    <2>3. FreshRaces(eventCh.from[1])
        BY <1>1 DEF HandleAdd
    <2>4. ans' \in [Clients -> Answers \cup {"none"}]
        BY <1>0, <1>1, <2>1, ReplyType DEF HandleAdd
    <2>5. /\ sock' \in [Fds -> {"new", "usable", "failed", "closed"}]
          /\ interest' \in [Fds -> SUBSET Modes]
          /\ avail' \in [Fds -> SUBSET Modes]
          /\ errored' \in SUBSET Fds
        BY <1>1, <2>2 DEF HandleAdd, TypeOK, Modes
    <2> QED
        BY <1>0, <1>1, <2>1, <2>3, <2>4, <2>5, FreshType DEF HandleAdd, TypeOK
<1>2. CASE HandleDel
    <2>1. eventCh.type = "req" /\ eventCh' = Empty
        BY <1>2 DEF HandleDel, Taking
    <2>2. FreshRaces(eventCh.from[1])
        BY <1>2 DEF HandleDel
    <2>3. timers' \in [Timers -> TimerStates]
        BY <1>2, ClosedType DEF HandleDel
    <2>4. ans' \in [Clients -> Answers \cup {"none"}]
        BY <1>0, <1>2, <2>1, ReplyType, WaiterType DEF HandleDel
    <2>5. /\ sock' \in [Fds -> {"new", "usable", "failed", "closed"}]
          /\ interest' \in [Fds -> SUBSET Modes]
          /\ avail' \in [Fds -> SUBSET Modes]
          /\ sockerr' \in SUBSET Fds
        BY <1>2 DEF HandleDel, TypeOK, Modes
    <2> QED
        BY <1>0, <1>2, <2>1, <2>2, <2>3, <2>4, <2>5, FreshType DEF HandleDel, TypeOK
<1>3. CASE HandleUndefined
    <2>1. eventCh.type = "req" /\ eventCh' = Empty
        BY <1>3 DEF HandleUndefined, Taking
    <2>2. ans' \in [Clients -> Answers \cup {"none"}]
        BY <1>0, <1>3, <2>1, ReplyType DEF HandleUndefined
    <2> QED
        BY <1>0, <1>3, <2>1, <2>2 DEF HandleUndefined, TypeOK, raceVars, kernelVars
<1>4. CASE HandleArm
    <2>1. eventCh.type = "req" /\ eventCh' = Empty
        BY <1>4 DEF HandleArm, Taking
    <2>2. eventCh.race \in Races /\ eventCh.race[1] \in Fds /\ eventCh.race[2] \in Modes
        BY <2>1, RequestType
    <2>3. err[eventCh.race] \in Answers
        BY <2>2 DEF TypeOK, Answers
    <2>4. ans' \in [Clients -> Answers \cup {"none"}]
        BY <1>4, <2>1, <2>3, ReplyType DEF HandleArm, TypeOK
    <2>5. ch' \in [Races -> {"none", "live", "orphan"}] /\ ready' \in [Races -> BOOLEAN]
        BY <1>4, <2>2 DEF HandleArm, TypeOK
    <2>6. interest' \in [Fds -> SUBSET Modes]
        <3>1. {eventCh.race[2]} \in SUBSET Modes
            BY <2>2
        <3> QED
            BY <1>4, <2>2, <3>1 DEF HandleArm, TypeOK
    <2>7. errored' \in SUBSET Fds
        BY <1>4, <2>2 DEF HandleArm, TypeOK
    <2> QED
        BY <1>0, <1>4, <2>1, <2>4, <2>5, <2>6, <2>7 DEF HandleArm, TypeOK
<1>5. CASE HandleReset
    <2>1. eventCh.type = "req" /\ eventCh' = Empty
        BY <1>5 DEF HandleReset, Taking
    <2>2. ans' \in [Clients -> Answers \cup {"none"}]
        BY <1>0, <1>5, <2>1, ReplyType DEF HandleReset
    <2>3. ready' \in [Races -> BOOLEAN]
        BY <1>5 DEF HandleReset, TypeOK
    <2> QED
        BY <1>0, <1>5, <2>1, <2>2, <2>3 DEF HandleReset, TypeOK, kernelVars
<1>6. CASE HandleDeadline
    <2> DEFINE k == eventCh.race
    <2>1. eventCh.type = "req" /\ eventCh' = Empty
        BY <1>6 DEF HandleDeadline, Taking
    <2>2. k \in Races
        BY <2>1, RequestType
    <2>3. err[k] \in {"nil", "deadline"} /\ dlRef[k] \in Nat
        BY <2>2, RefAssumption DEF TypeOK
    <2>4. NextRef(k) \in 0 .. MaxRef - 1
        BY <2>3, RefAssumption DEF NextRef
    <2>5. /\ err' \in [Races -> {"nil", "deadline"}]
          /\ dlRef' \in [Races -> 0 .. MaxRef - 1]
          /\ ans' \in [Clients -> Answers \cup {"none"}]
        BY <1>0, <1>6, <2>1, <2>2, <2>3, <2>4, ReplyType DEF HandleDeadline, TypeOK
    <2>6. PICK t \in Timers :
            /\ timers' = [timers EXCEPT ![t] =
                            [st |-> "armed", race |-> k, ref |-> NextRef(k)]]
            /\ doneCh' = [doneCh EXCEPT ![k] =
                            {u \in @ : timers[u].ref # NextRef(k)} \cup {t}]
        BY <1>6 DEF HandleDeadline
    <2>7. timers' \in [Timers -> TimerStates]
        BY <2>2, <2>4, <2>6 DEF TypeOK, TimerStates
    <2>8. doneCh' \in [Races -> SUBSET Timers]
        BY <2>2, <2>6 DEF TypeOK
    <2> QED
        BY <1>0, <1>6, <2>1, <2>5, <2>7, <2>8 DEF HandleDeadline, TypeOK, kernelVars
<1>7. CASE HandleCancel
    <2> DEFINE k == eventCh.race
    <2>1. eventCh.type = "req" /\ eventCh' = Empty
        BY <1>7 DEF HandleCancel, Taking
    <2>2. k \in Races
        BY <2>1, RequestType
    <2>3. err[k] \in Answers
        BY <2>2 DEF TypeOK, Answers
    <2>4. ans' \in [Clients -> Answers \cup {"none"}]
        <3>1. \A a \in Answers : Reply(eventCh, a) \in [Clients -> Answers \cup {"none"}]
            BY <2>1, ReplyType
        <3>2. ToWaiters({k}, "nil", Reply(eventCh, "nil"))
                    \in [Clients -> Answers \cup {"none"}]
            BY <1>0, <3>1, WaiterType
        <3> QED
            BY <1>7, <2>3, <3>1, <3>2 DEF HandleCancel
    <2>5. timers' \in [Timers -> TimerStates]
        BY <1>7, ClosedType DEF HandleCancel, TypeOK
    <2>6. /\ ch' \in [Races -> {"none", "live", "orphan"}]
          /\ doneCh' \in [Races -> SUBSET Timers]
        BY <1>7 DEF HandleCancel, Released, Forgotten, TypeOK
    <2> QED
        BY <1>0, <1>7, <2>1, <2>4, <2>5, <2>6 DEF HandleCancel, TypeOK, kernelVars
<1>8. CASE HandleReady
    <2>1. eventCh' = Empty
        BY <1>8 DEF HandleReady
    <2>2. ans' \in [Clients -> Answers \cup {"none"}]
        BY <1>0, <1>8, WaiterType DEF HandleReady, TypeOK
    <2>3. timers' \in [Timers -> TimerStates]
        BY <1>8, ClosedType DEF HandleReady
    <2>4. /\ ch' \in [Races -> {"none", "live", "orphan"}]
          /\ err' \in [Races -> {"nil", "deadline"}]
          /\ doneCh' \in [Races -> SUBSET Timers]
        BY <1>8 DEF HandleReady, Released, Forgotten, TypeOK
    <2>5. ready' \in [Races -> BOOLEAN]
        BY <1>8 DEF HandleReady, TypeOK
    <2>6. interest' \in [Fds -> SUBSET Modes] /\ errored' \in SUBSET Fds
        BY <1>8 DEF HandleReady, Rearmed, Modes, TypeOK
    <2> QED
        BY <1>0, <1>8, <2>1, <2>2, <2>3, <2>4, <2>5, <2>6 DEF HandleReady, TypeOK
<1>9. CASE HandleUnknown
    BY <1>9 DEF HandleUnknown, TypeOK, raceVars, kernelVars, clientVars
<1>10. CASE HandleTimeout
    <2> DEFINE t == eventCh.timer
               k == timers[t].race
               named == {u \in doneCh[k] : timers[u].ref = timers[t].ref}
    <2>1. eventCh.type = "timeout" /\ eventCh' = Empty
        BY <1>10 DEF HandleTimeout
    <2>2. t \in Timers
        BY <2>1, TimeoutType
    <2>3. timers' \in [Timers -> TimerStates]
        <3>1. Closed(named) \in [Timers -> TimerStates] /\ Free \in TimerStates
            BY ClosedType DEF TimerStates
        <3> QED
            BY <1>10, <2>2, <3>1 DEF HandleTimeout, TypeOK
    <2>4. ans' \in [Clients -> Answers \cup {"none"}]
        <3>1. ToWaiters({k}, "deadline", ans) \in [Clients -> Answers \cup {"none"}]
            BY <1>0, WaiterType DEF TypeOK
        <3> QED
            BY <1>10, <3>1 DEF HandleTimeout, TypeOK
    <2>5. /\ ch' \in [Races -> {"none", "live", "orphan"}]
          /\ err' \in [Races -> {"nil", "deadline"}]
          /\ doneCh' \in [Races -> SUBSET Timers]
        BY <1>10 DEF HandleTimeout, Released, TypeOK
    <2> QED
        BY <1>0, <1>10, <2>1, <2>3, <2>4, <2>5 DEF HandleTimeout, TypeOK, kernelVars
<1> QED
    BY <1>1, <1>2, <1>3, <1>4, <1>5, <1>6, <1>7, <1>8, <1>9, <1>10 DEF LoopNext

\* Every step, of any goroutine or of the kernel, keeps the types.
LEMMA TypeStep == TypeOK /\ [Next]_vars => TypeOK'
<1> SUFFICES ASSUME TypeOK, [Next]_vars PROVE TypeOK'
    OBVIOUS
<1> USE DEF TypeOK
<1>1. CASE UNCHANGED vars
    BY <1>1 DEF vars, raceVars, kernelVars, clientVars
<1>2. ASSUME NEW fd \in Fds, NEW m \in Modes, NEW op \in Ops, SubmitData(fd, m, op)
      PROVE  TypeOK'
    <2>1. <<fd, m>> \in Clients /\ <<fd, m>> \in Races
        BY DEF Clients, Races, Roles
    <2>2. eventCh' \in Events /\ pc' \in [Clients -> Ops \cup {"idle"}]
        BY <1>2, <2>1 DEF SubmitData, Send, Events, Requests
    <2> QED BY <1>2, <2>2 DEF SubmitData, raceVars, kernelVars
<1>3. ASSUME NEW fd \in Fds, NEW m \in Modes, NEW op \in CtlOps, SubmitCtl(fd, m, op)
      PROVE  TypeOK'
    <2>1. <<fd, "ctl">> \in Clients /\ <<fd, m>> \in Races /\ op \in Ops
        BY OpsAssumption DEF Clients, Races, Roles, Ops
    <2>2. eventCh' \in Events
        BY <1>3, <2>1 DEF SubmitCtl, Send, Events, Requests
    <2>3. Started(fd) \in [Clients -> Ops \cup {"idle"}]
        BY DEF Started
    <2>4. pc' \in [Clients -> Ops \cup {"idle"}]
        BY <1>3, <2>1, <2>3 DEF SubmitCtl
    <2>5. ans' \in [Clients -> Answers \cup {"none"}]
        BY <1>3 DEF SubmitCtl, Unanswered
    <2> QED BY <1>3, <2>2, <2>4, <2>5 DEF SubmitCtl, raceVars, kernelVars
<1>4. ASSUME NEW c \in Clients, Collect(c) PROVE TypeOK'
    <2>1. c[1] \in Fds
        BY DEF Clients
    <2>2. avail' \in [Fds -> SUBSET Modes]
        BY <1>4, <2>1 DEF Collect
    <2>3. pc' \in [Clients -> Ops \cup {"idle"}] /\ ans' \in [Clients -> Answers \cup {"none"}]
        BY <1>4 DEF Collect
    <2>4. sockerr' \in SUBSET Fds
        BY <1>4 DEF Collect
    <2> QED BY <1>4, <2>2, <2>3, <2>4 DEF Collect, raceVars
<1>5. ASSUME NEW c \in Clients, GiveUp(c) PROVE TypeOK'
    <2>1. eventCh' \in Events
        <3>1. CASE eventCh.type = "req"
            BY <1>5, <3>1 DEF GiveUp, Events, Requests, Empty, ReadyEvents, TimeoutEvents
        <3>2. CASE eventCh.type # "req"
            BY <1>5, <3>2 DEF GiveUp
        <3> QED BY <3>1, <3>2
    <2>2. ch' \in [Races -> {"none", "live", "orphan"}]
        BY <1>5 DEF GiveUp
    <2> QED BY <1>5, <2>1, <2>2 DEF GiveUp, kernelVars
<1>6. ASSUME NEW fd \in Fds, DataArrives(fd) \/ SpaceFrees(fd) \/ SockError(fd)
      PROVE  TypeOK'
    BY <1>6 DEF DataArrives, SpaceFrees, SockError, raceVars, clientVars, Modes
<1>7. ASSUME NEW batch \in SUBSET Fds, EpollWait(batch) PROVE TypeOK'
    <2>1. harvest' \in Batches
        BY <1>7 DEF EpollWait, Batches, Flags, Reported, Modes
    <2>2. interest' \in [Fds -> SUBSET Modes]
        BY <1>7 DEF EpollWait
    <2> QED BY <1>7, <2>1, <2>2 DEF EpollWait, raceVars, clientVars
<1>8. ASSUME PostReady PROVE TypeOK'
    <2>1. eventCh' \in Events /\ harvest' \in Batches
        BY <1>8 DEF PostReady, Events, ReadyEvents, NoEvents, Batches
    <2> QED BY <1>8, <2>1 DEF PostReady, raceVars, kernelVars, clientVars
<1>9. ASSUME NEW t \in Timers, Fire(t) \/ Expire(t) \/ PostTimeout(t) PROVE TypeOK'
    <2>1. timers' \in [Timers -> TimerStates]
        BY <1>9 DEF Fire, Expire, PostTimeout, Move, TimerStates, Free
    <2>2. eventCh' \in Events
        BY <1>9 DEF Fire, Expire, PostTimeout, Events, TimeoutEvents
    <2> QED BY <1>9, <2>1, <2>2
            DEF Fire, Expire, PostTimeout, raceVars, kernelVars, clientVars
<1>10. ASSUME LoopNext PROVE TypeOK'
    BY <1>10, LoopType
<1> QED
    BY <1>1, <1>2, <1>3, <1>4, <1>5, <1>6, <1>7, <1>8, <1>9, <1>10
       DEF Next, ClientNext, KernelNext, TimerNext, Dead

\* The loop, the kernel and the goroutines never leave the types of TypeOK: dlRef
\* stays in its width and only the listed errors are kept for a later request.
THEOREM TypeCorrect == Spec => []TypeOK
<1> QED
    BY TypeInit, TypeStep, PTL DEF Spec

-----------------------------------------------------------------------------

\* A oneshot report is never used up while somebody waits, unless it carried
\* an error: type correctness is all the induction needs.
LEMMA ArmedStep == TypeOK /\ WaiterArmed /\ [Next]_vars => WaiterArmed'
<1> SUFFICES ASSUME TypeOK, WaiterArmed, [Next]_vars,
                    NEW k \in Races, ch'[k] # "none"
             PROVE  \/ interest'[k[1]] # {}
                    \/ InFlight(k[1])'
                    \/ k[1] \in errored'
    BY DEF WaiterArmed
<1> DEFINE fd == k[1]
<1>0. fd \in Fds /\ k[2] \in Modes /\ k = <<k[1], k[2]>>
    BY DEF Races
<1>w. ch[k] # "none" => interest[fd] # {} \/ InFlight(fd) \/ fd \in errored
    BY DEF WaiterArmed
<1>e. Empty.type = "none"
    BY DEF Empty
<1>1. CASE UNCHANGED vars
    BY <1>1, <1>w DEF vars, raceVars, kernelVars, clientVars, InFlight
<1>2. CASE ClientNext
    <2>1. ch[k] # "none" /\ interest' = interest /\ harvest' = harvest /\ errored' = errored
        BY <1>2 DEF ClientNext, SubmitData, SubmitCtl, Collect, GiveUp, raceVars, kernelVars
    <2>2. eventCh.type = "ready" => eventCh' = eventCh
        BY <1>2, <1>e DEF ClientNext, SubmitData, SubmitCtl, Collect, GiveUp, Send
    <2> QED
        BY <1>w, <2>1, <2>2 DEF InFlight
<1>3. CASE KernelNext
    <2>1. ch[k] # "none" /\ errored' = errored
        BY <1>3 DEF KernelNext, DataArrives, SpaceFrees, SockError, EpollWait, PostReady,
                    raceVars
    <2>2. ASSUME NEW batch \in SUBSET Fds, EpollWait(batch)
          PROVE  interest'[fd] # {} \/ InFlight(fd)' \/ fd \in errored'
        <3>1. CASE fd \in batch
            <4>1. harvest'[fd] # {}
                BY <1>0, <2>2, <3>1 DEF EpollWait
            <4> QED
                BY <4>1 DEF InFlight
        <3>2. CASE fd \notin batch
            <4>1. interest'[fd] = interest[fd] /\ eventCh' = eventCh /\ harvest[fd] = {}
                BY <1>0, <2>2, <3>2 DEF EpollWait, NoEvents
            <4> QED
                BY <1>w, <2>1, <4>1 DEF InFlight
        <3> QED BY <3>1, <3>2
    <2>3. ASSUME PostReady
          PROVE  interest'[fd] # {} \/ InFlight(fd)' \/ fd \in errored'
        <3>1. eventCh' = [type |-> "ready", pev |-> harvest] /\ interest' = interest
              /\ eventCh.type = "none"
            BY <2>3 DEF PostReady, kernelVars, Empty
        <3> QED
            BY <1>w, <2>1, <3>1 DEF InFlight
    <2>4. ASSUME NEW g \in Fds, DataArrives(g) \/ SpaceFrees(g) \/ SockError(g)
          PROVE  interest'[fd] # {} \/ InFlight(fd)' \/ fd \in errored'
        BY <1>w, <2>1, <2>4 DEF DataArrives, SpaceFrees, SockError, InFlight
    <2> QED
        BY <1>3, <2>2, <2>3, <2>4 DEF KernelNext
<1>4. CASE TimerNext
    <2>1. ch[k] # "none" /\ interest' = interest /\ harvest' = harvest /\ errored' = errored
        BY <1>4 DEF TimerNext, Fire, Expire, PostTimeout, raceVars, kernelVars
    <2>2. eventCh.type = "ready" => eventCh' = eventCh
        BY <1>4, <1>e DEF TimerNext, Fire, Expire, PostTimeout
    <2> QED
        BY <1>w, <2>1, <2>2 DEF InFlight
<1>5. CASE HandleAdd \/ HandleDel
    <2>1. eventCh.type = "req" /\ eventCh.from[1] \in Fds
        BY <1>5, RequestType DEF HandleAdd, HandleDel, Taking
    <2>2. FreshRaces(eventCh.from[1]) /\ harvest' = harvest
        BY <1>5 DEF HandleAdd, HandleDel
    <2>3. fd # eventCh.from[1] /\ ch[k] # "none"
        BY <2>2 DEF FreshRaces
    <2>4. interest'[fd] = interest[fd]
        BY <1>0, <1>5, <2>3 DEF HandleAdd, HandleDel, TypeOK
    <2>5. fd \in errored => fd \in errored'
        BY <1>5, <2>3 DEF HandleAdd, HandleDel
    <2> QED
        BY <1>w, <2>1, <2>2, <2>3, <2>4, <2>5 DEF InFlight
<1>6. CASE HandleUndefined \/ HandleReset \/ HandleDeadline
    <2>1. eventCh.type = "req" /\ ch' = ch /\ harvest' = harvest /\ interest' = interest
          /\ errored' = errored
        BY <1>6 DEF HandleUndefined, HandleReset, HandleDeadline, Taking, raceVars, kernelVars
    <2> QED
        BY <1>w, <2>1 DEF InFlight
<1>7. CASE HandleArm
    <2>1. eventCh.type = "req" /\ harvest' = harvest
        BY <1>7 DEF HandleArm, Taking
    <2>2. eventCh.race \in Races /\ eventCh.race[1] \in Fds
        BY <2>1, RequestType
    <2>3. CASE interest' = [interest EXCEPT ![eventCh.race[1]] = {eventCh.race[2]}]
               /\ fd = eventCh.race[1]
        BY <1>0, <2>3 DEF TypeOK
    <2>4. CASE interest' = [interest EXCEPT ![eventCh.race[1]] = {eventCh.race[2]}]
               /\ fd # eventCh.race[1] /\ errored' = errored \ {eventCh.race[1]}
               /\ ch'[k] = ch[k]
        BY <1>0, <1>w, <2>1, <2>4 DEF TypeOK, InFlight
    <2>5. CASE ch' = ch /\ interest' = interest /\ errored' = errored
        BY <1>w, <2>1, <2>5 DEF InFlight
    <2>6. ch' = [ch EXCEPT ![eventCh.race] = IF eventCh.live THEN "live" ELSE "orphan"]
            /\ fd # eventCh.race[1] => ch'[k] = ch[k]
        BY DEF TypeOK
    <2> QED
        BY <1>7, <2>3, <2>4, <2>5, <2>6 DEF HandleArm
<1>8. CASE HandleCancel \/ HandleTimeout
    <2>1. ch[k] # "none"
        BY <1>8 DEF HandleCancel, HandleTimeout, Released
    <2>2. eventCh.type \in {"req", "timeout"} /\ harvest' = harvest /\ interest' = interest
          /\ errored' = errored
        BY <1>8 DEF HandleCancel, HandleTimeout, Taking, kernelVars
    <2> QED
        BY <1>w, <2>1, <2>2 DEF InFlight
<1>9. CASE HandleReady
    <2> DEFINE pev == eventCh.pev
    <2>1. pev \in Batches /\ harvest' = harvest /\ interest'[fd] = Rearmed(pev, fd)
          /\ errored' = errored \cup {g \in Fds : "E" \in pev[g]}
        BY <1>0, <1>9, BatchType DEF HandleReady
    <2>2. ch[k] # "none" /\ k \notin Hit(pev)
        BY <1>9 DEF HandleReady, Released
    <2>3. CASE "E" \in pev[fd]
        BY <1>0, <2>1, <2>3
    <2>4. CASE "E" \notin pev[fd] /\ pev[fd] # {}
        <3>1. fd \in Handled(pev) /\ k[2] \notin pev[fd]
            BY <1>0, <2>2, <2>4 DEF Handled, Hit
        <3>2. k[2] \in Missed(pev, fd)
            BY <1>0, <2>2, <3>1 DEF Missed
        <3> QED
            BY <2>1, <3>1, <3>2 DEF Rearmed
    <2>5. CASE pev[fd] = {}
        <3>1. interest'[fd] = interest[fd]
            BY <2>1, <2>5 DEF Rearmed, Handled
        <3> QED
            BY <1>w, <2>1, <2>2, <2>5, <3>1 DEF InFlight
    <2> QED
        BY <2>3, <2>4, <2>5
<1>10. CASE HandleUnknown
    BY <1>10, <1>w DEF HandleUnknown, raceVars, kernelVars, InFlight
<1> QED
    BY <1>1, <1>2, <1>3, <1>4, <1>5, <1>6, <1>7, <1>8, <1>9, <1>10
       DEF Next, LoopNext, Dead

\* While somebody waits for a descriptor, the kernel is armed for it or a
\* report is on its way, unless the last report was dropped for an error.
THEOREM WaitersStayArmed == Spec => []WaiterArmed
<1>1. Init => WaiterArmed
    BY DEF Init, WaiterArmed
<1> QED
    BY <1>1, ArmedStep, TypeCorrect, PTL DEF Spec

-----------------------------------------------------------------------------

\* What one iteration of the loop may keep from a waiter: nothing.
LEMMA WithheldStep == TypeOK /\ NothingWithheld /\ [Next]_vars => NothingWithheld'
<1> SUFFICES ASSUME TypeOK, NothingWithheld, [Next]_vars,
                    NEW k \in Races, ch'[k] # "none"
             PROVE  ~ready'[k] /\ err'[k] = "nil"
    BY DEF NothingWithheld
<1>w. ch[k] # "none" => ~ready[k] /\ err[k] = "nil"
    BY DEF NothingWithheld
<1>1. CASE UNCHANGED vars \/ ClientNext \/ KernelNext \/ TimerNext
    <2>1. ch[k] # "none" /\ ready' = ready /\ err' = err
        BY <1>1 DEF vars, raceVars, ClientNext, SubmitData, SubmitCtl, Collect, GiveUp,
                    KernelNext, DataArrives, SpaceFrees, SockError, EpollWait, PostReady,
                    TimerNext, Fire, Expire, PostTimeout
    <2> QED
        BY <1>w, <2>1
<1>2. CASE HandleAdd \/ HandleDel
    <2>1. FreshRaces(eventCh.from[1])
        BY <1>2 DEF HandleAdd, HandleDel
    <2> QED
        BY <1>w, <2>1 DEF FreshRaces
<1>3. CASE HandleUndefined \/ HandleUnknown
    BY <1>3, <1>w DEF HandleUndefined, HandleUnknown, raceVars
<1>4. CASE HandleArm
    <2> DEFINE r == eventCh.race
    <2>1. r \in Races /\ err' = err
        BY <1>4, RequestType DEF HandleArm, Taking
    <2>2. CASE Immediate(r)
        <3>1. ch' = ch /\ ready' = [ready EXCEPT ![r] = FALSE]
            BY <1>4, <2>2 DEF HandleArm
        <3> QED
            BY <1>w, <2>1, <3>1 DEF TypeOK
    <2>3. CASE ~Immediate(r)
        <3>1. ready' = ready /\ (k # r => ch'[k] = ch[k])
            BY <1>4, <2>1, <2>3 DEF HandleArm, TypeOK
        <3> QED
            BY <1>w, <2>1, <2>3, <3>1 DEF Immediate, TypeOK
    <2> QED
        BY <2>2, <2>3
<1>5. CASE HandleReset
    <2>1. ch' = ch /\ err' = err
        BY <1>5 DEF HandleReset
    <2>2. ready'[k] = ready[k] \/ ready'[k] = FALSE
        BY <1>5 DEF HandleReset, TypeOK
    <2> QED
        BY <1>w, <2>1, <2>2
<1>6. CASE HandleDeadline
    <2>1. ch' = ch /\ ready' = ready
        BY <1>6 DEF HandleDeadline
    <2>2. err'[k] = err[k] \/ err'[k] = "nil"
        BY <1>6 DEF HandleDeadline, TypeOK
    <2> QED
        BY <1>w, <2>1, <2>2
<1>7. CASE HandleCancel
    BY <1>7, <1>w DEF HandleCancel, Released
<1>8. CASE HandleReady
    <2> DEFINE hit == Hit(eventCh.pev)
               answered == {r \in hit : ch[r] # "none"}
    <2>1. ch[k] # "none" /\ k \notin answered
        BY <1>8 DEF HandleReady, Released
    <2>2. k \notin hit
        BY <2>1
    <2> QED
        BY <1>8, <1>w, <2>1, <2>2 DEF HandleReady
<1>9. CASE HandleTimeout
    <2>1. ready' = ready /\ ch[k] # "none"
        BY <1>9 DEF HandleTimeout, Released
    <2>2. err'[k] = err[k]
        BY <1>9 DEF HandleTimeout, Released, TypeOK
    <2> QED
        BY <1>w, <2>1, <2>2
<1> QED
    BY <1>1, <1>2, <1>3, <1>4, <1>5, <1>6, <1>7, <1>8, <1>9 DEF Next, LoopNext, Dead

\* No kept result is withheld from a goroutine that waits for it.
THEOREM NoResultWithheld == Spec => []NothingWithheld
<1>1. Init => NothingWithheld
    BY DEF Init, NothingWithheld
<1> QED
    BY <1>1, WithheldStep, TypeCorrect, PTL DEF Spec

-----------------------------------------------------------------------------

\* Closing deadlines leaves the others as they are.
LEMMA ClosedOthers ==
    ASSUME NEW ts, NEW t \in Timers, t \notin ts
    PROVE  Closed(ts)[t] = timers[t]
BY DEF Closed

\* A deadline belongs to one race only.
LEMMA OneOwner ==
    ASSUME DeadlinesOwned, NEW k \in Races, NEW r \in Races, r # k,
           NEW t \in doneCh[k]
    PROVE  t \notin doneCh[r]
BY DEF DeadlinesOwned

\* The deadline goroutines and the loop agree on which deadlines are open.
LEMMA DeadlinesStep ==
    TypeOK /\ Bookkeeping /\ DeadlinesOwned /\ [Next]_vars => DeadlinesOwned'
<1> SUFFICES ASSUME TypeOK, Bookkeeping, DeadlinesOwned, [Next]_vars,
                    NEW k \in Races, NEW t \in doneCh'[k]
             PROVE  /\ timers'[t].st \in {"armed", "fired", "posted"}
                    /\ timers'[t].race = k
                    /\ \A u \in doneCh'[k] : timers'[u].ref = timers'[t].ref => u = t
    BY DEF DeadlinesOwned
<1> DEFINE Good == /\ timers'[t].st \in {"armed", "fired", "posted"}
                   /\ timers'[t].race = k
                   /\ \A u \in doneCh'[k] : timers'[u].ref = timers'[t].ref => u = t
<1>o. \A u \in doneCh[k] :
        /\ u \in Timers /\ timers[u].st \in {"armed", "fired", "posted"}
        /\ timers[u].race = k
        /\ \A v \in doneCh[k] : timers[v].ref = timers[u].ref => v = u
    BY DEF DeadlinesOwned, TypeOK
<1>s. ASSUME doneCh'[k] \subseteq doneCh[k], \A u \in doneCh'[k] : timers'[u] = timers[u]
      PROVE  Good
    BY <1>o, <1>s
<1>1. CASE UNCHANGED vars \/ ClientNext \/ KernelNext
    <2>1. doneCh' = doneCh /\ timers' = timers
        BY <1>1 DEF vars, raceVars, ClientNext, SubmitData, SubmitCtl, Collect, GiveUp,
                    KernelNext, DataArrives, SpaceFrees, SockError, EpollWait, PostReady
    <2> QED
        BY <1>s, <2>1
<1>2. ASSUME NEW s \in Timers, NEW st \in {"fired", "posted"}, Move(s, st),
             timers[s].st # "free", doneCh' = doneCh
      PROVE  Good
    <2>1. timers[s] \in TimerStates /\ timers[s] # Free
        BY <1>2 DEF TypeOK, Free
    <2>2. timers' = [timers EXCEPT ![s] = [st |-> st, race |-> timers[s].race,
                                           ref |-> timers[s].ref]]
        <3>1. timers[s] \in [st: {"armed", "closed", "fired", "posted"}, race: Races,
                             ref: 0 .. MaxRef - 1]
            BY <2>1 DEF TimerStates
        <3>2. [timers[s] EXCEPT !.st = st]
                = [st |-> st, race |-> timers[s].race, ref |-> timers[s].ref]
            BY <3>1
        <3> QED
            BY <1>2, <3>2 DEF Move
    <2>3. \A u \in Timers : /\ timers'[u].race = timers[u].race
                            /\ timers'[u].ref = timers[u].ref
                            /\ timers'[u].st \in {timers[u].st, st}
        BY <2>2 DEF TypeOK
    <2> QED
        BY <1>2, <1>o, <2>3
<1>3. CASE TimerNext
    <2>1. ASSUME NEW s \in Timers, Fire(s) \/ PostTimeout(s) PROVE Good
        <3>1. timers[s].st # "free" /\ doneCh' = doneCh
              /\ (Move(s, "fired") \/ Move(s, "posted"))
            BY <2>1 DEF Fire, PostTimeout, raceVars
        <3> QED
            BY <1>2, <3>1
    <2>2. ASSUME NEW s \in Timers, Expire(s) PROVE Good
        <3>1. doneCh' = doneCh /\ s \notin doneCh[k]
            BY <1>o, <2>2 DEF Expire, raceVars
        <3>2. \A u \in doneCh[k] : timers'[u] = timers[u]
            BY <1>o, <2>2, <3>1 DEF Expire
        <3> QED
            BY <1>s, <3>1, <3>2
    <2> QED
        BY <1>3, <2>1, <2>2 DEF TimerNext
<1>4. ASSUME NEW ts, timers' = Closed(ts), doneCh'[k] \subseteq doneCh[k] \ ts
      PROVE  Good
    <2>1. \A u \in doneCh'[k] : timers'[u] = timers[u]
        BY <1>o, <1>4, ClosedOthers
    <2> QED
        BY <1>4, <1>s, <2>1
<1>5. CASE HandleAdd
    <2>1. FreshRaces(eventCh.from[1]) /\ timers' = timers
        BY <1>5 DEF HandleAdd
    <2> QED
        BY <1>s, <2>1 DEF FreshRaces
<1>6. CASE HandleDel
    <2> DEFINE fd == eventCh.from[1]
               ts == UNION {doneCh[r] : r \in DeletedRaces(fd)}
    <2>1. FreshRaces(fd) /\ timers' = Closed(ts) /\ fd \in Fds
        BY <1>6, RequestType DEF HandleDel, Taking
    <2>2. ts = doneCh[<<fd, "R">>] /\ <<fd, "R">> \in Races
        BY <2>1 DEF DeletedRaces, Races, Modes
    <2>3. k[1] # fd /\ doneCh'[k] = doneCh[k]
        BY <2>1 DEF FreshRaces
    <2>4. k # <<fd, "R">>
        BY <2>3
    <2>5. doneCh'[k] \subseteq doneCh[k] \ ts
        BY <2>2, <2>3, <2>4, OneOwner
    <2> QED
        BY <1>4, <2>1, <2>5
<1>7. CASE HandleUndefined \/ HandleArm \/ HandleReset \/ HandleUnknown
    <2>1. doneCh' = doneCh /\ timers' = timers
        BY <1>7 DEF HandleUndefined, HandleArm, HandleReset, HandleUnknown, raceVars
    <2> QED
        BY <1>s, <2>1
<1>8. CASE HandleDeadline
    <2> DEFINE r == eventCh.race
               new == [st |-> "armed", race |-> r, ref |-> NextRef(r)]
    <2>1. PICK s \in Timers :
            /\ timers[s].st = "free"
            /\ timers' = [timers EXCEPT ![s] = new]
            /\ doneCh' = [doneCh EXCEPT ![r] = {u \in @ : timers[u].ref # NextRef(r)} \cup {s}]
        BY <1>8 DEF HandleDeadline
    <2>2. r \in Races
        BY <1>8, RequestType DEF HandleDeadline, Taking
    <2>3. s \notin doneCh[k]
        BY <1>o, <2>1
    <2>4. \A u \in doneCh[k] : timers'[u] = timers[u]
        BY <1>o, <2>1, <2>3
    <2>5. CASE k # r
        <3>1. doneCh'[k] = doneCh[k]
            BY <2>1, <2>5 DEF TypeOK
        <3> QED
            BY <1>s, <2>4, <3>1
    <2>6. CASE k = r
        <3>1. doneCh'[k] = {u \in doneCh[k] : timers[u].ref # NextRef(r)} \cup {s}
            BY <2>1, <2>2, <2>6 DEF TypeOK
        <3>2. timers'[s] = new
            BY <2>1 DEF TypeOK
        <3> QED
            BY <1>o, <2>3, <2>4, <2>6, <3>1, <3>2
    <2> QED
        BY <2>5, <2>6
<1>9. CASE HandleCancel
    <2> DEFINE r == eventCh.race
    <2>1. CASE doneCh' = doneCh /\ timers' = timers
        BY <1>s, <2>1
    <2>2. CASE timers' = Closed(doneCh[r]) /\ doneCh' = Forgotten({r})
        <3>1. k # r /\ doneCh'[k] = doneCh[k] /\ r \in Races
            BY <1>9, <2>2, RequestType DEF Forgotten, HandleCancel, Taking
        <3>2. doneCh'[k] \subseteq doneCh[k] \ doneCh[r]
            BY <3>1, OneOwner
        <3> QED
            BY <1>4, <2>2, <3>2
    <2> QED
        BY <1>9, <2>1, <2>2 DEF HandleCancel
<1>10. CASE HandleReady
    <2> DEFINE answered == {r \in Hit(eventCh.pev) : ch[r] # "none"}
               ts == UNION {doneCh[r] : r \in answered}
    <2>1. timers' = Closed(ts) /\ doneCh' = Forgotten(answered)
        BY <1>10 DEF HandleReady
    <2>2. k \notin answered /\ doneCh'[k] = doneCh[k] /\ answered \subseteq Races
        BY <2>1 DEF Forgotten, Hit
    <2>3. doneCh'[k] \subseteq doneCh[k] \ ts
        BY <2>2, OneOwner
    <2> QED
        BY <1>4, <2>1, <2>3
<1>11. CASE HandleTimeout
    <2> DEFINE s == eventCh.timer
               r == timers[s].race
               named == {u \in doneCh[r] : timers[u].ref = timers[s].ref}
    <2>1. s \in Timers /\ timers[s].st = "posted"
        BY <1>11, TimeoutType DEF HandleTimeout, Bookkeeping
    <2>2. r \in Races /\ r[1] \in Fds /\ r[2] \in Modes /\ r = <<r[1], r[2]>>
        BY <2>1 DEF TypeOK, TimerStates, Free, Races
    <2>3. CASE Watched(r[1])
        <3>1. /\ timers' = [Closed(named) EXCEPT ![s] = Free]
              /\ doneCh' = [doneCh EXCEPT ![r] = @ \ named]
            BY <1>11, <2>3 DEF HandleTimeout, Stale
        <3>2. doneCh'[k] \subseteq doneCh[k] \ named
            <4>1. CASE k = r
                BY <2>2, <3>1, <4>1 DEF TypeOK
            <4>2. CASE k # r
                BY <2>2, <3>1, <4>2, OneOwner DEF TypeOK
            <4> QED BY <4>1, <4>2
        <3>3. s \notin doneCh'[k]
            <4>1. s \in doneCh[k] => k = r /\ s \in named
                BY <1>o
            <4> QED
                BY <3>2, <4>1
        <3>4. \A u \in doneCh'[k] : timers'[u] = timers[u]
            <4>1. \A u \in doneCh'[k] : u \in Timers /\ u # s /\ u \notin named
                BY <1>o, <3>2, <3>3
            <4>2. \A u \in doneCh'[k] : timers'[u] = Closed(named)[u]
                BY <3>1, <4>1 DEF Closed
            <4> QED
                BY <4>1, <4>2, ClosedOthers
        <3> QED
            BY <1>s, <3>2, <3>4
    <2>4. CASE ~Watched(r[1])
        <3>1. timers' = [timers EXCEPT ![s] = Free] /\ doneCh' = doneCh
            BY <1>11, <2>4 DEF HandleTimeout
        <3>2. doneCh[r] = {}
            BY <2>2, <2>4 DEF Bookkeeping
        <3>3. s \notin doneCh[k]
            BY <1>o, <3>2
        <3>4. \A u \in doneCh[k] : timers'[u] = timers[u]
            BY <1>o, <3>1, <3>3
        <3> QED
            BY <1>s, <3>1, <3>4
    <2> QED
        BY <2>3, <2>4
<1> QED
    BY <1>1, <1>3, <1>5, <1>6, <1>7, <1>8, <1>9, <1>10, <1>11 DEF Next, LoopNext, Dead

\* The channel of a request has one answer coming at most.
LEMMA AnswersStep ==
    TypeOK /\ Bookkeeping /\ AnsweredOnce /\ [Next]_vars => AnsweredOnce'
<1> SUFFICES ASSUME TypeOK, Bookkeeping, AnsweredOnce, [Next]_vars
             PROVE  AnsweredOnce'
    OBVIOUS
<1> DEFINE Waits(k) == ch'[k] = "live" => pc'[k] = "ARM" /\ ans'[k] = "none"
           Queued(c) ==
               /\ QueuedFrom(c)' => pc'[c] = eventCh'.op /\ ans'[c] = "none"
               /\ eventCh'.type = "req" /\ eventCh'.from = c /\ c \in Races
                    => ch'[c] # "live"
           Idle(c) == pc'[c] = "idle" => ans'[c] = "none"
<1>g. SUFFICES ASSUME NEW c \in Clients
               PROVE  (c \in Races => Waits(c)) /\ Queued(c) /\ Idle(c)
    <2>1. Races \subseteq Clients
        BY DEF Races, Clients, Roles
    <2> QED
        BY <1>g, <2>1 DEF AnsweredOnce
<1> DEFINE Goal == (c \in Races => Waits(c)) /\ Queued(c) /\ Idle(c)
<1>w. c \in Races => (ch[c] = "live" => pc[c] = "ARM" /\ ans[c] = "none")
    BY DEF AnsweredOnce
<1>q. /\ QueuedFrom(c) => pc[c] = eventCh.op /\ ans[c] = "none"
      /\ eventCh.type = "req" /\ eventCh.from = c /\ c \in Races => ch[c] # "live"
    BY DEF AnsweredOnce
<1>i. pc[c] = "idle" => ans[c] = "none"
    BY DEF AnsweredOnce
<1>e. Empty.type # "req"
    BY DEF Empty
<1>t. /\ c[1] \in Fds /\ c[2] \in Roles /\ c = <<c[1], c[2]>>
      /\ c \in Races <=> c[2] \in Modes
    BY DEF Clients, Races, Roles, Modes
<1>1. CASE UNCHANGED vars \/ KernelNext \/ TimerNext \/ HandleUnknown
    <2>1. ch' = ch /\ pc' = pc /\ ans' = ans
        BY <1>1 DEF vars, raceVars, clientVars, KernelNext, DataArrives, SpaceFrees,
                    SockError, EpollWait, PostReady, TimerNext, Fire, Expire, PostTimeout,
                    HandleUnknown
    <2>2. eventCh' = eventCh \/ eventCh'.type # "req"
        BY <1>1 DEF vars, KernelNext, DataArrives, SpaceFrees, SockError, EpollWait,
                    PostReady, TimerNext, Fire, Expire, PostTimeout, HandleUnknown
    <2> QED
        BY <1>w, <1>q, <1>i, <2>1, <2>2 DEF QueuedFrom
<1>2. ASSUME NEW fd \in Fds, NEW m \in Modes, NEW op \in Ops, SubmitData(fd, m, op)
      PROVE  Goal
    <2>1. /\ pc[<<fd, m>>] = "idle" /\ ch' = ch /\ ans' = ans
          /\ pc' = [pc EXCEPT ![<<fd, m>>] = op]
          /\ eventCh' = [type |-> "req", op |-> op, from |-> <<fd, m>>,
                         race |-> <<fd, m>>, live |-> TRUE]
        BY <1>2 DEF SubmitData, Send, raceVars
    <2>2. <<fd, m>> \in Races /\ <<fd, m>> \in Clients
        BY DEF Races, Clients, Roles
    <2>3. ch[<<fd, m>>] # "live" /\ ans[<<fd, m>>] = "none"
        BY <2>1, <2>2 DEF AnsweredOnce
    <2>4. CASE c = <<fd, m>>
        BY <2>1, <2>2, <2>3, <2>4 DEF QueuedFrom, TypeOK, Ops
    <2>5. CASE c # <<fd, m>>
        BY <1>w, <1>i, <2>1, <2>5 DEF QueuedFrom, TypeOK
    <2> QED BY <2>4, <2>5
<1>3. ASSUME NEW fd \in Fds, NEW m \in Modes, NEW op \in CtlOps, SubmitCtl(fd, m, op)
      PROVE  Goal
    <2> DEFINE ctl == <<fd, "ctl">>
    <2>1. /\ pc[ctl] = "idle" /\ ch' = ch
          /\ eventCh' = [type |-> "req", op |-> op, from |-> ctl,
                         race |-> <<fd, m>>, live |-> TRUE]
        BY <1>3 DEF SubmitCtl, Send, raceVars
    <2>2. ctl \in Clients /\ ctl \notin Races /\ op \in Ops \ {"ARM"}
        BY OpsAssumption DEF Clients, Races, Roles, Modes, Ops
    <2>3. ans[ctl] = "none"
        BY <2>1, <2>2 DEF AnsweredOnce
    <2>4. CASE c = ctl
        <3>1. ans'[c] = "none"
            BY <1>3, <2>2, <2>3, <2>4 DEF SubmitCtl, Unanswered, TypeOK
        <3>2. pc'[c] = op
            BY <1>3, <2>2, <2>4 DEF SubmitCtl, Started, TypeOK
        <3> QED
            BY <2>1, <2>2, <2>4, <3>1, <3>2 DEF QueuedFrom, Ops
    <2>5. CASE c # ctl /\ op = "ADD" /\ c[1] = fd /\ c[2] \in Modes
        <3>1. ch[c] = "none"
            <4>1. ~Watched(fd)
                BY <1>3, <2>5 DEF SubmitCtl, Watched
            <4> QED
                BY <1>t, <2>5, <4>1 DEF Bookkeeping
        <3>2. ans'[c] = "none"
            BY <1>3, <2>5 DEF SubmitCtl, Unanswered
        <3> QED
            BY <2>1, <2>5, <3>1, <3>2 DEF QueuedFrom
    <2>6. CASE c # ctl /\ ~(op = "ADD" /\ c[1] = fd /\ c[2] \in Modes)
        <3>1. pc'[c] = pc[c] /\ ans'[c] = ans[c]
            BY <1>3, <2>6 DEF SubmitCtl, Started, Unanswered, TypeOK
        <3> QED
            BY <1>w, <1>i, <2>1, <2>6, <3>1 DEF QueuedFrom
    <2> QED BY <2>4, <2>5, <2>6
<1>4. ASSUME NEW d \in Clients, Collect(d) PROVE Goal
    <2>1. /\ ans[d] # "none" /\ ch' = ch /\ eventCh' = eventCh
          /\ pc' = [pc EXCEPT ![d] = "idle"] /\ ans' = [ans EXCEPT ![d] = "none"]
        BY <1>4 DEF Collect, raceVars
    <2>2. CASE c = d
        BY <1>w, <1>q, <2>1, <2>2 DEF QueuedFrom, TypeOK
    <2>3. CASE c # d
        BY <1>w, <1>q, <1>i, <2>1, <2>3 DEF QueuedFrom, TypeOK
    <2> QED BY <2>2, <2>3
<1>5. ASSUME NEW d \in Clients, GiveUp(d) PROVE Goal
    <2>1. /\ pc' = [pc EXCEPT ![d] = "idle"] /\ ans' = [ans EXCEPT ![d] = "none"]
          /\ ch' = [k \in Races |-> IF k = d /\ ch[k] = "live" THEN "orphan" ELSE ch[k]]
          /\ eventCh' = IF eventCh.type = "req" /\ eventCh.from = d
                        THEN [eventCh EXCEPT !.live = FALSE] ELSE eventCh
        BY <1>5 DEF GiveUp
    <2>2. eventCh.type = "req" =>
            eventCh = [type |-> "req", op |-> eventCh.op, from |-> eventCh.from,
                       race |-> eventCh.race, live |-> eventCh.live]
        BY RequestType DEF Requests
    <2>3. CASE c = d
        <3>1. ~QueuedFrom(c)'
            BY <2>1, <2>2, <2>3 DEF QueuedFrom
        <3>2. c \in Races => ch'[c] # "live"
            BY <2>1, <2>3
        <3> QED
            BY <2>1, <2>3, <3>1, <3>2 DEF TypeOK
    <2>4. CASE c # d
        <3>1. /\ pc'[c] = pc[c] /\ ans'[c] = ans[c]
              /\ c \in Races => ch'[c] = ch[c]
            BY <2>1, <2>4 DEF TypeOK
        <3>2. eventCh'.type = "req" /\ eventCh'.from = c
                => eventCh.type = "req" /\ eventCh.from = c /\ eventCh' = eventCh
            BY <2>1, <2>2, <2>4
        <3> QED
            BY <1>w, <1>q, <1>i, <3>1, <3>2 DEF QueuedFrom
    <2> QED BY <2>3, <2>4
<1>h. ASSUME pc' = pc, eventCh'.type # "req",
             c \in Races => (ch'[c] = "live" => ch[c] = "live"),
             \/ ans'[c] = ans[c]
             \/ pc[c] # "idle" /\ (c \in Races => ch'[c] # "live")
      PROVE  Goal
    BY <1>h, <1>w, <1>i DEF QueuedFrom
<1>r. ASSUME eventCh.type = "req", NEW a
      PROVE  \/ Reply(eventCh, a)[c] = ans[c]
             \/ pc[c] # "idle" /\ (c \in Races => ch[c] # "live")
    <2>1. CASE eventCh.live /\ eventCh.from = c
        <3>1. eventCh.op # "idle"
            BY <1>r, RequestType DEF Ops
        <3> QED
            BY <1>q, <1>r, <2>1, <3>1 DEF QueuedFrom
    <2>2. CASE ~(eventCh.live /\ eventCh.from = c)
        BY <2>2 DEF Reply, TypeOK
    <2> QED BY <2>1, <2>2
<1>v. ASSUME NEW ks, ks \subseteq Races, NEW a, NEW base
      PROVE  \/ ToWaiters(ks, a, base)[c] = base[c]
             \/ c \in ks /\ c \in Races /\ ch[c] = "live" /\ pc[c] # "idle"
    BY <1>v, <1>w DEF ToWaiters
<1>6. CASE HandleAdd
    <2>1. /\ pc' = pc /\ eventCh' = Empty /\ eventCh.type = "req"
          /\ FreshRaces(eventCh.from[1])
          /\ ans' = Reply(eventCh, "nil") \/ ans' = Reply(eventCh, "failed")
        BY <1>6 DEF HandleAdd, Taking
    <2>2. c \in Races => (ch'[c] = "live" => ch[c] = "live")
        BY <2>1 DEF FreshRaces
    <2> QED
        BY <1>e, <1>h, <1>r, <2>1, <2>2
<1>7. CASE HandleDel
    <2> DEFINE fd == eventCh.from[1]
    <2>1. /\ pc' = pc /\ eventCh' = Empty /\ eventCh.type = "req" /\ fd \in Fds
          /\ FreshRaces(fd)
          /\ ans' = ToWaiters({<<fd, "R">>}, "closed", Reply(eventCh, "nil"))
        BY <1>7, RequestType DEF HandleDel, Taking, DeletedRaces
    <2>2. c \in Races => (ch'[c] = "live" => ch[c] = "live")
        BY <2>1 DEF FreshRaces
    <2>3. <<fd, "R">> \in Races /\ ch'[<<fd, "R">>] = "none"
        BY <2>1 DEF FreshRaces, Races, Modes
    <2>4. \/ ans'[c] = Reply(eventCh, "nil")[c]
          \/ c \in {<<fd, "R">>} /\ pc[c] # "idle"
        <3>1. {<<fd, "R">>} \subseteq Races
            BY <2>3
        <3> DEFINE ks == {<<fd, "R">>}
                   base == Reply(eventCh, "nil")
        <3>2. ans'[c] = ToWaiters(ks, "closed", base)[c]
            BY <2>1
        <3> HIDE DEF ks, base
        <3>3. ans'[c] = base[c] \/ (c \in ks /\ pc[c] # "idle")
            BY <1>v, <3>1, <3>2 DEF ks
        <3> QED
            BY <3>3 DEF ks, base
    <2> QED
        BY <1>e, <1>h, <1>r, <2>1, <2>2, <2>3, <2>4
<1>8. CASE HandleUndefined \/ HandleReset \/ HandleDeadline
    <2>1. /\ pc' = pc /\ eventCh' = Empty /\ eventCh.type = "req" /\ ch' = ch
        BY <1>8 DEF HandleUndefined, HandleReset, HandleDeadline, Taking, raceVars
    <2>2. \E a : ans' = Reply(eventCh, a)
        BY <1>8 DEF HandleUndefined, HandleReset, HandleDeadline
    <2> QED
        BY <1>e, <1>h, <1>r, <2>1, <2>2
<1>9. CASE HandleArm
    <2> DEFINE k == eventCh.race
    <2>1. /\ pc' = pc /\ eventCh' = Empty /\ eventCh.type = "req" /\ eventCh.op = "ARM"
        BY <1>9 DEF HandleArm, Taking
    <2>2. CASE ch' = ch /\ ans' = Reply(eventCh, err[k])
        BY <1>e, <1>h, <1>r, <2>1, <2>2
    <2>3. CASE /\ ch' = [ch EXCEPT ![k] = IF eventCh.live THEN "live" ELSE "orphan"]
               /\ ans' = ans
        <3>1. k = eventCh.from
            BY <2>1 DEF Bookkeeping
        <3>2. CASE c = k /\ eventCh.live
            <4>1. QueuedFrom(c)
                BY <2>1, <3>1, <3>2 DEF QueuedFrom
            <4> QED
                BY <1>e, <1>i, <1>q, <2>1, <2>3, <4>1 DEF QueuedFrom
        <3>3. CASE c # k \/ ~eventCh.live
            <4>1. c \in Races => (ch'[c] = "live" => ch[c] = "live")
                BY <2>3, <3>3 DEF TypeOK
            <4> QED
                BY <1>e, <1>h, <2>1, <2>3, <4>1
        <3> QED BY <3>2, <3>3
    <2> QED
        BY <1>9, <2>2, <2>3 DEF HandleArm
<1>10. CASE HandleCancel
    <2> DEFINE k == eventCh.race
    <2>1. /\ pc' = pc /\ eventCh' = Empty /\ eventCh.type = "req" /\ k \in Races
        BY <1>10, RequestType DEF HandleCancel, Taking
    <2>2. CASE ch' = ch /\ ans' = Reply(eventCh, err[k])
        BY <1>e, <1>h, <1>r, <2>1, <2>2
    <2>3. CASE ch' = Released({k}) /\ ans' = ToWaiters({k}, "nil", Reply(eventCh, "nil"))
        <3>1. c \in Races => (ch'[c] = "live" => ch[c] = "live")
            BY <2>3 DEF Released
        <3>2. c \in {k} => ch'[c] # "live"
            BY <2>1, <2>3 DEF Released
        <3>3. \/ ans'[c] = Reply(eventCh, "nil")[c]
              \/ c \in {k} /\ pc[c] # "idle"
            BY <1>v, <2>1, <2>3
        <3> QED
            BY <1>e, <1>h, <1>r, <2>1, <3>1, <3>2, <3>3
    <2> QED
        BY <1>10, <2>2, <2>3 DEF HandleCancel
<1>11. CASE HandleReady
    <2> DEFINE answered == {k \in Hit(eventCh.pev) : ch[k] # "none"}
    <2>1. /\ pc' = pc /\ eventCh' = Empty /\ answered \subseteq Races
          /\ ch' = Released(answered) /\ ans' = ToWaiters(answered, "nil", ans)
        BY <1>11 DEF HandleReady, Hit
    <2> HIDE DEF answered
    <2>2. c \in Races => (ch'[c] = "live" => ch[c] = "live" /\ c \notin answered)
        BY <2>1 DEF Released
    <2>3. ans'[c] = ans[c] \/ (c \in answered /\ pc[c] # "idle")
        BY <1>v, <2>1
    <2> QED
        BY <1>e, <1>h, <2>1, <2>2, <2>3
<1>12. CASE HandleTimeout
    <2> DEFINE k == timers[eventCh.timer].race
    <2>1. /\ pc' = pc /\ eventCh' = Empty
        BY <1>12 DEF HandleTimeout
    <2>2. CASE ch' = ch /\ ans' = ans
        BY <1>e, <1>h, <2>1, <2>2
    <2>3. CASE ch' = Released({k}) /\ ans' = ToWaiters({k}, "deadline", ans)
        <3>1. timers[eventCh.timer].st = "posted" /\ eventCh.timer \in Timers
            BY <1>12, TimeoutType DEF HandleTimeout, Bookkeeping
        <3>2. k \in Races
            BY <3>1 DEF TypeOK, TimerStates, Free
        <3>3. c \in Races => (ch'[c] = "live" => ch[c] = "live" /\ c # k)
            BY <2>3 DEF Released
        <3>4. ans'[c] = ans[c] \/ (c \in {k} /\ pc[c] # "idle")
            BY <1>v, <2>3, <3>2
        <3> QED
            BY <1>e, <1>h, <2>1, <3>3, <3>4
    <2> QED
        BY <1>12, <2>2, <2>3 DEF HandleTimeout
<1> QED
    BY <1>1, <1>2, <1>3, <1>4, <1>5, <1>6, <1>7, <1>8, <1>9, <1>10, <1>11, <1>12
       DEF Next, ClientNext, LoopNext, Dead

\* Nobody waits on a channel that has been forgotten.
LEMMA ForgottenStep ==
    TypeOK /\ Bookkeeping /\ AnsweredOnce /\ NobodyForgotten /\ [Next]_vars
        => NobodyForgotten'
<1> SUFFICES ASSUME TypeOK, Bookkeeping, AnsweredOnce, NobodyForgotten, [Next]_vars,
                    NEW c \in Clients, pc'[c] # "idle", ans'[c] = "none"
             PROVE  \/ QueuedFrom(c)'
                    \/ c \in Races /\ ch'[c] = "live"
                    \/ c[2] = "W" /\ sock'[c[1]] = "closed"
    BY DEF NobodyForgotten
<1> DEFINE Known == \/ QueuedFrom(c)'
                    \/ c \in Races /\ ch'[c] = "live"
                    \/ c[2] = "W" /\ sock'[c[1]] = "closed"
<1>n. pc[c] # "idle" /\ ans[c] = "none" =>
        \/ QueuedFrom(c)
        \/ c \in Races /\ ch[c] = "live"
        \/ c[2] = "W" /\ sock[c[1]] = "closed"
    BY DEF NobodyForgotten
<1>t. /\ c[1] \in Fds /\ c[2] \in Roles /\ c = <<c[1], c[2]>>
      /\ c \in Races <=> c[2] \in Modes
    BY DEF Clients, Races, Roles, Modes
<1>e. Empty.type # "req"
    BY DEF Empty
<1>1. CASE UNCHANGED vars \/ KernelNext \/ TimerNext \/ HandleUnknown
    <2>1. ch' = ch /\ pc' = pc /\ ans' = ans /\ sock' = sock
        BY <1>1 DEF vars, raceVars, kernelVars, clientVars, KernelNext, DataArrives,
                    SpaceFrees, SockError, EpollWait, PostReady, TimerNext, Fire, Expire,
                    PostTimeout, HandleUnknown
    <2>2. eventCh.type = "req" => eventCh' = eventCh
        BY <1>1, <1>e DEF vars, KernelNext, DataArrives, SpaceFrees, SockError, EpollWait,
                    PostReady, TimerNext, Fire, Expire, PostTimeout, HandleUnknown
    <2> QED
        BY <1>n, <2>1, <2>2 DEF QueuedFrom
<1>2. ASSUME NEW fd \in Fds, NEW m \in Modes, NEW op \in Ops, SubmitData(fd, m, op)
      PROVE  Known
    <2>1. /\ ch' = ch /\ ans' = ans /\ sock' = sock /\ eventCh = Empty
          /\ pc' = [pc EXCEPT ![<<fd, m>>] = op]
          /\ eventCh' = [type |-> "req", op |-> op, from |-> <<fd, m>>,
                         race |-> <<fd, m>>, live |-> TRUE]
        BY <1>2 DEF SubmitData, Send, raceVars, kernelVars
    <2>2. CASE c = <<fd, m>>
        BY <2>1, <2>2 DEF QueuedFrom
    <2>3. CASE c # <<fd, m>>
        BY <1>n, <1>e, <2>1, <2>3 DEF QueuedFrom, TypeOK
    <2> QED BY <2>2, <2>3
<1>3. ASSUME NEW fd \in Fds, NEW m \in Modes, NEW op \in CtlOps, SubmitCtl(fd, m, op)
      PROVE  Known
    <2> DEFINE ctl == <<fd, "ctl">>
    <2>1. /\ ch' = ch /\ sock' = sock /\ eventCh = Empty
          /\ eventCh' = [type |-> "req", op |-> op, from |-> ctl,
                         race |-> <<fd, m>>, live |-> TRUE]
        BY <1>3 DEF SubmitCtl, Send, raceVars, kernelVars
    <2>2. CASE c = ctl
        BY <2>1, <2>2 DEF QueuedFrom
    <2>3. CASE c # ctl
        <3>1. pc'[c] = pc[c] /\ ans'[c] = ans[c]
            BY <1>3, <2>3 DEF SubmitCtl, Started, Unanswered, TypeOK
        <3> QED
            BY <1>n, <1>e, <2>1, <3>1 DEF QueuedFrom
    <2> QED BY <2>2, <2>3
<1>4. ASSUME NEW d \in Clients, Collect(d) PROVE Known
    <2>1. /\ ch' = ch /\ eventCh' = eventCh /\ sock' = sock
          /\ pc' = [pc EXCEPT ![d] = "idle"] /\ ans' = [ans EXCEPT ![d] = "none"]
        BY <1>4 DEF Collect, raceVars
    <2>2. c # d
        BY <2>1 DEF TypeOK
    <2> QED
        BY <1>n, <2>1, <2>2 DEF QueuedFrom, TypeOK
<1>5. ASSUME NEW d \in Clients, GiveUp(d) PROVE Known
    <2>1. /\ pc' = [pc EXCEPT ![d] = "idle"] /\ ans' = [ans EXCEPT ![d] = "none"]
          /\ ch' = [k \in Races |-> IF k = d /\ ch[k] = "live" THEN "orphan" ELSE ch[k]]
          /\ eventCh' = IF eventCh.type = "req" /\ eventCh.from = d
                        THEN [eventCh EXCEPT !.live = FALSE] ELSE eventCh
          /\ sock' = sock
        BY <1>5 DEF GiveUp, kernelVars
    <2>2. c # d
        BY <2>1 DEF TypeOK
    <2> QED
        BY <1>n, <2>1, <2>2 DEF QueuedFrom, TypeOK
<1>h. ASSUME pc' = pc, sock' = sock, ans'[c] = "none" => ans[c] = "none",
             QueuedFrom(c) => ans'[c] # "none" \/ (c \in Races /\ ch'[c] = "live"),
             c \in Races /\ ch[c] = "live" => ch'[c] = "live" \/ ans'[c] # "none"
      PROVE  Known
    BY <1>h, <1>n
<1>r. ASSUME NEW a \in Answers
      PROVE  /\ QueuedFrom(c) => Reply(eventCh, a)[c] # "none"
             /\ Reply(eventCh, a)[c] = "none" => ans[c] = "none"
    <2>1. "none" \notin Answers
        BY DEF Answers
    <2> QED
        BY <2>1 DEF Reply, QueuedFrom, TypeOK
<1>v. ASSUME NEW ks, NEW a \in Answers, NEW base
      PROVE  /\ c \in ks /\ ch[c] = "live" => ToWaiters(ks, a, base)[c] # "none"
             /\ ToWaiters(ks, a, base)[c] = "none" => base[c] = "none"
    BY DEF ToWaiters, Answers
<1>a. "nil" \in Answers /\ "closed" \in Answers /\ "deadline" \in Answers
      /\ "failed" \in Answers /\ "undefined" \in Answers
    BY DEF Answers
<1>6. CASE HandleAdd
    <2> DEFINE fd == eventCh.from[1]
    <2>1. /\ pc' = pc /\ eventCh.type = "req" /\ eventCh.op = "ADD" /\ FreshRaces(fd)
          /\ ans' = Reply(eventCh, "nil") \/ ans' = Reply(eventCh, "failed")
          /\ \A g \in Fds : g # fd => sock'[g] = sock[g]
        BY <1>6 DEF HandleAdd, Taking, TypeOK
    <2>2. /\ eventCh.from[2] = "ctl" /\ eventCh.live
          /\ \A m \in Modes : pc[<<fd, m>>] = "idle"
        BY <2>1 DEF Bookkeeping
    <2>3. eventCh.from = <<fd, "ctl">>
        BY <2>1, <2>2, RequestType DEF Clients
    <2>4. ~QueuedFrom(c) /\ ans[c] = "none"
        BY <1>a, <1>r, <2>1
    <2>5. c[1] # fd
        <3>1. c # <<fd, "ctl">>
            BY <2>1, <2>2, <2>3, <2>4 DEF QueuedFrom
        <3> QED
            BY <1>t, <2>1, <2>2, <3>1 DEF Roles, Modes
    <2> QED
        BY <1>n, <1>t, <2>1, <2>4, <2>5 DEF FreshRaces
<1>7. CASE HandleDel
    <2> DEFINE fd == eventCh.from[1]
               base == Reply(eventCh, "nil")
    <2>1. /\ pc' = pc /\ eventCh.type = "req" /\ eventCh.op = "DEL" /\ FreshRaces(fd)
          /\ ans' = ToWaiters({<<fd, "R">>}, "closed", base)
          /\ sock' = [sock EXCEPT ![fd] = "closed"]
        BY <1>7 DEF HandleDel, Taking, DeletedRaces
    <2>2. fd \in Fds
        BY <2>1, RequestType
    <2>3. ~QueuedFrom(c) /\ ans[c] = "none"
        BY <1>a, <1>r, <1>v, <2>1
    <2>4. CASE c[1] # fd
        BY <1>n, <1>t, <2>1, <2>3, <2>4 DEF FreshRaces, TypeOK
    <2>5. CASE c[1] = fd /\ c[2] = "W"
        BY <2>1, <2>2, <2>5 DEF TypeOK
    <2>6. CASE c = <<fd, "R">>
        <3>1. ch[c] # "live"
            BY <1>a, <1>v, <2>1, <2>6
        <3> QED
            BY <1>n, <2>1, <2>3, <2>6, <3>1
    <2>7. CASE c = <<fd, "ctl">>
        BY <1>n, <1>t, <2>1, <2>3, <2>7 DEF Modes
    <2> QED
        BY <1>t, <2>4, <2>5, <2>6, <2>7 DEF Roles, Modes
<1>8. CASE HandleUndefined \/ HandleReset \/ HandleDeadline
    <2>1. pc' = pc /\ ch' = ch /\ sock' = sock /\ eventCh.type = "req"
        BY <1>8 DEF HandleUndefined, HandleReset, HandleDeadline, Taking, raceVars, kernelVars
    <2>2. eventCh.race \in Races
        BY <2>1, RequestType
    <2>3. \E a \in Answers : ans' = Reply(eventCh, a)
        BY <1>8, <1>a, <2>2 DEF HandleUndefined, HandleReset, HandleDeadline, TypeOK
    <2> QED
        BY <1>h, <1>r, <2>1, <2>3
<1>9. CASE HandleArm
    <2> DEFINE k == eventCh.race
    <2>1. pc' = pc /\ sock' = sock /\ eventCh.type = "req" /\ eventCh.op = "ARM"
        BY <1>9 DEF HandleArm, Taking
    <2>2. k \in Races /\ err[k] \in Answers
        BY <1>a, <2>1, RequestType DEF TypeOK
    <2>3. CASE ch' = ch /\ ans' = Reply(eventCh, err[k])
        BY <1>h, <1>r, <2>1, <2>2, <2>3
    <2>4. CASE /\ ch' = [ch EXCEPT ![k] = IF eventCh.live THEN "live" ELSE "orphan"]
               /\ ans' = ans
        <3>1. k = eventCh.from
            BY <2>1 DEF Bookkeeping
        <3>2. QueuedFrom(c) => c \in Races /\ ch'[c] = "live"
            BY <2>2, <2>4, <3>1 DEF QueuedFrom, TypeOK
        <3>3. CASE c # k
            BY <1>h, <2>1, <2>4, <3>2, <3>3 DEF TypeOK
        <3>4. CASE c = k /\ eventCh.live
            BY <2>1, <3>1, <3>2, <3>4 DEF QueuedFrom
        <3>5. CASE c = k /\ ~eventCh.live
            <4>1. ch[c] # "live"
                BY <2>1, <2>2, <3>1, <3>5 DEF AnsweredOnce
            <4> QED
                BY <1>h, <2>1, <2>4, <3>2, <3>5, <4>1
        <3> QED BY <3>3, <3>4, <3>5
    <2> QED
        BY <1>9, <2>3, <2>4 DEF HandleArm
<1>10. CASE HandleCancel
    <2> DEFINE k == eventCh.race
    <2>1. /\ pc' = pc /\ sock' = sock /\ eventCh.type = "req" /\ k \in Races
          /\ err[k] \in Answers
        BY <1>10, <1>a, RequestType DEF HandleCancel, Taking, kernelVars, TypeOK
    <2>2. CASE ch' = ch /\ ans' = Reply(eventCh, err[k])
        BY <1>h, <1>r, <2>1, <2>2
    <2>3. CASE ch' = Released({k}) /\ ans' = ToWaiters({k}, "nil", Reply(eventCh, "nil"))
        <3>1. c \in Races /\ c # k => ch'[c] = ch[c]
            BY <2>3 DEF Released
        <3> DEFINE base == Reply(eventCh, "nil")
        <3>2. /\ QueuedFrom(c) => base[c] # "none"
              /\ base[c] = "none" => ans[c] = "none"
            BY <1>a, <1>r
        <3>3. ans' = ToWaiters({k}, "nil", base)
            BY <2>3
        <3> HIDE DEF base
        <3>4. /\ c = k /\ ch[c] = "live" => ans'[c] # "none"
              /\ ans'[c] = "none" => base[c] = "none"
            BY <1>a, <1>v, <3>3
        <3> QED
            BY <1>h, <2>1, <3>1, <3>2, <3>4
    <2> QED
        BY <1>10, <2>2, <2>3 DEF HandleCancel
<1>11. CASE HandleReady
    <2> DEFINE answered == {k \in Hit(eventCh.pev) : ch[k] # "none"}
    <2>1. /\ pc' = pc /\ sock' = sock /\ ~QueuedFrom(c)
          /\ ch' = Released(answered) /\ ans' = ToWaiters(answered, "nil", ans)
        BY <1>11 DEF HandleReady, QueuedFrom, kernelVars
    <2> HIDE DEF answered
    <2>2. c \in Races /\ c \notin answered => ch'[c] = ch[c]
        BY <2>1 DEF Released
    <2>3. /\ c \in answered /\ ch[c] = "live" => ans'[c] # "none"
          /\ ans'[c] = "none" => ans[c] = "none"
        BY <1>a, <1>v, <2>1
    <2> QED
        BY <1>h, <2>1, <2>2, <2>3
<1>12. CASE HandleTimeout
    <2> DEFINE k == timers[eventCh.timer].race
    <2>1. pc' = pc /\ sock' = sock /\ ~QueuedFrom(c)
        BY <1>12 DEF HandleTimeout, QueuedFrom, kernelVars
    <2>2. CASE ch' = ch /\ ans' = ans
        BY <1>h, <2>1, <2>2
    <2>3. CASE ch' = Released({k}) /\ ans' = ToWaiters({k}, "deadline", ans)
        <3>1. c \in Races /\ c # k => ch'[c] = ch[c]
            BY <2>3 DEF Released
        <3>2. /\ c \in {k} /\ ch[c] = "live" => ans'[c] # "none"
              /\ ans'[c] = "none" => ans[c] = "none"
            BY <1>a, <1>v, <2>3
        <3> QED
            BY <1>h, <2>1, <3>1, <3>2
    <2> QED
        BY <1>12, <2>2, <2>3 DEF HandleTimeout
<1> QED
    BY <1>1, <1>2, <1>3, <1>4, <1>5, <1>6, <1>7, <1>8, <1>9, <1>10, <1>11, <1>12
       DEF Next, ClientNext, LoopNext, Dead

\* A descriptor that is not in p.race keeps nothing.
LEMMA UnwatchedStep ==
    ASSUME TypeOK, Bookkeeping, [Next]_vars, NEW k \in Races, ~Watched(k[1])'
    PROVE  ch'[k] = "none" /\ err'[k] = "nil" /\ doneCh'[k] = {}
<1> DEFINE Good == ch'[k] = "none" /\ err'[k] = "nil" /\ doneCh'[k] = {}
           fd == k[1]
<1>k. fd \in Fds /\ k[2] \in Modes /\ k = <<fd, k[2]>>
    BY DEF Races
<1>o. ~Watched(fd) => ch[k] = "none" /\ err[k] = "nil" /\ doneCh[k] = {}
    BY <1>k DEF Bookkeeping
<1>h. ASSUME sock' = sock, \/ Watched(fd)
                           \/ ch'[k] \in {ch[k], "none"} /\ err'[k] \in {err[k], "nil"}
                              /\ doneCh'[k] \subseteq doneCh[k]
      PROVE  Good
    BY <1>h, <1>o DEF Watched
<1>f. ASSUME NEW g, FreshRaces(g), \A d \in Fds : d # g => sock'[d] = sock[d]
      PROVE  Good
    <2>1. CASE fd = g
        BY <1>f, <2>1 DEF FreshRaces
    <2>2. CASE fd # g
        BY <1>f, <1>k, <1>o, <2>2 DEF FreshRaces, Watched
    <2> QED BY <2>1, <2>2
<1>1. CASE UNCHANGED vars \/ ClientNext \/ KernelNext \/ TimerNext \/ HandleUndefined
           \/ HandleReset \/ HandleUnknown
    <2>1. err' = err /\ doneCh' = doneCh /\ sock' = sock
        BY <1>1 DEF vars, raceVars, kernelVars, ClientNext, SubmitData, SubmitCtl, Collect,
                    GiveUp, KernelNext, DataArrives, SpaceFrees, SockError, EpollWait,
                    PostReady, TimerNext, Fire, Expire, PostTimeout, HandleUndefined,
                    HandleReset, HandleUnknown
    <2>2. CASE ch' = ch
        BY <1>h, <2>1, <2>2
    <2>3. CASE \E c \in Clients : GiveUp(c)
        <3>1. ch'[k] = ch[k] \/ ch[k] = "live"
            BY <2>3 DEF GiveUp
        <3> QED
            BY <1>h, <1>o, <2>1, <3>1
    <2> QED
        BY <1>1, <2>2, <2>3
           DEF vars, raceVars, kernelVars, ClientNext, SubmitData, SubmitCtl, Collect,
               KernelNext, DataArrives, SpaceFrees, SockError, EpollWait, PostReady,
               TimerNext, Fire, Expire, PostTimeout, HandleUndefined, HandleReset,
               HandleUnknown
<1>2. CASE HandleAdd \/ HandleDel
    <2>1. FreshRaces(eventCh.from[1]) /\ \A d \in Fds : d # eventCh.from[1] => sock'[d] = sock[d]
        BY <1>2 DEF HandleAdd, HandleDel, TypeOK
    <2> QED
        BY <1>f, <2>1
<1>3. CASE HandleArm \/ HandleDeadline \/ HandleCancel
    <2> DEFINE r == eventCh.race
    <2>1. sock' = sock /\ Watched(r[1]) /\ r \in Races
        BY <1>3, RequestType
           DEF HandleArm, HandleDeadline, HandleCancel, Taking, kernelVars
    <2>2. CASE k = r
        BY <1>h, <2>1, <2>2
    <2>3. CASE k # r
        <3>1. ch'[k] = ch[k]
            BY <1>3, <2>1, <2>3 DEF HandleArm, HandleDeadline, HandleCancel, Released, TypeOK
        <3>2. err'[k] = err[k]
            BY <1>3, <2>1, <2>3 DEF HandleArm, HandleDeadline, HandleCancel, TypeOK
        <3>3. doneCh'[k] = doneCh[k]
            BY <1>3, <2>1, <2>3 DEF HandleArm, HandleDeadline, HandleCancel, Forgotten, TypeOK
        <3> QED
            BY <1>h, <2>1, <3>1, <3>2, <3>3
    <2> QED BY <2>2, <2>3
<1>4. CASE HandleReady
    <2> DEFINE answered == {q \in Hit(eventCh.pev) : ch[q] # "none"}
    <2>1. /\ sock' = sock /\ ch' = Released(answered) /\ doneCh' = Forgotten(answered)
          /\ err' = [q \in Races |-> IF q \in answered THEN "nil" ELSE err[q]]
        BY <1>4 DEF HandleReady
    <2> HIDE DEF answered
    <2>2. ch'[k] \in {ch[k], "none"} /\ err'[k] \in {err[k], "nil"}
          /\ doneCh'[k] \subseteq doneCh[k]
        BY <2>1 DEF Released, Forgotten
    <2> QED
        BY <1>h, <2>1, <2>2
<1>5. CASE HandleTimeout
    <2> DEFINE r == timers[eventCh.timer].race
    <2>1. sock' = sock
        BY <1>5 DEF HandleTimeout, kernelVars
    <2>2. CASE ch' = ch /\ err' = err /\ doneCh' = doneCh
        BY <1>h, <2>1, <2>2
    <2>3. CASE /\ Watched(r[1]) /\ ch' = Released({r})
               /\ \E named : doneCh' = [doneCh EXCEPT ![r] = @ \ named]
               /\ \E e : err' = [err EXCEPT ![r] = e]
        <3>1. CASE k = r
            BY <1>h, <2>1, <2>3, <3>1
        <3>2. CASE k # r
            <4>1. ch'[k] = ch[k] /\ doneCh'[k] = doneCh[k] /\ err'[k] = err[k]
                BY <2>3, <3>2 DEF Released, TypeOK
            <4> QED
                BY <1>h, <2>1, <4>1
        <3> QED BY <3>1, <3>2
    <2> QED
        BY <1>5, <2>2, <2>3 DEF HandleTimeout
<1> QED
    BY <1>1, <1>2, <1>3, <1>4, <1>5 DEF Next, LoopNext, Dead

\* The goroutine whose timeout is in the queue has nothing more to do.
LEMMA PostedStep ==
    ASSUME TypeOK, Bookkeeping, [Next]_vars, eventCh'.type = "timeout"
    PROVE  timers'[eventCh'.timer].st = "posted"
<1>1. CASE eventCh' = eventCh /\ timers' = timers
    BY <1>1 DEF Bookkeeping
<1>2. ASSUME NEW t \in Timers, Fire(t) \/ Expire(t)
      PROVE  timers'[eventCh'.timer].st = "posted"
    <2>1. eventCh' = eventCh /\ timers[t].st # "posted"
        BY <1>2 DEF Fire, Expire
    <2>2. eventCh.timer # t
        BY <2>1 DEF Bookkeeping
    <2>3. timers'[eventCh.timer] = timers[eventCh.timer]
        BY <1>2, <2>1, <2>2, TimeoutType DEF Fire, Expire, Move, TypeOK
    <2> QED
        BY <2>1, <2>3 DEF Bookkeeping
<1>3. ASSUME NEW t \in Timers, PostTimeout(t)
      PROVE  timers'[eventCh'.timer].st = "posted"
    <2>1. eventCh'.timer = t /\ timers[t].st = "fired"
        BY <1>3 DEF PostTimeout
    <2>2. timers[t] \in [st: {"armed", "closed", "fired", "posted"}, race: Races,
                         ref: 0 .. MaxRef - 1]
        BY <2>1 DEF TypeOK, TimerStates, Free
    <2> QED
        BY <1>3, <2>1, <2>2 DEF PostTimeout, Move, TypeOK
<1>4. CASE ClientNext \/ KernelNext
    <2>1. timers' = timers
        BY <1>4 DEF ClientNext, SubmitData, SubmitCtl, Collect, GiveUp, KernelNext,
                    DataArrives, SpaceFrees, SockError, EpollWait, PostReady
    <2>2. CASE eventCh.type = "req" /\ eventCh' = [eventCh EXCEPT !.live = FALSE]
        <3>1. eventCh = [type |-> "req", op |-> eventCh.op, from |-> eventCh.from,
                         race |-> eventCh.race, live |-> eventCh.live]
            BY <2>2, RequestType DEF Requests
        <3>2. eventCh'.type = "req"
            BY <2>2, <3>1
        <3> QED BY <3>2
    <2>3. CASE eventCh' = eventCh \/ eventCh'.type # "timeout"
        BY <1>1, <2>1, <2>3
    <2>4. \/ eventCh.type = "req" /\ eventCh' = [eventCh EXCEPT !.live = FALSE]
          \/ eventCh' = eventCh \/ eventCh'.type # "timeout"
        <3>1. CASE \E c \in Clients : GiveUp(c)
            <4>1. PICK c \in Clients : GiveUp(c)
                BY <3>1
            <4>2. CASE eventCh.type = "req" /\ eventCh.from = c
                <5>1. eventCh' = [eventCh EXCEPT !.live = FALSE]
                    BY <4>1, <4>2 DEF GiveUp
                <5> QED BY <4>2, <5>1
            <4>3. CASE ~(eventCh.type = "req" /\ eventCh.from = c)
                BY <4>1, <4>3 DEF GiveUp
            <4> QED BY <4>2, <4>3
        <3>2. CASE ClientNext /\ ~\E c \in Clients : GiveUp(c)
            <4>1. eventCh' = eventCh \/ (eventCh'.type = "req")
                <5>1. \A op, c, k : Send(op, c, k) => eventCh'.type = "req"
                    BY DEF Send
                <5>2. CASE \E c \in Clients : Collect(c)
                    BY <5>2 DEF Collect
                <5> QED
                    BY <3>2, <5>1, <5>2 DEF ClientNext, SubmitData, SubmitCtl
            <4>2. eventCh' = eventCh \/ eventCh'.type # "timeout"
                BY <4>1
            <4> QED BY <4>2
        <3>3. CASE KernelNext
            BY <3>3 DEF KernelNext, DataArrives, SpaceFrees, SockError, EpollWait, PostReady
        <3> QED BY <1>4, <3>1, <3>2, <3>3
    <2> QED BY <2>2, <2>3, <2>4
<1>5. CASE LoopNext
    <2>1. eventCh' = Empty \/ (eventCh' = eventCh /\ timers' = timers)
        BY <1>5 DEF LoopNext, HandleAdd, HandleDel, HandleUndefined, HandleArm, HandleReset,
                    HandleDeadline, HandleCancel, HandleReady, HandleUnknown, HandleTimeout,
                    Taking
    <2> QED
        BY <1>1, <2>1 DEF Empty
<1> QED
    BY <1>1, <1>2, <1>3, <1>4, <1>5 DEF Next, TimerNext, Dead, vars

\* The request in the queue stays what it was when it was sent.
LEMMA RequestStep ==
    ASSUME TypeOK, Bookkeeping, AnsweredOnce, [Next]_vars, eventCh'.type = "req",
           NEW fd \in Fds, fd = eventCh'.from[1]
    PROVE  /\ eventCh'.op = "ARM" => eventCh'.race = eventCh'.from
           /\ eventCh'.op = "ADD" =>
                /\ eventCh'.from[2] = "ctl" /\ eventCh'.live /\ ~Watched(fd)'
                /\ \A m \in Modes : pc'[<<fd, m>>] = "idle"
           /\ eventCh'.op = "DEL" => eventCh'.from[2] = "ctl" /\ Watched(fd)'
<1> DEFINE Good == /\ eventCh'.op = "ARM" => eventCh'.race = eventCh'.from
                   /\ eventCh'.op = "ADD" =>
                        /\ eventCh'.from[2] = "ctl" /\ eventCh'.live /\ ~Watched(fd)'
                        /\ \A m \in Modes : pc'[<<fd, m>>] = "idle"
                   /\ eventCh'.op = "DEL" => eventCh'.from[2] = "ctl" /\ Watched(fd)'
<1>k. \A m \in Modes, g \in Fds : <<g, m>> \in Clients
    BY DEF Clients, Roles
<1>1. CASE eventCh' = eventCh /\ sock' = sock
           /\ \A c \in Clients : pc'[c] \in {pc[c], "idle"}
    BY <1>1, <1>k DEF Bookkeeping, Watched
<1>2. ASSUME NEW f \in Fds, NEW m \in Modes, NEW op \in Ops, SubmitData(f, m, op)
      PROVE  Good
    <2>1. op \notin {"ADD", "DEL"}
        BY <1>2, OpsAssumption DEF SubmitData
    <2>2. eventCh' = [type |-> "req", op |-> op, from |-> <<f, m>>, race |-> <<f, m>>,
                      live |-> TRUE]
        BY <1>2 DEF SubmitData, Send
    <2> QED BY <2>1, <2>2
<1>3. ASSUME NEW f \in Fds, NEW m \in Modes, NEW op \in CtlOps, SubmitCtl(f, m, op)
      PROVE  Good
    <2>1. eventCh' = [type |-> "req", op |-> op, from |-> <<f, "ctl">>, race |-> <<f, m>>,
                      live |-> TRUE]
        BY <1>3 DEF SubmitCtl, Send
    <2>2. op # "ARM" /\ sock' = sock
        BY <1>3, OpsAssumption DEF SubmitCtl, kernelVars
    <2>3. CASE op = "ADD"
        <3>1. ~Watched(f)'
            BY <1>3, <2>2, <2>3 DEF SubmitCtl, Watched
        <3>2. ASSUME NEW n \in Modes PROVE pc'[<<f, n>>] = "idle"
            <4>1. <<f, n>> \in Clients /\ <<f, n>> # <<f, "ctl">>
                BY <1>k DEF Modes
            <4>2. pc' = [Started(f) EXCEPT ![<<f, "ctl">>] = op]
                BY <1>3, <2>3 DEF SubmitCtl
            <4> QED
                BY <4>1, <4>2 DEF Started
        <3> QED
            BY <2>1, <2>3, <3>1, <3>2
    <2>4. CASE op = "DEL"
        <3>1. Watched(f)'
            BY <1>3, <2>2, <2>4 DEF SubmitCtl, Watched
        <3> QED
            BY <2>1, <2>4, <3>1
    <2>5. CASE op \notin {"ADD", "DEL"}
        BY <2>1, <2>2, <2>5
    <2> QED BY <2>3, <2>4, <2>5
<1>4. ASSUME NEW d \in Clients, GiveUp(d), eventCh.type = "req", eventCh.from = d
      PROVE  Good
    <2>1. eventCh = [type |-> "req", op |-> eventCh.op, from |-> eventCh.from,
                     race |-> eventCh.race, live |-> eventCh.live]
        BY <1>4, RequestType DEF Requests
    <2>2. /\ eventCh' = [eventCh EXCEPT !.live = FALSE] /\ sock' = sock
          /\ pc[d] \in {"ARM", "DEL"}
        BY <1>4 DEF GiveUp, kernelVars
    <2>3. /\ eventCh'.op = eventCh.op /\ eventCh'.from = eventCh.from
          /\ eventCh'.race = eventCh.race
        BY <2>1, <2>2
    <2>4. eventCh.op # "ADD"
        BY <1>4, <2>2 DEF Bookkeeping, AnsweredOnce, QueuedFrom
    <2> QED
        BY <1>4, <2>2, <2>3, <2>4 DEF Bookkeeping, Watched
<1>5. ASSUME NEW d \in Clients, Collect(d) \/ GiveUp(d)
      PROVE  Good
    <2>1. sock' = sock /\ pc' = [pc EXCEPT ![d] = "idle"]
        BY <1>5 DEF Collect, GiveUp, kernelVars
    <2>2. \A c \in Clients : pc'[c] \in {pc[c], "idle"}
        BY <2>1 DEF TypeOK
    <2>3. CASE eventCh' = eventCh
        BY <1>1, <2>1, <2>2, <2>3
    <2> QED
        BY <1>4, <1>5, <2>3 DEF Collect, GiveUp
<1>6. CASE KernelNext \/ TimerNext \/ HandleUnknown \/ UNCHANGED vars
    <2>1. sock' = sock /\ pc' = pc
        BY <1>6 DEF KernelNext, DataArrives, SpaceFrees, SockError, EpollWait, PostReady,
                    TimerNext, Fire, Expire, PostTimeout, HandleUnknown, vars, kernelVars,
                    clientVars
    <2>2. eventCh' = eventCh
        BY <1>6 DEF KernelNext, DataArrives, SpaceFrees, SockError, EpollWait, PostReady,
                    TimerNext, Fire, Expire, PostTimeout, HandleUnknown, vars
    <2> QED
        BY <1>1, <2>1, <2>2
<1>7. CASE LoopNext /\ ~HandleUnknown
    <2>1. eventCh' = Empty
        BY <1>7 DEF LoopNext, HandleAdd, HandleDel, HandleUndefined, HandleArm, HandleReset,
                    HandleDeadline, HandleCancel, HandleReady, HandleTimeout, Taking
    <2> QED
        BY <2>1 DEF Empty
<1> QED
    BY <1>2, <1>3, <1>5, <1>6, <1>7 DEF Next, ClientNext, Dead

-----------------------------------------------------------------------------
(* The inductive invariant and what follows from it.                       *)

IInv == TypeOK /\ Bookkeeping /\ AnsweredOnce /\ NobodyForgotten /\ DeadlinesOwned

\* Queue and map stay in agreement: the three facts above, for every step.
LEMMA BookkeepingStep == IInv /\ [Next]_vars => Bookkeeping'
<1> SUFFICES ASSUME IInv, [Next]_vars PROVE Bookkeeping'
    OBVIOUS
<1>1. TypeOK /\ Bookkeeping /\ AnsweredOnce
    BY DEF IInv
<1>2. \A fd \in Fds, m \in Modes : ~Watched(fd)' =>
            ch'[<<fd, m>>] = "none" /\ err'[<<fd, m>>] = "nil" /\ doneCh'[<<fd, m>>] = {}
    <2> SUFFICES ASSUME NEW fd \in Fds, NEW m \in Modes, ~Watched(fd)'
                 PROVE  ch'[<<fd, m>>] = "none" /\ err'[<<fd, m>>] = "nil"
                        /\ doneCh'[<<fd, m>>] = {}
        OBVIOUS
    <2> DEFINE k == <<fd, m>>
    <2>1. k \in Races /\ k[1] = fd
        BY DEF Races
    <2>2. ~Watched(k[1])'
        BY <2>1
    <2> HIDE DEF k
    <2>3. ch'[k] = "none" /\ err'[k] = "nil" /\ doneCh'[k] = {}
        BY <1>1, <2>1, <2>2, UnwatchedStep
    <2> QED BY <2>3 DEF k
<1>3. eventCh'.type = "timeout" => timers'[eventCh'.timer].st = "posted"
    BY <1>1, PostedStep
<1>4. ASSUME NEW fd \in Fds, eventCh'.type = "req", fd = eventCh'.from[1]
      PROVE  /\ eventCh'.op = "ARM" => eventCh'.race = eventCh'.from
             /\ eventCh'.op = "ADD" =>
                  /\ eventCh'.from[2] = "ctl" /\ eventCh'.live /\ ~Watched(fd)'
                  /\ \A m \in Modes : pc'[<<fd, m>>] = "idle"
             /\ eventCh'.op = "DEL" => eventCh'.from[2] = "ctl" /\ Watched(fd)'
    BY <1>1, <1>4, RequestStep
<1>5. eventCh'.type = "req" => eventCh'.from[1] \in Fds
    <2>1. TypeOK'
        BY <1>1, TypeStep
    <2> QED
        BY <2>1 DEF TypeOK, Events, Empty, Requests, ReadyEvents, TimeoutEvents, Clients
<1> QED
    BY <1>2, <1>3, <1>4, <1>5 DEF Bookkeeping, Watched

\* The inductive invariant holds before the first request.
LEMMA InvInit == Init => IInv
<1> SUFFICES ASSUME Init PROVE IInv
    OBVIOUS
<1>1. TypeOK
    BY TypeInit
<1>2. Races \subseteq Clients /\ \A fd \in Fds, m \in Modes : <<fd, m>> \in Races
    BY DEF Races, Clients, Roles
<1>3. Bookkeeping
    BY <1>2 DEF Init, Bookkeeping, Empty
<1>4. AnsweredOnce /\ NobodyForgotten /\ DeadlinesOwned
    BY <1>2 DEF Init, AnsweredOnce, NobodyForgotten, DeadlinesOwned, QueuedFrom, Empty
<1> QED
    BY <1>1, <1>3, <1>4 DEF IInv

\* The inductive invariant is kept by every step.
LEMMA InvStep == IInv /\ [Next]_vars => IInv'
    BY TypeStep, BookkeepingStep, AnswersStep, ForgottenStep, DeadlinesStep DEF IInv

\* Types, the agreement of queue and map, single answers, no lost request and
\* owned deadlines hold together in every reachable state.
THEOREM Inductive == Spec => []IInv
    BY InvInit, InvStep, PTL DEF Spec

\* A goroutine that delivers an answer never finds the channel full: a request
\* never has two answers coming, whatever the sockets, deadlines and goroutines
\* and whenever they leave.
THEOREM NeverTwoAnswers == Spec => []AnsweredOnce
<1>1. IInv => AnsweredOnce
    BY DEF IInv
<1> QED
    BY <1>1, Inductive, PTL

\* The loop loses no request it has accepted, but for the writer of a deleted
\* descriptor.
THEOREM NoRequestLost == Spec => []NobodyForgotten
<1>1. IInv => NobodyForgotten
    BY DEF IInv
<1> QED
    BY <1>1, Inductive, PTL

\* A race only ever cancels deadlines of its own, and a reference names at most
\* one of them although the 16-bit counter wraps.
THEOREM DeadlinesStayOwned == Spec => []DeadlinesOwned
<1>1. IInv => DeadlinesOwned
    BY DEF IInv
<1> QED
    BY <1>1, Inductive, PTL

-----------------------------------------------------------------------------
(* The loop keeps the promise of SubmitIoReq (module Replies).             *)

\* With no request made, the service has made no promise.
LEMMA PromiseInit == Init => Service!Init
    BY DEF Init, Service!Init

\* Each iteration answers goroutines that wait unanswered, each with what its
\* request may be answered.
LEMMA AnswerStep ==
    ASSUME TypeOK, Bookkeeping, AnsweredOnce, LoopNext
    PROVE  Service!Answer
<1> DEFINE Fit(c) == ans'[c] # ans[c] =>
                        /\ pc[c] # "idle" /\ ans[c] = "none"
                        /\ ans'[c] \in MayAnswer[pc[c]]
<1>t. TypeOK'
    BY LoopType
<1>1. pc' = pc
    BY DEF LoopNext, HandleAdd, HandleDel, HandleUndefined, HandleArm, HandleReset,
           HandleDeadline, HandleCancel, HandleReady, HandleUnknown, HandleTimeout, clientVars
<1>2. SUFFICES ASSUME NEW c \in Clients PROVE Fit(c)
    <2>1. ans' = [c \in Clients |-> ans'[c]]
        BY <1>t DEF TypeOK
    <2> QED
        BY <1>1, <1>2, <2>1 DEF Service!Answer
<1>m. /\ MayAnswer["ARM"] = {"nil", "deadline", "closed", "undefined"}
      /\ MayAnswer["DEADLINE"] = {"nil", "deadline", "undefined"}
      /\ MayAnswer["CANCEL"] = {"nil", "deadline", "undefined"}
      /\ MayAnswer["ADD"] = {"nil", "failed"}
      /\ MayAnswer["DEL"] = {"nil"} /\ MayAnswer["RESET"] = {"nil"}
    BY DEF MayAnswer, Ops
<1>r. ASSUME eventCh.type = "req", NEW a, a \in MayAnswer[eventCh.op], Reply(eventCh, a)[c] # ans[c]
      PROVE  /\ pc[c] # "idle" /\ ans[c] = "none"
             /\ Reply(eventCh, a)[c] \in MayAnswer[pc[c]]
    <2>1. eventCh.live /\ eventCh.from = c /\ Reply(eventCh, a)[c] = a
        BY <1>r DEF Reply, TypeOK
    <2>2. pc[c] = eventCh.op /\ ans[c] = "none"
        BY <1>r, <2>1 DEF QueuedFrom, AnsweredOnce
    <2>3. eventCh.op # "idle"
        BY <1>r, RequestType DEF Ops
    <2> QED
        BY <1>r, <2>1, <2>2, <2>3
<1>v. ASSUME NEW ks, ks \subseteq Races, NEW a \in {"nil", "deadline", "closed"}, NEW base,
             ToWaiters(ks, a, base)[c] # base[c]
      PROVE  /\ pc[c] = "ARM" /\ ans[c] = "none"
             /\ ToWaiters(ks, a, base)[c] \in MayAnswer["ARM"]
    <2>1. c \in ks /\ ch[c] = "live" /\ ToWaiters(ks, a, base)[c] = a
        BY <1>v DEF ToWaiters
    <2> QED
        BY <1>m, <1>v, <2>1 DEF AnsweredOnce
<1>3. ASSUME ans' = ans PROVE Fit(c)
    BY <1>3
<1>4. ASSUME eventCh.type = "req",
             NEW a, a \in MayAnswer[eventCh.op], ans' = Reply(eventCh, a)
      PROVE  Fit(c)
    BY <1>4, <1>r
<1>5. ASSUME NEW ks, ks \subseteq Races, NEW a \in {"nil", "deadline", "closed"},
             ans' = ToWaiters(ks, a, ans)
      PROVE  Fit(c)
    BY <1>5, <1>v
<1>6. ASSUME eventCh.type = "req", "nil" \in MayAnswer[eventCh.op],
             NEW ks, ks \subseteq Races, NEW a \in {"nil", "deadline", "closed"},
             ans' = ToWaiters(ks, a, Reply(eventCh, "nil"))
      PROVE  Fit(c)
    <2> DEFINE base == Reply(eventCh, "nil")
    <2>1. base[c] # ans[c] => /\ pc[c] # "idle" /\ ans[c] = "none"
                              /\ base[c] \in MayAnswer[pc[c]]
        BY <1>6, <1>r
    <2>2. ans' = ToWaiters(ks, a, base)
        BY <1>6
    <2> HIDE DEF base
    <2>3. ans'[c] # base[c] => /\ pc[c] = "ARM" /\ ans[c] = "none"
                               /\ ans'[c] \in MayAnswer["ARM"]
        BY <1>6, <1>v, <2>2
    <2> QED
        BY <2>1, <2>3
<1>7. CASE HandleAdd \/ HandleReset
    <2>1. /\ eventCh.type = "req" /\ eventCh.op \in {"ADD", "RESET"}
          /\ \E a \in MayAnswer[eventCh.op] : ans' = Reply(eventCh, a)
        BY <1>7, <1>m DEF HandleAdd, HandleReset, Taking
    <2> QED
        BY <1>4, <2>1
<1>8. CASE HandleUndefined
    <2>1. /\ eventCh.type = "req" /\ "undefined" \in MayAnswer[eventCh.op]
          /\ ans' = Reply(eventCh, "undefined")
        BY <1>8, <1>m DEF HandleUndefined, Taking
    <2> QED
        BY <1>4, <2>1
<1>9. CASE HandleDel
    <2> DEFINE ks == DeletedRaces(eventCh.from[1])
    <2>1. /\ eventCh.type = "req" /\ "nil" \in MayAnswer[eventCh.op]
          /\ ans' = ToWaiters(ks, "closed", Reply(eventCh, "nil"))
        BY <1>9, <1>m DEF HandleDel, Taking
    <2>2. ks \subseteq Races
        BY <2>1, RequestType DEF DeletedRaces, Races, Modes
    <2> HIDE DEF ks
    <2> QED
        BY <1>6, <2>1, <2>2
<1>10. CASE HandleArm \/ HandleDeadline
    <2>1. /\ eventCh.type = "req" /\ eventCh.op \in {"ARM", "DEADLINE"}
          /\ eventCh.race \in Races
        BY <1>10, RequestType DEF HandleArm, HandleDeadline, Taking
    <2>2. err[eventCh.race] \in MayAnswer[eventCh.op] /\ "nil" \in MayAnswer[eventCh.op]
        BY <1>m, <2>1 DEF TypeOK
    <2>3. ans' = ans \/ \E a \in MayAnswer[eventCh.op] : ans' = Reply(eventCh, a)
        BY <1>10, <2>2 DEF HandleArm, HandleDeadline
    <2> QED
        BY <1>3, <1>4, <2>1, <2>3
<1>11. CASE HandleCancel
    <2>1. /\ eventCh.type = "req" /\ eventCh.op = "CANCEL" /\ eventCh.race \in Races
        BY <1>11, RequestType DEF HandleCancel, Taking
    <2>2. err[eventCh.race] \in MayAnswer[eventCh.op] /\ "nil" \in MayAnswer[eventCh.op]
        BY <1>m, <2>1 DEF TypeOK
    <2>3. CASE ans' = Reply(eventCh, err[eventCh.race])
        BY <1>4, <2>1, <2>2, <2>3
    <2>4. CASE ans' = ToWaiters({eventCh.race}, "nil", Reply(eventCh, "nil"))
        <3>1. {eventCh.race} \subseteq Races
            BY <2>1
        <3> QED
            BY <1>6, <2>1, <2>2, <2>4, <3>1
    <2> QED
        BY <1>11, <2>3, <2>4 DEF HandleCancel
<1>12. CASE HandleReady
    <2> DEFINE answered == {k \in Hit(eventCh.pev) : ch[k] # "none"}
    <2>1. ans' = ToWaiters(answered, "nil", ans) /\ answered \subseteq Races
        BY <1>12 DEF HandleReady, Hit
    <2> HIDE DEF answered
    <2> QED
        BY <1>5, <2>1
<1>13. CASE HandleTimeout
    <2> DEFINE k == timers[eventCh.timer].race
    <2>1. CASE ans' = ToWaiters({k}, "deadline", ans)
        <3>1. timers[eventCh.timer].st = "posted" /\ eventCh.timer \in Timers
            BY <1>13, TimeoutType DEF HandleTimeout, Bookkeeping
        <3>2. {k} \subseteq Races
            BY <3>1 DEF TypeOK, TimerStates, Free
        <3> QED
            BY <1>5, <2>1, <3>2
    <2> QED
        BY <1>3, <1>13, <2>1 DEF HandleTimeout
<1>14. CASE HandleUnknown
    BY <1>3, <1>14 DEF HandleUnknown, clientVars
<1> QED
    BY <1>7, <1>8, <1>9, <1>10, <1>11, <1>12, <1>13, <1>14 DEF LoopNext

\* Every step of the service asks, answers or leaves as Replies allows, or is
\* invisible to the goroutines.
LEMMA PromiseStep == IInv /\ [Next]_vars => [Service!Next]_(Service!vars)
<1> SUFFICES ASSUME IInv, [Next]_vars PROVE [Service!Next]_(Service!vars)
    OBVIOUS
<1>i. TypeOK /\ Bookkeeping /\ AnsweredOnce
    BY DEF IInv
<1>d. DOMAIN MayAnswer = Ops
    BY DEF MayAnswer
<1>1. CASE UNCHANGED vars \/ KernelNext \/ TimerNext
    BY <1>1 DEF vars, clientVars, KernelNext, DataArrives, SpaceFrees, SockError, EpollWait,
                PostReady, TimerNext, Fire, Expire, PostTimeout, Service!vars
<1>2. ASSUME NEW fd \in Fds, NEW m \in Modes, NEW op \in Ops, SubmitData(fd, m, op)
      PROVE  Service!Next
    <2>1. <<fd, m>> \in Clients
        BY DEF Clients, Roles
    <2>2. Service!Ask(<<fd, m>>, {})
        BY <1>2, <1>d, <1>i, <2>1 DEF SubmitData, TypeOK, Service!Ask
    <2>3. {} \in SUBSET Clients
        OBVIOUS
    <2> QED
        BY <2>1, <2>2, <2>3 DEF Service!Next
<1>3. ASSUME NEW fd \in Fds, NEW m \in Modes, NEW op \in CtlOps, SubmitCtl(fd, m, op)
      PROVE  Service!Next
    <2> DEFINE ctl == <<fd, "ctl">>
               S == IF op = "ADD" THEN {c \in Clients : c[1] = fd /\ c[2] \in Modes} ELSE {}
    <2>1. ctl \in Clients /\ ctl \notin S /\ S \in SUBSET Clients /\ op \in Ops
        BY OpsAssumption DEF Clients, Roles, Modes, Ops
    <2>a. ASSUME pc' = [d \in Clients |-> IF d = ctl THEN op
                                          ELSE IF d \in S THEN "idle" ELSE pc[d]],
                 ans' = [d \in Clients |-> IF d \in S THEN "none" ELSE ans[d]]
          PROVE  Service!Next
        <3>1. pc[ctl] = "idle"
            BY <1>3 DEF SubmitCtl
        <3> HIDE DEF S, ctl
        <3>2. Service!Ask(ctl, S)
            BY <1>d, <2>1, <2>a, <3>1 DEF Service!Ask
        <3> QED
            BY <2>1, <3>2 DEF Service!Next
    <2>2. CASE op = "ADD"
        <3>1. pc' = [d \in Clients |-> IF d = ctl THEN op
                                       ELSE IF d \in S THEN "idle" ELSE pc[d]]
            BY <1>3, <2>1, <2>2 DEF SubmitCtl, Started
        <3>2. ans' = [d \in Clients |-> IF d \in S THEN "none" ELSE ans[d]]
            BY <1>3, <2>2 DEF SubmitCtl, Unanswered
        <3> QED
            BY <2>a, <3>1, <3>2
    <2>3. CASE op # "ADD"
        <3>1. pc' = [d \in Clients |-> IF d = ctl THEN op
                                       ELSE IF d \in S THEN "idle" ELSE pc[d]]
            BY <1>3, <1>i, <2>1, <2>3 DEF SubmitCtl, TypeOK
        <3>2. ans' = [d \in Clients |-> IF d \in S THEN "none" ELSE ans[d]]
            BY <1>3, <1>i, <2>3 DEF SubmitCtl, TypeOK
        <3> QED
            BY <2>a, <3>1, <3>2
    <2> QED BY <2>2, <2>3
<1>4. ASSUME NEW c \in Clients, Collect(c) \/ GiveUp(c) PROVE Service!Next
    <2>1. pc[c] # "idle"
        BY <1>4, <1>i DEF Collect, GiveUp, AnsweredOnce
    <2> QED
        BY <1>4, <2>1 DEF Collect, GiveUp, Service!Leave, Service!Next
<1>5. CASE LoopNext
    BY <1>5, <1>i, AnswerStep DEF Service!Next
<1> QED
    BY <1>1, <1>2, <1>3, <1>4, <1>5 DEF Next, ClientNext, Dead

\* For any number of descriptors, goroutines and deadlines the event loop
\* implements the service its clients rely on: one request, at most one answer,
\* of a kind that request can have, never the answer to an earlier request.
THEOREM PromiseKept == Spec => KeepsPromise
<1>1. IInv /\ [Next]_vars => [Service!Next]_(Service!vars)
    BY PromiseStep
<1> QED
    BY <1>1, PromiseInit, Inductive, PTL DEF Spec, KeepsPromise, Service!Spec
=============================================================================
