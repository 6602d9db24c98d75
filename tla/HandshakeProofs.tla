-------------------------- MODULE HandshakeProofs --------------------------
(***************************************************************************)
(* Theorems about Handshake: what holds of opening a connection for any    *)
(* number of calls of Dial and Accept, of early calls and of failures, any *)
(* numbers of the two ends and any size of an address.                     *)
(***************************************************************************)
EXTENDS Handshake, TLAPS, SequenceTheorems, WellFoundedInduction

-----------------------------------------------------------------------------
(* What the variables hold.                                                *)

Refs == {0} \cup {RefNum[e] : e \in Ends}
Datagrams ==
    [kind : {"CONNECT", "CONNECT_ACK", "ACCEPT_ACK", "CONNECTED", "none"}, refs : Refs \X Refs]
    \cup [kind : {"size", "address"}, sock : Accepted]

\* The events that an end may meet: those of its call, OPEN1 and early calls.
FlagsOf(e, m) ==
    IF e = "dialer"
    THEN IF m = "R" THEN {"CONNECT_ACK", "CONNECTED", "OPEN1", "READ1"}
                    ELSE {"CONNECT", "ACCEPT_ACK", "OPEN1", "WRITE1"}
    ELSE IF m = "R" THEN {"ACCEPT", "ACCEPT_ACK", "OPEN1", "READ1"}
                    ELSE {"CONNECT_ACK", "CONNECTED", "OPEN1", "WRITE1"}
EventsOf(e) == ({"R"} \X FlagsOf(e, "R")) \cup ({"W"} \X FlagsOf(e, "W"))
SlotsOf(e, m) == {<<>>} \cup {<<f>> : f \in FlagsOf(e, m)}

ReaderStates(e) ==
    IF e = "dialer" THEN {"idle", "CONNECT_ACK", "size", "address", "CONNECTED", "data"}
                    ELSE {"idle", "ACCEPT_ACK", "data"}
Sending == {"header", "size", "address"}
WriterStates == {"none", "idle", "early", "data"} \cup Sending

NetTypes ==
    /\ inbox \in [Sockets -> Seq(Datagrams)]
    /\ peer \in [Sockets -> SUBSET Sockets]
    /\ plan \in Plans /\ faults \in 0 .. plan.faults
CallTypes ==
    /\ sending = [e \in Ends |-> sending[e]] /\ slot = [e \in Ends |-> [m \in Directions |-> slot[e][m]]]
    /\ \A e \in Ends : sending[e] \subseteq EventsOf(e)
    /\ \A e \in Ends, m \in Directions : slot[e][m] \in SlotsOf(e, m)
    /\ calls \in [Ends -> Nat] /\ opens \in [Ends -> Nat] /\ step \in [Ends -> 0 .. 4]
    /\ early \in [Ends -> [Directions -> {"none", "sent", "refused", "passed"}]]
ThreadTypes ==
    /\ reader = [e \in Ends |-> reader[e]] /\ \A e \in Ends : reader[e] \in ReaderStates(e)
    /\ writer \in [Sockets -> WriterStates]
    /\ known \in [Ends -> Refs] /\ raddr \subseteq Accepted
    /\ accepted \in Nat /\ readSock = Listening + accepted
Types == NetTypes /\ CallTypes /\ ThreadTypes

-----------------------------------------------------------------------------
(* The inductive invariant.                                                *)

\* A call that is in progress has not returned yet, and makes one socket at most.
Counting ==
    /\ \A e \in Ends : opens[e] + (IF step[e] > 0 THEN 1 ELSE 0) <= calls[e]
    /\ calls["listener"] <= plan.accepts
    /\ accepted + (IF step["listener"] = 1 THEN 1 ELSE 0) <= calls["listener"]

\* Which sockets have a writer and whom they are connected to.
Siting ==
    /\ \A s \in Sockets : writer[s] # "none" <=> s = Dialing \/ s \in 2 .. accepted + 1
    /\ writer[Dialing] \notin Sending
    /\ peer[Dialing] \subseteq Accepted /\ peer[Listening] = {}
    /\ \A s \in Accepted : /\ peer[s] \subseteq {Dialing}
                           /\ writer[s] \in Sending => peer[s] = {Dialing}
    /\ \A s, t \in Accepted : writer[s] \in Sending /\ writer[t] \in Sending => s = t

\* Where the event of step n of the call of an end is: its goroutine waits for the
\* slot, it is in the slot, or one of the end's goroutines works on it.
Sent(e, n) == Steps(e)[n] \in sending[e]
Queued(e, n) == slot[e][Steps(e)[n][1]] = <<Steps(e)[n][2]>>
Working(e, n) ==
    \/ n = 2 /\ reader[e] \in {"CONNECT_ACK", "size", "address"}
    \/ n = 3 /\ reader[e] = "ACCEPT_ACK"
    \/ n = 4 /\ reader[e] = "CONNECTED"
    \/ n = 2 /\ e = "listener" /\ \E s \in Accepted : writer[s] \in Sending

\* It is at one place at most, and only while the call waits in this step.
Single(e, n) ==
    /\ Sent(e, n) \/ Queued(e, n) \/ Working(e, n) => step[e] = n
    /\ ~(Sent(e, n) /\ Queued(e, n)) /\ ~(Sent(e, n) /\ Working(e, n))
    /\ ~(Queued(e, n) /\ Working(e, n))
Singles == \A e \in Ends : \A n \in 1 .. 4 : Single(e, n)

Acquainted == known["listener"] = RefNum["dialer"] /\ known["dialer"] = RefNum["listener"]

\* How far the two ends have come.  Only the first Accept that makes a socket gets
\* past its first step: the next one would read the greeting from that socket.
Phases ==
    /\ step["listener"] > 1 => accepted = 1 /\ opens["listener"] = 0
    /\ opens["listener"] > 0 => accepted > 0
    /\ step["listener"] > 2 => peer[readSock] = {Dialing}
    /\ step["listener"] = 4 \/ opens["listener"] > 0 => Acquainted
    /\ opens["dialer"] > 0 => opens["listener"] > 0
    /\ known["dialer"] \in {0, RefNum["listener"]}

\* What a datagram tells whoever reads it.
Proper(s, d) ==
    /\ d.kind = "CONNECT" => s = Listening
    /\ d.kind = "CONNECT_ACK" => d.refs[1] = RefNum["listener"]
    /\ d.kind = "ACCEPT_ACK" =>
        /\ d.refs[2] = RefNum["dialer"]
        /\ d.refs[1] # 0 => known["dialer"] = RefNum["listener"]
    /\ d.kind = "CONNECTED" => opens["listener"] > 0
Mail == \A s \in Sockets : \A i \in 1 .. Len(inbox[s]) : Proper(s, inbox[s][i])

IInv == Types /\ Counting /\ Siting /\ Singles /\ Phases /\ Mail

-----------------------------------------------------------------------------
(* Facts about the constants.                                              *)

LEMMA EndsFacts == "dialer" \in Ends /\ "listener" \in Ends /\ \A e \in Ends : e = "dialer" \/ e = "listener"
BY DEF Ends

LEMMA SocketFacts ==
    /\ Dialing \in Sockets /\ Listening \in Sockets /\ Dialing = 0 /\ Listening = 1
    /\ \A s \in Accepted : s \in Sockets /\ s \in Nat /\ s > 1
    /\ \A s \in Sockets : s = Dialing \/ s = Listening \/ s \in Accepted
    /\ \A s \in Sockets : s \in Nat
<1>1. \A s \in Accepted : s \in Nat /\ s > 1
    BY PlansAssumption DEF Accepted
<1> QED BY <1>1 DEF Sockets, Dialing, Listening

LEMMA AcceptedFacts ==
    ASSUME NEW p \in Plans, NEW n \in Nat, n < p.accepts
    PROVE  n + 2 \in Accepted
<1>1. p.accepts \in Nat
    BY PlansAssumption
<1>2. n + 2 \in 2 .. p.accepts + 1
    BY <1>1
<1> QED BY <1>2 DEF Accepted

LEMMA RefFacts ==
    /\ 0 \in Refs /\ RefNum["dialer"] \in Refs /\ RefNum["listener"] \in Refs
    /\ RefNum["dialer"] # 0 /\ RefNum["listener"] # 0
BY RefNumAssumption, EndsFacts DEF Refs

LEMMA StepsFacts ==
    /\ \A e \in Ends : Len(Steps(e)) = 4 /\ \A n \in 1 .. 4 : Steps(e)[n] \in EventsOf(e)
    /\ Steps("dialer")[1] = <<"W", "CONNECT">> /\ Steps("dialer")[2] = <<"R", "CONNECT_ACK">>
    /\ Steps("dialer")[3] = <<"W", "ACCEPT_ACK">> /\ Steps("dialer")[4] = <<"R", "CONNECTED">>
    /\ Steps("listener")[1] = <<"R", "ACCEPT">> /\ Steps("listener")[2] = <<"W", "CONNECT_ACK">>
    /\ Steps("listener")[3] = <<"R", "ACCEPT_ACK">> /\ Steps("listener")[4] = <<"W", "CONNECTED">>
<1>1. /\ Steps("dialer")[1] = <<"W", "CONNECT">> /\ Steps("dialer")[2] = <<"R", "CONNECT_ACK">>
      /\ Steps("dialer")[3] = <<"W", "ACCEPT_ACK">> /\ Steps("dialer")[4] = <<"R", "CONNECTED">>
    BY DEF Steps, DialSteps
<1>2. /\ Steps("listener")[1] = <<"R", "ACCEPT">> /\ Steps("listener")[2] = <<"W", "CONNECT_ACK">>
      /\ Steps("listener")[3] = <<"R", "ACCEPT_ACK">> /\ Steps("listener")[4] = <<"W", "CONNECTED">>
    BY DEF Steps, AcceptSteps
<1>3. \A n \in 1 .. 4 : Steps("dialer")[n] \in EventsOf("dialer")
  <2>1. \A n \in 1 .. 4 : n = 1 \/ n = 2 \/ n = 3 \/ n = 4
      OBVIOUS
  <2> QED BY <1>1, <2>1 DEF EventsOf, FlagsOf
<1>4. \A n \in 1 .. 4 : Steps("listener")[n] \in EventsOf("listener")
  <2>1. \A n \in 1 .. 4 : n = 1 \/ n = 2 \/ n = 3 \/ n = 4
      OBVIOUS
  <2> QED BY <1>2, <2>1 DEF EventsOf, FlagsOf
<1>5. \A e \in Ends : Len(Steps(e)) = 4
    BY DEF Steps, DialSteps, AcceptSteps
<1> QED BY <1>1, <1>2, <1>3, <1>4, <1>5, EndsFacts

\* No two steps have the same event, and none is that of OPEN1 or of a call.
LEMMA StepsApart ==
    ASSUME NEW e \in Ends, NEW n \in 1 .. 4
    PROVE  /\ \A k \in 1 .. 4 : Steps(e)[k] = Steps(e)[n] => k = n
           /\ Steps(e)[n] \notin {<<"R", "OPEN1">>, <<"W", "OPEN1">>} \cup Calls
           /\ Steps(e)[n] = <<Steps(e)[n][1], Steps(e)[n][2]>>
           /\ Steps(e)[n][1] \in Directions /\ Steps(e)[n][2] \in FlagsOf(e, Steps(e)[n][1])
<1>1. n = 1 \/ n = 2 \/ n = 3 \/ n = 4
    OBVIOUS
<1>2. \A k \in 1 .. 4 : k = 1 \/ k = 2 \/ k = 3 \/ k = 4
    OBVIOUS
<1>3. CASE e = "dialer"
    BY <1>1, <1>2, <1>3, StepsFacts DEF Calls, Directions, FlagsOf
<1>4. CASE e = "listener"
    BY <1>1, <1>2, <1>4, StepsFacts DEF Calls, Directions, FlagsOf
<1> QED BY <1>3, <1>4, EndsFacts

LEMMA SlotFacts ==
    ASSUME NEW e \in Ends, NEW m \in Directions, NEW s \in SlotsOf(e, m), s # <<>>
    PROVE  Head(s) \in FlagsOf(e, m) /\ s = <<Head(s)>> /\ Len(s) = 1
BY DEF SlotsOf

\* A header is read out of the first datagrams of the inbox, and what is left of
\* it is its end.
LEMMA AfterHeaderFacts ==
    ASSUME NEW q \in Seq(Datagrams)
    PROVE  /\ AfterHeader(q) \in Seq(Datagrams)
           /\ \A i \in 1 .. Len(AfterHeader(q)) : \E j \in 1 .. Len(q) : AfterHeader(q)[i] = q[j]
<1>1. CASE Complete(q) = {}
    BY <1>1 DEF AfterHeader
<1>2. CASE Complete(q) # {}
  <2> DEFINE C == Complete(q)
             k == CHOOSE i \in C : \A j \in C : i <= j
             r == SubSeq(q, k + 1, Len(q))
  <2>1. C \subseteq 1 .. Len(q) /\ C \subseteq Nat /\ Len(q) \in Nat
      BY DEF Complete
  <2>2. \E i \in C : \A j \in C : i <= j
    <3>1. C # {}
        BY <1>2
    <3> HIDE DEF C
    <3>2. PICK i \in C : \A j \in C : <<j, i>> \notin OpToRel(<, Nat)
        BY <2>1, <3>1, NatLessThanWellFounded, WFMin
    <3>3. \A j \in C : ~(j < i)
        BY <2>1, <3>2 DEF OpToRel
    <3> QED BY <2>1, <3>3
  <2> HIDE DEF C
  <2>3. k \in C
      BY <2>2
  <2> HIDE DEF k
  <2>4. k \in 1 .. Len(q)
      BY <2>1, <2>3
  <2>5. AfterHeader(q) = r
      BY <1>2 DEF AfterHeader, C, k
  <2>6. r \in Seq(Datagrams) /\ Len(r) = Len(q) - k /\ \A i \in 1 .. Len(r) : r[i] = q[k + i]
      BY <2>1, <2>4
  <2>7. \A i \in 1 .. Len(r) : k + i \in 1 .. Len(q)
      BY <2>1, <2>4, <2>6
  <2> HIDE DEF r
  <2> QED BY <2>5, <2>6, <2>7
<1> QED BY <1>1, <1>2

LEMMA HeadFacts ==
    ASSUME NEW q \in Seq(Datagrams), q # <<>>
    PROVE  /\ Head(q) \in Datagrams /\ Head(q) = q[1] /\ 1 \in 1 .. Len(q)
           /\ Tail(q) \in Seq(Datagrams)
           /\ \A i \in 1 .. Len(Tail(q)) : \E j \in 1 .. Len(q) : Tail(q)[i] = q[j]
<1>1. Head(q) \in Datagrams /\ Head(q) = q[1] /\ 1 \in 1 .. Len(q)
    OBVIOUS
<1>2. Tail(q) \in Seq(Datagrams) /\ Len(Tail(q)) = Len(q) - 1 /\ Len(q) \in Nat
      /\ \A i \in 1 .. Len(Tail(q)) : Tail(q)[i] = q[i + 1]
    BY HeadTailProperties
<1>3. \A i \in 1 .. Len(Tail(q)) : i + 1 \in 1 .. Len(q)
    BY <1>2
<1> QED BY <1>1, <1>2, <1>3

LEMMA HeadersFacts ==
    ASSUME NEW q \in Seq(Datagrams), NEW d \in Headers(q)
    PROVE  /\ d \in Datagrams /\ d.kind \notin {"size", "address"} /\ d.refs \in Refs \X Refs
           /\ d.refs[1] \in Refs /\ d.refs[2] \in Refs
           /\ q # <<>> /\ d = q[1] /\ 1 \in 1 .. Len(q)
<1>1. q # <<>> /\ d = Head(q) /\ d.kind \notin {"size", "address"}
    BY DEF Headers
<1>2. d \in Datagrams /\ d = q[1] /\ 1 \in 1 .. Len(q)
    BY <1>1, HeadFacts
<1> QED BY <1>1, <1>2 DEF Datagrams

-----------------------------------------------------------------------------
(* What the parts of the actions do.                                       *)

LEMMA EventFacts ==
    ASSUME NEW e \in Ends, NEW k \in 1 .. 5
    PROVE  /\ Event(e, k) \subseteq EventsOf(e)
           /\ \A n \in 1 .. 4 : Steps(e)[n] \in Event(e, k) => n = k
<1>1. Len(Steps(e)) = 4
    BY StepsFacts
<1>2. CASE k \in 1 .. 4
  <2>1. Event(e, k) = {Steps(e)[k]}
      BY <1>1, <1>2 DEF Event
  <2> QED BY <1>2, <2>1, StepsFacts, StepsApart
<1>3. CASE k = 5
  <2>1. Event(e, k) = {<<"R", "OPEN1">>, <<"W", "OPEN1">>}
      BY <1>1, <1>3 DEF Event
  <2>2. Event(e, k) \subseteq EventsOf(e)
      BY <2>1 DEF EventsOf, FlagsOf
  <2> QED BY <2>1, <2>2, StepsApart
<1> QED BY <1>2, <1>3

\* The answer to a call: what becomes of the call, and that only the event of its
\* next step is sent.
LEMMA AnswerFacts ==
    ASSUME CallTypes, Counting, NEW e \in Ends, NEW ok \in BOOLEAN, step[e] \in 1 .. 4,
           Answer(e, ok)
    PROVE  /\ calls' = calls /\ plan' = plan
           /\ sending' = [f \in Ends |-> sending'[f]]
           /\ \A f \in Ends : sending'[f] \subseteq EventsOf(f)
           /\ step' \in [Ends -> 0 .. 4] /\ opens' \in [Ends -> Nat]
           /\ step'[e] = (IF ok /\ step[e] < 4 THEN step[e] + 1 ELSE 0)
           /\ opens'[e] = (IF ok /\ step[e] = 4 THEN opens[e] + 1 ELSE opens[e])
           /\ \A f \in Ends \ {e} : step'[f] = step[f] /\ opens'[f] = opens[f]
           /\ \A f \in Ends, n \in 1 .. 4 : Sent(f, n)' => Sent(f, n) \/ (f = e /\ n = step'[e])
           /\ \A f \in Ends : opens'[f] + (IF step'[f] > 0 THEN 1 ELSE 0) <= calls'[f]
<1> DEFINE k == step[e] + 1
<1>1. Len(Steps(e)) = 4
    BY StepsFacts
<1>2. calls' = calls /\ plan' = plan
    BY DEF Answer
<1>3. /\ step' \in [Ends -> 0 .. 4]
      /\ step'[e] = (IF ok /\ step[e] < 4 THEN step[e] + 1 ELSE 0)
      /\ \A f \in Ends \ {e} : step'[f] = step[f]
    BY <1>1 DEF Answer, CallTypes
<1>4. /\ opens' \in [Ends -> Nat]
      /\ opens'[e] = (IF ok /\ step[e] = 4 THEN opens[e] + 1 ELSE opens[e])
      /\ \A f \in Ends \ {e} : opens'[f] = opens[f]
    BY <1>1 DEF Answer, CallTypes
<1>5. \A f \in Ends : opens'[f] + (IF step'[f] > 0 THEN 1 ELSE 0) <= calls'[f]
  <2> SUFFICES ASSUME NEW f \in Ends
               PROVE  opens'[f] + (IF step'[f] > 0 THEN 1 ELSE 0) <= calls'[f]
      OBVIOUS
  <2>1. opens[f] + (IF step[f] > 0 THEN 1 ELSE 0) <= calls[f] /\ opens[f] \in Nat /\ calls[f] \in Nat
        /\ step[f] \in 0 .. 4
      BY DEF Counting, CallTypes
  <2>2. CASE f = e
      BY <1>2, <1>3, <1>4, <2>1, <2>2
  <2>3. CASE f # e
      BY <1>2, <1>3, <1>4, <2>1, <2>3
  <2> QED BY <2>2, <2>3
<1>6. k \in 1 .. 5 /\ k = step[e] + 1
    OBVIOUS
<1>7. sending' = (IF ok THEN [sending EXCEPT ![e] = @ \cup Event(e, k)] ELSE sending)
    BY DEF Answer
<1> HIDE DEF k
<1>8. /\ sending' = [f \in Ends |-> sending'[f]]
      /\ \A f \in Ends : sending'[f] = IF ok /\ f = e THEN sending[f] \cup Event(e, k) ELSE sending[f]
    BY <1>7 DEF CallTypes
<1>9. \A f \in Ends : sending'[f] \subseteq EventsOf(f)
    BY <1>6, <1>8, EventFacts DEF CallTypes
<1>10. \A f \in Ends, n \in 1 .. 4 : Sent(f, n)' => Sent(f, n) \/ (f = e /\ n = step'[e])
  <2> SUFFICES ASSUME NEW f \in Ends, NEW n \in 1 .. 4, Steps(f)[n] \in sending'[f],
                      Steps(f)[n] \notin sending[f]
               PROVE  f = e /\ n = step'[e]
      BY DEF Sent
  <2>1. ok /\ f = e /\ Steps(e)[n] \in Event(e, k)
      BY <1>8
  <2>2. n = k
      BY <1>6, <2>1, EventFacts
  <2> QED BY <1>3, <1>6, <2>1, <2>2
<1> QED BY <1>2, <1>3, <1>4, <1>5, <1>8, <1>9, <1>10

\* An event taken out of a slot is nowhere else.
LEMMA EmptiedFacts ==
    ASSUME CallTypes, NEW e \in Ends, NEW m \in Directions, slot' = Emptied(e, m)
    PROVE  /\ slot' = [f \in Ends |-> [l \in Directions |-> slot'[f][l]]]
           /\ \A f \in Ends, l \in Directions : slot'[f][l] \in SlotsOf(f, l)
           /\ \A f \in Ends, n \in 1 .. 4 : Queued(f, n)' => Queued(f, n)
           /\ \A n \in 1 .. 4 : Steps(e)[n][1] = m => ~Queued(e, n)'
<1>1. \A f \in Ends, l \in Directions :
        slot'[f][l] = IF f = e /\ l = m THEN <<>> ELSE slot[f][l]
    BY DEF Emptied, CallTypes
<1>2. slot' = [f \in Ends |-> [l \in Directions |-> slot'[f][l]]]
    BY DEF Emptied, CallTypes
<1>3. \A f \in Ends, l \in Directions : slot'[f][l] \in SlotsOf(f, l)
    BY <1>1 DEF CallTypes, SlotsOf
<1>4. \A f \in Ends, n \in 1 .. 4 : Queued(f, n)' => Queued(f, n)
  <2> SUFFICES ASSUME NEW f \in Ends, NEW n \in 1 .. 4,
                      slot'[f][Steps(f)[n][1]] = <<Steps(f)[n][2]>>
               PROVE  slot[f][Steps(f)[n][1]] = <<Steps(f)[n][2]>>
      BY DEF Queued
  <2> DEFINE l == Steps(f)[n][1]
             x == Steps(f)[n][2]
  <2>1. l \in Directions
      BY StepsApart
  <2> HIDE DEF l, x
  <2>2. slot'[f][l] = <<x>>
      BY DEF l, x
  <2>3. slot'[f][l] = IF f = e /\ l = m THEN <<>> ELSE slot[f][l]
      BY <1>1, <2>1
  <2>4. slot'[f][l] # <<>>
      BY <2>2
  <2>5. slot[f][l] = <<x>>
      BY <2>2, <2>3, <2>4
  <2> QED BY <2>5 DEF l, x
<1>5. \A n \in 1 .. 4 : Steps(e)[n][1] = m => ~Queued(e, n)'
  <2> SUFFICES ASSUME NEW n \in 1 .. 4, Steps(e)[n][1] = m
               PROVE  ~(slot'[e][m] = <<Steps(e)[n][2]>>)
      BY DEF Queued
  <2>1. slot'[e][m] = <<>>
      BY <1>1
  <2> QED BY <2>1
<1> QED BY <1>2, <1>3, <1>4, <1>5

LEMMA TakenFacts ==
    ASSUME CallTypes, Singles, NEW e \in Ends, NEW m \in Directions, slot[e][m] # <<>>,
           slot' = Emptied(e, m), NEW n \in 1 .. 4, Steps(e)[n] = <<m, Head(slot[e][m])>>
    PROVE  /\ step[e] = n /\ Queued(e, n)
           /\ \A k \in 1 .. 4 : ~Sent(e, k) /\ ~Working(e, k) /\ ~Queued(e, k)'
<1>1. slot[e][m] = <<Head(slot[e][m])>>
    BY SlotFacts DEF CallTypes
<1>2. Queued(e, n) /\ Steps(e)[n][1] = m
    BY <1>1 DEF Queued
<1>3. step[e] = n /\ ~Sent(e, n) /\ ~Working(e, n)
    BY <1>2 DEF Singles, Single
<1>4. ~Queued(e, n)'
    BY <1>2, EmptiedFacts
<1>5. ASSUME NEW k \in 1 .. 4, k # n
      PROVE  ~Sent(e, k) /\ ~Working(e, k) /\ ~Queued(e, k)'
  <2>1. ~Sent(e, k) /\ ~Working(e, k) /\ ~Queued(e, k)
      BY <1>3, <1>5 DEF Singles, Single
  <2> QED BY <2>1, EmptiedFacts
<1> QED BY <1>2, <1>3, <1>4, <1>5

\* When nothing is left of the step that is answered, the event of the next one
\* is the only one.
LEMMA SinglesAnswered ==
    ASSUME Singles, NEW e \in Ends, step' \in [Ends -> 0 .. 4],
           \A f \in Ends, n \in 1 .. 4 : Sent(f, n)' => Sent(f, n) \/ (f = e /\ n = step'[e]),
           \A n \in 1 .. 4 : ~Sent(e, n) /\ ~Queued(e, n)' /\ ~Working(e, n)',
           \A f \in Ends \ {e} :
             /\ step'[f] = step[f]
             /\ \A n \in 1 .. 4 : (Queued(f, n)' => Queued(f, n)) /\ (Working(f, n)' => Working(f, n))
    PROVE  Singles'
<1> SUFFICES ASSUME NEW f \in Ends, NEW n \in 1 .. 4
             PROVE  Single(f, n)'
    BY DEF Singles
<1>1. CASE f = e
    BY <1>1 DEF Single
<1>2. CASE f # e
    BY <1>2 DEF Single, Singles
<1> QED BY <1>1, <1>2

\* While no call is answered, an event only moves on.
LEMMA SinglesMoved ==
    ASSUME Singles, step' = step,
           \A e \in Ends, n \in 1 .. 4 :
             /\ Sent(e, n)' => Sent(e, n)
             /\ Queued(e, n)' => Queued(e, n) \/ (Sent(e, n) /\ ~Sent(e, n)')
             /\ Working(e, n)' => Working(e, n) \/ (Queued(e, n) /\ ~Queued(e, n)')
    PROVE  Singles'
<1> SUFFICES ASSUME NEW f \in Ends, NEW n \in 1 .. 4
             PROVE  Single(f, n)'
    BY DEF Singles
<1>1. Single(f, n)
    BY DEF Singles
<1> QED BY <1>1 DEF Single

LEMMA SitingKept ==
    ASSUME Siting, writer' = writer, peer' = peer, accepted' = accepted
    PROVE  Siting'
BY DEF Siting

\* A step that takes no end further.
LEMMA PhasesKept ==
    ASSUME Phases, accepted' = accepted, readSock' = readSock, peer'[readSock] = peer[readSock],
           known' = known, opens'["listener"] = opens["listener"], step["listener"] \in 0 .. 4,
           step'["listener"] = step["listener"] \/ step'["listener"] = 0,
           opens'["dialer"] = opens["dialer"]
    PROVE  Phases'
BY DEF Phases, Acquainted

-----------------------------------------------------------------------------
(* The datagrams under way.                                                *)

\* What a datagram tells stays true.
Onward ==
    /\ opens["listener"] > 0 => opens'["listener"] > 0
    /\ known["dialer"] = RefNum["listener"] => known'["dialer"] = RefNum["listener"]

LEMMA ProperStays ==
    ASSUME Onward, NEW s \in Sockets, NEW d, Proper(s, d)
    PROVE  Proper(s, d)'
BY DEF Onward, Proper

LEMMA MailStays ==
    ASSUME NetTypes, Mail, Onward, inbox' = inbox
    PROVE  inbox' \in [Sockets -> Seq(Datagrams)] /\ Mail'
BY ProperStays DEF NetTypes, Mail

LEMMA MailLess ==
    ASSUME NetTypes, Mail, Onward, NEW s \in Sockets, NEW r \in Seq(Datagrams),
           inbox' = [inbox EXCEPT ![s] = r],
           \A i \in 1 .. Len(r) : \E j \in 1 .. Len(inbox[s]) : r[i] = inbox[s][j]
    PROVE  inbox' \in [Sockets -> Seq(Datagrams)] /\ Mail'
<1>1. inbox' \in [Sockets -> Seq(Datagrams)]
      /\ \A t \in Sockets : inbox'[t] = IF t = s THEN r ELSE inbox[t]
    BY DEF NetTypes
<1>2. ASSUME NEW t \in Sockets, NEW i \in 1 .. Len(inbox'[t])
      PROVE  Proper(t, inbox[t][i])'
  <2>1. PICK j \in 1 .. Len(inbox[t]) : inbox'[t][i] = inbox[t][j]
      BY <1>1
  <2>2. Proper(t, inbox[t][j])
      BY DEF Mail
  <2>3. PICK d : d = inbox[t][j]
      OBVIOUS
  <2>4. Proper(t, d)'
      BY <2>2, <2>3, ProperStays
  <2> QED BY <2>1, <2>3, <2>4 DEF Proper
<1> QED BY <1>1, <1>2 DEF Mail

LEMMA MailMore ==
    ASSUME NetTypes, Mail, Onward, NEW s \in Sockets, NEW t \in Sockets, NEW d \in Datagrams,
           Transmit(s, t, d), Proper(t, d)', plan' = plan
    PROVE  inbox' \in [Sockets -> Seq(Datagrams)] /\ Mail' /\ faults' \in 0 .. plan.faults
<1>0. plan.faults \in Nat
    BY PlansAssumption DEF NetTypes
<1>1. faults' \in 0 .. plan.faults
    BY <1>0 DEF Transmit, Fault, NetTypes
<1>2. ASSUME NEW n \in {1, 2}, inbox' = Delivered(s, t, d, n)
      PROVE  inbox' \in [Sockets -> Seq(Datagrams)] /\ Mail'
  <2> DEFINE c == [i \in 1 .. n |-> d]
             r == inbox[t] \o c
  <2>1. c \in Seq(Datagrams) /\ Len(c) = n /\ \A i \in 1 .. n : c[i] = d
      OBVIOUS
  <2>2. inbox[t] \in Seq(Datagrams)
      BY DEF NetTypes
  <2> HIDE DEF c
  <2>3. r \in Seq(Datagrams) /\ Len(r) = Len(inbox[t]) + n
        /\ \A i \in 1 .. Len(r) : r[i] = IF i <= Len(inbox[t]) THEN inbox[t][i] ELSE c[i - Len(inbox[t])]
      BY <2>1, <2>2
  <2>4. CASE inbox' = inbox
      BY <2>4, MailStays
  <2>5. CASE inbox' = [inbox EXCEPT ![t] = r]
    <3>1. inbox' \in [Sockets -> Seq(Datagrams)]
          /\ \A u \in Sockets : inbox'[u] = IF u = t THEN r ELSE inbox[u]
        BY <2>3, <2>5 DEF NetTypes
    <3> HIDE DEF r
    <3>2. ASSUME NEW u \in Sockets, NEW i \in 1 .. Len(inbox'[u])
          PROVE  Proper(u, inbox[u][i])'
      <4>1. CASE u = t /\ inbox'[u][i] = d
          BY <4>1 DEF Proper
      <4>2. CASE \E j \in 1 .. Len(inbox[u]) : inbox'[u][i] = inbox[u][j]
        <5>1. PICK j \in 1 .. Len(inbox[u]) : inbox'[u][i] = inbox[u][j]
            BY <4>2
        <5>2. Proper(u, inbox[u][j])
            BY DEF Mail
        <5>3. PICK b : b = inbox[u][j]
            OBVIOUS
        <5>4. Proper(u, b)'
            BY <5>2, <5>3, ProperStays
        <5> QED BY <5>1, <5>3, <5>4 DEF Proper
      <4>3. CASE u = t
        <5>1. i \in 1 .. Len(r) /\ inbox'[u][i] = r[i] /\ Len(inbox[t]) \in Nat
            BY <3>1, <4>3, <2>2
        <5>2. CASE i <= Len(inbox[t])
            BY <2>3, <5>1, <5>2, <4>2, <4>3
        <5>3. CASE ~(i <= Len(inbox[t]))
          <6>1. i - Len(inbox[t]) \in 1 .. n
              BY <2>3, <5>1, <5>3
          <6> QED BY <2>1, <2>3, <5>1, <5>3, <6>1, <4>1, <4>3
        <5> QED BY <5>2, <5>3
      <4>4. CASE u # t
          BY <3>1, <4>2, <4>4
      <4> QED BY <4>3, <4>4
    <3> QED BY <3>1, <3>2 DEF Mail
  <2> QED BY <1>2, <2>4, <2>5 DEF Delivered, r, c
<1>3. CASE inbox' = inbox
    BY <1>1, <1>3, MailStays
<1>4. CASE inbox' = Delivered(s, t, d, 1)
    BY <1>1, <1>2, <1>4
<1>5. CASE inbox' = Delivered(s, t, d, 2)
    BY <1>1, <1>2, <1>5
<1> QED BY <1>1, <1>3, <1>4, <1>5 DEF Transmit

-----------------------------------------------------------------------------
(* The steps of the calls.                                                 *)

LEMMA Bounds ==
    ASSUME IInv
    PROVE  plan \in Plans /\ plan.faults \in Nat /\ plan.accepts \in Nat /\ plan.dials \in Nat
BY PlansAssumption DEF IInv, Types, NetTypes

\* Nothing is under way for an end without a call.
LEMMA NoCall ==
    ASSUME IInv, NEW e \in Ends, step[e] = 0, NEW n \in 1 .. 4
    PROVE  ~Sent(e, n) /\ ~Queued(e, n) /\ ~Working(e, n)
BY DEF IInv, Singles, Single

\* A call begins.
LEMMA CallKeeps ==
    ASSUME IInv, NEW e \in Ends, step[e] = 0,
           calls' = [calls EXCEPT ![e] = @ + 1],
           step' = [step EXCEPT ![e] = 1],
           sending' = [sending EXCEPT ![e] = @ \cup Event(e, 1)],
           calls'["listener"] <= plan.accepts, faults' \in 0 .. plan.faults,
           UNCHANGED <<inbox, peer, plan, slot, opens, reader, readSock, accepted, writer,
                       known, raddr, early>>
    PROVE  IInv'
<1> USE DEF IInv, Types
<1>1. \A f \in Ends : sending'[f] = IF f = e THEN sending[f] \cup Event(e, 1) ELSE sending[f]
    BY DEF CallTypes
<1>2. /\ step' \in [Ends -> 0 .. 4] /\ calls' \in [Ends -> Nat]
      /\ \A f \in Ends : /\ step'[f] = IF f = e THEN 1 ELSE step[f]
                         /\ calls'[f] = IF f = e THEN calls[f] + 1 ELSE calls[f]
    BY DEF CallTypes
<1>3. Onward
    BY DEF Onward
<1>4. NetTypes' /\ Mail'
    BY <1>3, MailStays DEF NetTypes
<1>5. CallTypes'
  <2>1. \A f \in Ends : sending'[f] \subseteq EventsOf(f)
      BY <1>1, EventFacts DEF CallTypes
  <2>2. sending' = [f \in Ends |-> sending'[f]]
      BY DEF CallTypes
  <2> QED BY <1>2, <2>1, <2>2 DEF CallTypes
<1>6. ThreadTypes'
    BY DEF ThreadTypes
<1>7. Counting'
  <2>1. \A f \in Ends : /\ opens[f] \in Nat /\ calls[f] \in Nat
                        /\ opens[f] + (IF step[f] > 0 THEN 1 ELSE 0) <= calls[f]
      BY DEF Counting, CallTypes
  <2>2. \A f \in Ends : opens'[f] + (IF step'[f] > 0 THEN 1 ELSE 0) <= calls'[f]
      BY <1>2, <2>1
  <2>3. /\ accepted \in Nat /\ step["listener"] \in 0 .. 4
        /\ accepted + (IF step["listener"] = 1 THEN 1 ELSE 0) <= calls["listener"]
      BY EndsFacts DEF Counting, ThreadTypes, CallTypes
  <2>4. accepted' + (IF step'["listener"] = 1 THEN 1 ELSE 0) <= calls'["listener"]
      BY <1>2, <2>1, <2>3, EndsFacts
  <2> QED BY <2>2, <2>4 DEF Counting
<1>8. Siting'
    BY SitingKept
<1>9. Singles'
  <2>1. \A f \in Ends, n \in 1 .. 4 : Sent(f, n)' => Sent(f, n) \/ (f = e /\ n = step'[e])
      BY <1>1, <1>2, EventFacts DEF Sent
  <2>2. \A n \in 1 .. 4 : ~Sent(e, n) /\ ~Queued(e, n)' /\ ~Working(e, n)'
      BY NoCall DEF Queued, Working
  <2>3. \A f \in Ends, n \in 1 .. 4 : (Queued(f, n)' => Queued(f, n)) /\ (Working(f, n)' => Working(f, n))
      BY DEF Queued, Working
  <2> QED BY <1>2, <2>1, <2>2, <2>3, SinglesAnswered
<1>10. Phases'
    BY <1>2, EndsFacts DEF Phases, Acquainted
<1> QED BY <1>4, <1>5, <1>6, <1>7, <1>8, <1>9, <1>10

LEMMA DialKeeps ==
    ASSUME IInv, Dial
    PROVE  IInv'
<1>1. calls'["listener"] <= plan.accepts
    BY DEF IInv, Types, CallTypes, Counting, Dial
<1>2. faults' \in 0 .. plan.faults
    BY DEF IInv, Types, NetTypes, Dial, netVars
<1> QED BY <1>1, <1>2, CallKeeps, EndsFacts DEF Dial, netVars

LEMMA AcceptKeeps ==
    ASSUME IInv, Accept
    PROVE  IInv'
<1>1. calls'["listener"] <= plan.accepts
  <2>1. calls["listener"] \in Nat /\ plan.accepts \in Nat /\ calls'["listener"] = calls["listener"] + 1
      BY Bounds, EndsFacts DEF IInv, Types, CallTypes, Accept
  <2> QED BY <2>1 DEF Accept
<1>2. faults' \in 0 .. plan.faults
    BY Bounds DEF IInv, Types, NetTypes, Accept, Fault
<1> QED BY <1>1, <1>2, CallKeeps, EndsFacts DEF Accept

\* A stray datagram tells its reader nothing.
LEMMA StrayKeeps ==
    ASSUME IInv, Stray
    PROVE  IInv'
<1> DEFINE q == inbox[Listening]
           d == Header("none", 0, 0)
           r == Append(q, d)
<1>1. UNCHANGED <<peer, sending, slot, plan, calls, step, opens, reader, readSock, accepted, writer,
                  known, raddr, early>>
    BY DEF Stray, callVars
<1>2. q \in Seq(Datagrams) /\ NetTypes /\ Mail /\ Onward
    BY <1>1, SocketFacts DEF IInv, Types, NetTypes, Onward
<1>3. d \in Datagrams /\ \A t \in Sockets : Proper(t, d)
    BY RefFacts DEF Datagrams, Header, Proper
<1>4. faults' \in 0 .. plan.faults
    BY Bounds DEF IInv, Types, NetTypes, Stray, Fault
<1> HIDE DEF d
<1>5. r \in Seq(Datagrams) /\ Len(r) = Len(q) + 1
      /\ \A i \in 1 .. Len(r) : r[i] = IF i <= Len(q) THEN q[i] ELSE d
    BY <1>2, <1>3
<1>6. inbox' \in [Sockets -> Seq(Datagrams)]
      /\ \A t \in Sockets : inbox'[t] = IF t = Listening THEN r ELSE inbox[t]
    BY <1>2, <1>5, SocketFacts DEF Stray, NetTypes, d
<1> HIDE DEF r
<1>7. ASSUME NEW t \in Sockets, NEW i \in 1 .. Len(inbox'[t])
      PROVE  Proper(t, inbox[t][i])'
  <2>1. inbox'[t][i] = d \/ \E j \in 1 .. Len(inbox[t]) : inbox'[t][i] = inbox[t][j]
      BY <1>2, <1>5, <1>6
  <2>2. PICK b : b = inbox'[t][i]
      OBVIOUS
  <2>3. Proper(t, b)
      BY <1>2, <1>3, <2>1, <2>2 DEF Mail
  <2>4. Proper(t, b)'
      BY <1>2, <2>3, ProperStays
  <2> QED BY <2>2, <2>4 DEF Proper
<1>8. NetTypes' /\ Mail'
    BY <1>1, <1>2, <1>4, <1>6, <1>7 DEF NetTypes, Mail
<1>9. CallTypes' /\ ThreadTypes'
    BY <1>1 DEF IInv, Types, CallTypes, ThreadTypes
<1>10. Counting' /\ Siting' /\ Phases'
    BY <1>1 DEF IInv, Counting, Siting, Phases, Acquainted
<1>11. Singles'
    BY <1>1 DEF IInv, Singles, Single, Sent, Queued, Working
<1> QED BY <1>8, <1>9, <1>10, <1>11 DEF IInv, Types

LEMMA CallEarlyKeeps ==
    ASSUME IInv, NEW e \in Ends, CallEarly(e)
    PROVE  IInv'
<1> USE DEF IInv, Types
<1>1. PICK call \in Calls :
        /\ early' = [early EXCEPT ![e][call[1]] = "sent"]
        /\ sending' = [sending EXCEPT ![e] = @ \cup {call}]
    BY DEF CallEarly
<1>2. UNCHANGED <<netVars, slot, callVars, reader, readSock, accepted, writer, known, raddr>>
    BY DEF CallEarly
<1>3. UNCHANGED <<inbox, peer, faults, slot, plan, calls, step, opens, reader, readSock, accepted,
                  writer, known, raddr>>
    BY <1>2 DEF netVars, callVars
<1>4. /\ sending' = [f \in Ends |-> sending'[f]]
      /\ \A f \in Ends : sending'[f] = IF f = e THEN sending[f] \cup {call} ELSE sending[f]
    BY <1>1 DEF CallTypes
<1>5. Onward
    BY <1>3 DEF Onward
<1>6. NetTypes' /\ Mail'
    BY <1>3, <1>5, MailStays DEF NetTypes
<1>7. CallTypes'
  <2>1. call \in EventsOf(e) /\ call[1] \in Directions
      BY DEF Calls, EventsOf, FlagsOf, Directions
  <2>2. \A f \in Ends : sending'[f] \subseteq EventsOf(f)
      BY <1>4, <2>1 DEF CallTypes
  <2>3. early' \in [Ends -> [Directions -> {"none", "sent", "refused", "passed"}]]
      BY <1>1, <2>1 DEF CallTypes
  <2> QED BY <1>3, <1>4, <2>2, <2>3 DEF CallTypes
<1>8. ThreadTypes'
    BY <1>3 DEF ThreadTypes
<1>9. Counting'
    BY <1>3 DEF Counting
<1>10. Siting'
    BY <1>3, SitingKept
<1>11. Singles'
  <2>1. \A f \in Ends, n \in 1 .. 4 : Sent(f, n)' => Sent(f, n)
      BY <1>4, StepsApart DEF Sent
  <2>2. \A f \in Ends, n \in 1 .. 4 : (Queued(f, n)' => Queued(f, n)) /\ (Working(f, n)' => Working(f, n))
      BY <1>3 DEF Queued, Working
  <2> QED BY <1>3, <2>1, <2>2, SinglesMoved
<1>12. Phases'
    BY <1>3 DEF Phases, Acquainted
<1> QED BY <1>6, <1>7, <1>8, <1>9, <1>10, <1>11, <1>12

LEMMA EnterKeeps ==
    ASSUME IInv, NEW e \in Ends, Enter(e)
    PROVE  IInv'
<1> USE DEF IInv, Types
<1>1. PICK ev \in sending[e] :
        /\ slot[e][ev[1]] = <<>>
        /\ slot' = [slot EXCEPT ![e][ev[1]] = <<ev[2]>>]
        /\ sending' = [sending EXCEPT ![e] = @ \ {ev}]
    BY DEF Enter
<1>2. UNCHANGED <<netVars, callVars, reader, readSock, accepted, writer, known, raddr, early>>
    BY DEF Enter
<1>3. UNCHANGED <<inbox, peer, faults, plan, calls, step, opens, reader, readSock, accepted,
                  writer, known, raddr, early>>
    BY <1>2 DEF netVars, callVars
<1>4. /\ sending' = [f \in Ends |-> sending'[f]]
      /\ \A f \in Ends : sending'[f] = IF f = e THEN sending[f] \ {ev} ELSE sending[f]
    BY <1>1 DEF CallTypes
<1>5. ev \in EventsOf(e)
    BY <1>1 DEF CallTypes
<1>6. ev = <<ev[1], ev[2]>> /\ ev[1] \in Directions /\ ev[2] \in FlagsOf(e, ev[1])
    BY <1>5 DEF EventsOf, Directions
<1>7. PICK m \in Directions : \E x \in FlagsOf(e, m) : m = ev[1] /\ x = ev[2]
    BY <1>6
<1>8. PICK x \in FlagsOf(e, m) : m = ev[1] /\ x = ev[2]
    BY <1>7
<1>9. /\ slot' = [f \in Ends |-> [l \in Directions |-> slot'[f][l]]]
      /\ \A f \in Ends, l \in Directions : slot'[f][l] = IF f = e /\ l = m THEN <<x>> ELSE slot[f][l]
  <2>1. slot' = [slot EXCEPT ![e][m] = <<x>>]
      BY <1>1, <1>8
  <2> QED BY <2>1 DEF CallTypes
<1>10. Onward
    BY <1>3 DEF Onward
<1>11. NetTypes' /\ Mail'
    BY <1>3, <1>10, MailStays DEF NetTypes
<1>12. CallTypes'
  <2>1. \A f \in Ends : sending'[f] \subseteq EventsOf(f)
      BY <1>4 DEF CallTypes
  <2>2. \A f \in Ends, l \in Directions : slot'[f][l] \in SlotsOf(f, l)
      BY <1>9 DEF CallTypes, SlotsOf
  <2> QED BY <1>3, <1>4, <1>9, <2>1, <2>2 DEF CallTypes
<1>13. ThreadTypes'
    BY <1>3 DEF ThreadTypes
<1>14. Counting'
    BY <1>3 DEF Counting
<1>15. Siting'
    BY <1>3, SitingKept
<1>16. Singles'
  <2>1. \A f \in Ends, n \in 1 .. 4 : Sent(f, n)' => Sent(f, n)
      BY <1>4 DEF Sent
  <2>2. \A f \in Ends, n \in 1 .. 4 : Working(f, n)' => Working(f, n)
      BY <1>3 DEF Working
  <2>3. ASSUME NEW f \in Ends, NEW n \in 1 .. 4, Queued(f, n)', ~Queued(f, n)
        PROVE  Sent(f, n) /\ ~Sent(f, n)'
    <3>1. PICK l \in Directions : \E y \in FlagsOf(f, l) : Steps(f)[n] = <<l, y>>
        BY StepsApart
    <3>2. PICK y \in FlagsOf(f, l) : Steps(f)[n] = <<l, y>>
        BY <3>1
    <3>3. slot'[f][l] = <<y>> /\ slot[f][l] # <<y>>
        BY <2>3, <3>2 DEF Queued
    <3>4. f = e /\ l = m /\ <<y>> = <<x>>
        BY <1>9, <3>3
    <3>5. Steps(f)[n] = ev
        BY <1>6, <1>8, <3>2, <3>4
    <3> QED BY <1>1, <1>4, <3>4, <3>5 DEF Sent
  <2> QED BY <1>3, <2>1, <2>2, <2>3, SinglesMoved
<1>17. Phases'
    BY <1>3 DEF Phases, Acquainted
<1> QED BY <1>11, <1>12, <1>13, <1>14, <1>15, <1>16, <1>17

-----------------------------------------------------------------------------
(* What the steps of the goroutines have in common.                        *)

LEMMA WorkingFacts ==
    ASSUME Singles, NEW e \in Ends, NEW n \in 1 .. 4, Working(e, n)
    PROVE  /\ step[e] = n
           /\ \A k \in 1 .. 4 : ~Sent(e, k) /\ ~Queued(e, k) /\ (k # n => ~Working(e, k))
BY DEF Singles, Single

LEMMA ReadSockFacts ==
    ASSUME IInv
    PROVE  /\ readSock \in Sockets /\ readSock # Dialing
           /\ readSock = accepted + 1 /\ accepted \in Nat
           /\ accepted > 0 => readSock \in Accepted
           /\ 2 .. accepted + 1 \subseteq Accepted
<1>1. /\ accepted \in Nat /\ readSock = accepted + 1
      /\ accepted <= plan.accepts /\ plan.accepts \in Nat /\ plan \in Plans
  <2>1. accepted \in Nat /\ readSock = accepted + 1
      BY DEF IInv, Types, ThreadTypes, Listening
  <2>2. accepted + (IF step["listener"] = 1 THEN 1 ELSE 0) <= calls["listener"]
        /\ calls["listener"] <= plan.accepts /\ calls["listener"] \in Nat
      BY EndsFacts DEF IInv, Counting, Types, CallTypes
  <2> QED BY <2>1, <2>2, Bounds
<1>2. \A n \in 2 .. accepted + 1 : n \in Accepted
  <2> TAKE n \in 2 .. accepted + 1
  <2>1. n - 2 \in Nat /\ n - 2 < plan.accepts /\ (n - 2) + 2 = n
      BY <1>1
  <2> QED BY <1>1, <2>1, AcceptedFacts
<1>3. accepted > 0 => readSock \in 2 .. accepted + 1
    BY <1>1
<1> QED BY <1>1, <1>2, <1>3, SocketFacts

SlotKept == slot' = slot \/ \E f \in Ends, m \in Directions : slot' = Emptied(f, m)
EarlyKept ==
    \/ early' = early
    \/ \E f \in Ends, m \in Directions, x \in {"refused", "passed"} : early' = [early EXCEPT ![f][m] = x]

LEMMA SlotAndEarly ==
    ASSUME CallTypes, SlotKept, EarlyKept
    PROVE  /\ slot' = [f \in Ends |-> [l \in Directions |-> slot'[f][l]]]
           /\ \A f \in Ends, l \in Directions : slot'[f][l] \in SlotsOf(f, l)
           /\ \A f \in Ends, n \in 1 .. 4 : Queued(f, n)' => Queued(f, n)
           /\ early' \in [Ends -> [Directions -> {"none", "sent", "refused", "passed"}]]
<1>1. early' \in [Ends -> [Directions -> {"none", "sent", "refused", "passed"}]]
  <2>1. CASE early' = early
      BY <2>1 DEF CallTypes
  <2>2. ASSUME NEW f \in Ends, NEW m \in Directions, NEW x \in {"refused", "passed"},
               early' = [early EXCEPT ![f][m] = x]
        PROVE  early' \in [Ends -> [Directions -> {"none", "sent", "refused", "passed"}]]
      BY <2>2 DEF CallTypes
  <2> QED BY <2>1, <2>2 DEF EarlyKept
<1>2. CASE slot' = slot
    BY <1>1, <1>2 DEF CallTypes, Queued
<1>3. ASSUME NEW f \in Ends, NEW m \in Directions, slot' = Emptied(f, m)
      PROVE  /\ slot' = [g \in Ends |-> [l \in Directions |-> slot'[g][l]]]
             /\ \A g \in Ends, l \in Directions : slot'[g][l] \in SlotsOf(g, l)
             /\ \A g \in Ends, n \in 1 .. 4 : Queued(g, n)' => Queued(g, n)
    BY <1>3, EmptiedFacts
<1> QED BY <1>1, <1>2, <1>3 DEF SlotKept

\* A step that answers the call of end e, of which nothing is left.
LEMMA AnsweredKeeps ==
    ASSUME IInv, NEW e \in Ends, NEW ok \in BOOLEAN, step[e] \in 1 .. 4, Answer(e, ok),
           SlotKept, EarlyKept,
           accepted' = accepted \/ (accepted' = accepted + 1 /\ e = "listener" /\ step[e] = 1),
           \A n \in 1 .. 4 : ~Sent(e, n) /\ ~Queued(e, n)' /\ ~Working(e, n)',
           \A f \in Ends \ {e}, n \in 1 .. 4 : Working(f, n)' => Working(f, n)
    PROVE  CallTypes' /\ Counting' /\ Singles'
<1>0. CallTypes /\ Counting /\ Singles
    BY DEF IInv, Types
<1>1. CallTypes'
    BY <1>0, AnswerFacts, SlotAndEarly DEF CallTypes
<1>2. Counting'
  <2>1. /\ calls' = calls /\ plan' = plan
        /\ \A f \in Ends : opens'[f] + (IF step'[f] > 0 THEN 1 ELSE 0) <= calls'[f]
        /\ step'[e] = (IF ok /\ step[e] < 4 THEN step[e] + 1 ELSE 0)
        /\ \A f \in Ends \ {e} : step'[f] = step[f]
      BY <1>0, AnswerFacts
  <2>2. /\ accepted \in Nat /\ calls["listener"] \in Nat
        /\ accepted + (IF step["listener"] = 1 THEN 1 ELSE 0) <= calls["listener"]
        /\ calls["listener"] <= plan.accepts
      BY EndsFacts DEF IInv, Types, CallTypes, ThreadTypes, Counting
  <2>3. accepted' + (IF step'["listener"] = 1 THEN 1 ELSE 0) <= calls'["listener"]
    <3>1. CASE e = "listener"
        BY <2>1, <2>2, <3>1
    <3>2. CASE e # "listener"
        BY <2>1, <2>2, <3>2, EndsFacts
    <3> QED BY <3>1, <3>2
  <2> QED BY <2>1, <2>2, <2>3 DEF Counting
<1>3. Singles'
    BY <1>0, AnswerFacts, SlotAndEarly, SinglesAnswered
<1> QED BY <1>1, <1>2, <1>3

\* A step that answers no call.
LEMMA UnansweredKeeps ==
    ASSUME IInv, NoAnswer, SlotKept, EarlyKept, accepted' = accepted,
           \A f \in Ends, n \in 1 .. 4 :
             Working(f, n)' => Working(f, n) \/ (Queued(f, n) /\ ~Queued(f, n)')
    PROVE  CallTypes' /\ Counting' /\ Singles'
<1>0. CallTypes /\ Counting /\ Singles
    BY DEF IInv, Types
<1>1. UNCHANGED <<sending, plan, calls, step, opens>>
    BY DEF NoAnswer, callVars
<1>2. CallTypes'
    BY <1>0, <1>1, SlotAndEarly DEF CallTypes
<1>3. Counting'
    BY <1>0, <1>1 DEF Counting
<1>4. \A f \in Ends, n \in 1 .. 4 : Sent(f, n)' => Sent(f, n)
    BY <1>1 DEF Sent
<1>5. Singles'
    BY <1>0, <1>1, <1>4, SlotAndEarly, SinglesMoved
<1> QED BY <1>2, <1>3, <1>5

LEMMA NetStays ==
    ASSUME IInv, Onward, UNCHANGED <<inbox, plan>>, faults' \in 0 .. plan.faults,
           peer' \in [Sockets -> SUBSET Sockets]
    PROVE  NetTypes' /\ Mail'
BY MailStays DEF IInv, Types, NetTypes

LEMMA NetTaken ==
    ASSUME IInv, Onward, NEW s \in Sockets, inbox[s] # <<>>,
           inbox' = [inbox EXCEPT ![s] = Tail(@)], UNCHANGED <<plan, faults, peer>>
    PROVE  NetTypes' /\ Mail'
<1>1. inbox[s] \in Seq(Datagrams) /\ inbox' = [inbox EXCEPT ![s] = Tail(inbox[s])]
    BY DEF IInv, Types, NetTypes
<1>2. inbox' \in [Sockets -> Seq(Datagrams)] /\ Mail'
    BY <1>1, HeadFacts, MailLess DEF IInv, Types
<1> QED BY <1>2 DEF IInv, Types, NetTypes

LEMMA NetRead ==
    ASSUME IInv, Onward, NEW e \in Ends, ReadStep(e), plan' = plan
    PROVE  NetTypes' /\ Mail'
<1> DEFINE s == SockOf(e)
<1>1. s \in Sockets
    BY ReadSockFacts, SocketFacts DEF SockOf
<1> HIDE DEF s
<1>2. inbox[s] \in Seq(Datagrams) /\ inbox' = [inbox EXCEPT ![s] = AfterHeader(inbox[s])]
    BY <1>1 DEF IInv, Types, NetTypes, ReadStep, s
<1>3. inbox' \in [Sockets -> Seq(Datagrams)] /\ Mail'
    BY <1>1, <1>2, AfterHeaderFacts, MailLess DEF IInv, Types
<1>4. faults' \in 0 .. plan.faults
    BY Bounds DEF IInv, Types, NetTypes, ReadStep, Readable, Fault
<1> QED BY <1>3, <1>4 DEF IInv, Types, NetTypes, ReadStep

LEMMA NetSent ==
    ASSUME IInv, Onward, NEW s \in Sockets, NEW t \in Sockets, NEW d \in Datagrams,
           Transmit(s, t, d), Proper(t, d)', plan' = plan, peer' \in [Sockets -> SUBSET Sockets]
    PROVE  NetTypes' /\ Mail'
BY MailMore DEF IInv, Types, NetTypes

\* A datagram in an inbox tells its reader the truth.
LEMMA Told ==
    ASSUME IInv, NEW s \in Sockets
    PROVE  /\ inbox[s] \in Seq(Datagrams)
           /\ inbox[s] # <<>> => /\ Head(inbox[s]) \in Datagrams
                                 /\ Proper(s, Head(inbox[s]))
           /\ \A d \in Headers(inbox[s]) : /\ d \in Datagrams /\ Proper(s, d)
                                           /\ d.refs[1] \in Refs /\ d.refs[2] \in Refs
<1>1. inbox[s] \in Seq(Datagrams)
    BY DEF IInv, Types, NetTypes
<1>2. inbox[s] # <<>> => /\ Head(inbox[s]) \in Datagrams
                         /\ Proper(s, Head(inbox[s]))
    BY <1>1, HeadFacts DEF IInv, Mail
<1>3. \A d \in Headers(inbox[s]) : /\ d \in Datagrams /\ Proper(s, d)
                                   /\ d.refs[1] \in Refs /\ d.refs[2] \in Refs
    BY <1>1, HeadersFacts DEF IInv, Mail
<1> QED BY <1>1, <1>2, <1>3

-----------------------------------------------------------------------------
(* The steps of hdpRead1.                                                  *)

\* What is changed by an event that is taken by the reader and not answered.
LEMMA ReadTakenKeeps ==
    ASSUME IInv, NEW e \in Ends, NEW x \in ReaderStates(e),
           slot' = Emptied(e, "R"), reader' = [reader EXCEPT ![e] = x], EarlyKept, NoAnswer,
           UNCHANGED <<inbox, peer, faults, readSock, accepted, writer, known, raddr>>,
           \A n \in 1 .. 4 : Working(e, n)' => Working(e, n) \/ (Queued(e, n) /\ ~Queued(e, n)')
    PROVE  IInv'
<1>1. UNCHANGED <<sending, plan, calls, step, opens>>
    BY DEF NoAnswer, callVars
<1>2. Onward
    BY <1>1 DEF Onward
<1>3. NetTypes' /\ Mail'
    BY <1>1, <1>2, NetStays DEF IInv, Types, NetTypes
<1>4. ThreadTypes'
    BY DEF IInv, Types, ThreadTypes
<1>5. SlotKept
    BY DEF SlotKept, Directions
<1>6. \A f \in Ends \ {e}, n \in 1 .. 4 : Working(f, n)' => Working(f, n)
    BY DEF Working, IInv, Types, ThreadTypes
<1>7. CallTypes' /\ Counting' /\ Singles'
    BY <1>5, <1>6, UnansweredKeeps
<1>8. Siting'
    BY SitingKept DEF IInv
<1>9. Phases'
    BY <1>1 DEF IInv, Phases, Acquainted
<1> QED BY <1>3, <1>4, <1>7, <1>8, <1>9 DEF IInv, Types

\* The first event of Accept: a greeting is read or there is none.
LEMMA OnAcceptKeeps ==
    ASSUME IInv, slot["listener"]["R"] # <<>>, Head(slot["listener"]["R"]) = "ACCEPT",
           slot' = Emptied("listener", "R"), OnAccept,
           UNCHANGED <<reader, early, peer, faults, known, raddr>>
    PROVE  IInv'
<1> DEFINE e == "listener"
           q == inbox[readSock]
<1>1. /\ step[e] = 1
      /\ \A n \in 1 .. 4 : ~Sent(e, n) /\ ~Working(e, n) /\ ~Queued(e, n)'
    BY TakenFacts, StepsFacts, EndsFacts DEF IInv, Types, Directions
<1>2. SlotKept /\ EarlyKept
    BY EndsFacts DEF SlotKept, EarlyKept, Directions
<1>3. PICK ok \in BOOLEAN :
        /\ Answer(e, ok)
        /\ \/ ~ok /\ UNCHANGED <<inbox, accepted, readSock, writer>>
           \/ /\ q # <<>> /\ inbox' = [inbox EXCEPT ![readSock] = Tail(q)]
              /\ NewAcceptConn /\ (ok <=> Head(q).kind = "CONNECT")
    BY DEF OnAccept, Greeted
<1>4. /\ plan' = plan /\ step'[e] = (IF ok THEN 2 ELSE 0)
      /\ opens'["listener"] = opens["listener"] /\ opens'["dialer"] = opens["dialer"]
    BY <1>1, <1>3, AnswerFacts, EndsFacts DEF IInv, Types
<1>5. Onward
    BY <1>4 DEF Onward
<1>6. /\ readSock \in Sockets /\ readSock = accepted + 1 /\ accepted \in Nat
      /\ inbox' = [inbox EXCEPT ![readSock] = Tail(@)] \/ inbox' = inbox
    BY <1>3, ReadSockFacts
<1>7. NetTypes' /\ Mail'
    BY <1>3, <1>4, <1>5, <1>6, NetStays, NetTaken DEF IInv, Types, NetTypes
<1>8. CASE ~ok /\ UNCHANGED <<inbox, accepted, readSock, writer>>
  <2>1. \A f \in Ends, n \in 1 .. 4 : Working(f, n)' => Working(f, n)
      BY <1>8 DEF Working
  <2>2. CallTypes' /\ Counting' /\ Singles'
      BY <1>1, <1>2, <1>3, <1>8, <2>1, AnsweredKeeps, EndsFacts
  <2>3. ThreadTypes'
      BY <1>8 DEF IInv, Types, ThreadTypes
  <2>4. Siting'
      BY <1>8, SitingKept DEF IInv
  <2>5. Phases'
      BY <1>4, <1>8 DEF IInv, Phases, Acquainted
  <2> QED BY <1>7, <2>2, <2>3, <2>4, <2>5 DEF IInv, Types
<1>9. CASE q # <<>> /\ NewAcceptConn /\ (ok <=> Head(q).kind = "CONNECT")
  <2>1. accepted + 2 \in Accepted /\ accepted + 2 \in Sockets
    <3>1. accepted < plan.accepts
        BY <1>1, Bounds, EndsFacts DEF IInv, Types, CallTypes, ThreadTypes, Counting
    <3> QED BY <1>6, <3>1, AcceptedFacts, SocketFacts, Bounds
  <2>2. /\ accepted' = accepted + 1 /\ readSock' = accepted + 2
        /\ writer' = [writer EXCEPT ![accepted + 2] = "idle"]
      BY <1>6, <1>9 DEF NewAcceptConn, Listening
  <2>3. /\ writer' \in [Sockets -> WriterStates]
        /\ \A s \in Sockets : writer'[s] = IF s = accepted + 2 THEN "idle" ELSE writer[s]
      BY <2>1, <2>2 DEF IInv, Types, ThreadTypes, WriterStates
  <2>4. \A s \in Sockets : writer'[s] \in Sending => writer[s] \in Sending
      BY <2>3 DEF Sending
  <2>5. \A f \in Ends, n \in 1 .. 4 : Working(f, n)' => Working(f, n)
      BY <2>4, SocketFacts DEF Working
  <2>6. CallTypes' /\ Counting' /\ Singles'
      BY <1>1, <1>2, <1>3, <2>2, <2>5, AnsweredKeeps, EndsFacts
  <2>7. ThreadTypes'
      BY <1>6, <2>2, <2>3 DEF IInv, Types, ThreadTypes, Listening
  <2>8. Siting'
    <3>1. \A s \in Sockets : writer'[s] # "none" <=> s = Dialing \/ s \in 2 .. accepted' + 1
      <4> TAKE s \in Sockets
      <4>1. writer[s] # "none" <=> s = Dialing \/ s \in 2 .. accepted + 1
          BY DEF IInv, Siting
      <4>2. s \in 2 .. accepted' + 1 <=> s = accepted + 2 \/ s \in 2 .. accepted + 1
          BY <1>6, <2>2, SocketFacts
      <4>3. writer'[s] # "none" <=> s = accepted + 2 \/ writer[s] # "none"
          BY <2>3
      <4> QED BY <4>1, <4>2, <4>3
    <3>2. writer'[Dialing] \notin Sending
        BY <2>4, SocketFacts DEF IInv, Siting
    <3> QED BY <2>4, <3>1, <3>2, SocketFacts DEF IInv, Siting
  <2>9. Phases'
    <3>1. CASE ok
      <4>1. Head(q).kind = "CONNECT" /\ Proper(readSock, Head(q))
          BY <1>6, <1>9, <3>1, Told
      <4>2. readSock = Listening
          BY <4>1 DEF Proper
      <4>3. accepted = 0 /\ opens["listener"] = 0
        <5>1. accepted = 0
            BY <1>6, <4>2 DEF Listening
        <5>2. ~(opens["listener"] > 0) /\ opens["listener"] \in Nat
            BY <5>1, EndsFacts DEF IInv, Phases, Types, CallTypes
        <5> QED BY <5>1, <5>2
      <4> QED BY <1>4, <2>2, <3>1, <4>3 DEF IInv, Phases, Acquainted
    <3>2. CASE ~ok
        BY <1>4, <1>6, <2>2, <3>2 DEF IInv, Phases, Acquainted
    <3> QED BY <3>1, <3>2
  <2> QED BY <1>7, <2>6, <2>7, <2>8, <2>9 DEF IInv, Types
<1> QED BY <1>3, <1>8, <1>9

LEMMA TakeReadKeeps ==
    ASSUME IInv, NEW e \in Ends, TakeRead(e)
    PROVE  IInv'
<1> DEFINE flag == Head(slot[e]["R"])
<1>1. /\ reader[e] \in {"idle", "data"} /\ slot[e]["R"] # <<>> /\ slot' = Emptied(e, "R")
      /\ UNCHANGED <<peer, faults, known, raddr>>
    BY DEF TakeRead
<1>2. /\ reader = [f \in Ends |-> reader[f]] /\ reader[e] \in ReaderStates(e)
      /\ CallTypes /\ Singles
    BY DEF IInv, Types, ThreadTypes
<1>3. flag \in FlagsOf(e, "R")
    BY <1>1, <1>2, SlotFacts DEF CallTypes, Directions
<1>4. CASE reader[e] = "idle" /\ flag = "ACCEPT" /\ OnAccept /\ UNCHANGED <<reader, early>>
  <2>1. e = "listener"
      BY <1>3, <1>4, EndsFacts DEF FlagsOf
  <2> QED BY <1>1, <1>4, <2>1, OnAcceptKeeps
<1>5. CASE /\ reader[e] = "idle" /\ flag \in {"CONNECT_ACK", "ACCEPT_ACK", "CONNECTED"}
           /\ reader' = [reader EXCEPT ![e] = flag]
           /\ NoAnswer /\ UNCHANGED <<inbox, readSock, accepted, writer, early>>
  <2>1. PICK n \in 1 .. 4 : /\ Steps(e)[n] = <<"R", flag>>
                            /\ \A k \in 1 .. 4 : Working(e, k)' => k = n \/ Working(e, k)
                            /\ flag \in ReaderStates(e)
    <3>1. CASE e = "dialer"
      <4>1. flag = "CONNECT_ACK" \/ flag = "CONNECTED"
          BY <1>3, <1>5, <3>1 DEF FlagsOf
      <4>2. flag \in ReaderStates(e)
          BY <3>1, <4>1 DEF ReaderStates
      <4>3. reader'[e] = flag
          BY <1>2, <1>5
      <4>4. CASE flag = "CONNECT_ACK"
          BY <1>5, <3>1, <4>2, <4>3, <4>4, StepsFacts DEF Working
      <4>5. CASE flag = "CONNECTED"
          BY <1>5, <3>1, <4>2, <4>3, <4>5, StepsFacts DEF Working
      <4> QED BY <4>1, <4>4, <4>5
    <3>2. CASE e = "listener"
      <4>1. flag = "ACCEPT_ACK"
          BY <1>3, <1>5, <3>2 DEF FlagsOf
      <4>2. flag \in ReaderStates(e)
          BY <3>2, <4>1 DEF ReaderStates
      <4>3. reader'[e] = flag
          BY <1>2, <1>5
      <4> QED BY <1>5, <3>2, <4>1, <4>2, <4>3, StepsFacts DEF Working
    <3> QED BY <3>1, <3>2, EndsFacts
  <2>2. Queued(e, n) /\ ~Queued(e, n)'
      BY <1>1, <1>2, <2>1, TakenFacts DEF Directions
  <2>3. EarlyKept
      BY <1>5 DEF EarlyKept
  <2> QED BY <1>1, <1>5, <2>1, <2>2, <2>3, ReadTakenKeeps
<1>6. CASE /\ reader[e] = "idle" /\ flag = "OPEN1"
           /\ reader' = [reader EXCEPT ![e] = "data"]
           /\ NoAnswer /\ UNCHANGED <<inbox, readSock, accepted, writer, early>>
  <2>1. "data" \in ReaderStates(e)
      BY DEF ReaderStates
  <2>2. reader'[e] = "data"
      BY <1>2, <1>6
  <2>3. \A n \in 1 .. 4 : Working(e, n)' => Working(e, n)
      BY <1>6, <2>2 DEF Working
  <2>4. EarlyKept
      BY <1>6 DEF EarlyKept
  <2> QED BY <1>1, <1>6, <2>1, <2>3, <2>4, ReadTakenKeeps
<1>7. CASE /\ early' = early \/ \E x \in {"refused", "passed"} : early' = [early EXCEPT ![e]["R"] = x]
           /\ NoAnswer /\ UNCHANGED <<inbox, reader, readSock, accepted, writer>>
  <2>1. EarlyKept
      BY <1>7 DEF EarlyKept, Directions
  <2>2. \A n \in 1 .. 4 : Working(e, n)' => Working(e, n)
      BY <1>7 DEF Working
  <2>3. reader' = [reader EXCEPT ![e] = reader[e]]
      BY <1>2, <1>7
  <2> QED BY <1>1, <1>2, <1>7, <2>1, <2>2, <2>3, ReadTakenKeeps
<1> QED BY <1>4, <1>5, <1>6, <1>7 DEF TakeRead

\* What the reader is working on.
LEMMA ReadingFacts ==
    ASSUME IInv, NEW e \in Ends, reader[e] \notin {"idle", "data"}
    PROVE  /\ reader = [f \in Ends |-> reader[f]]
           /\ \E n \in 2 .. 4 : Working(e, n)
           /\ step[e] \in 2 .. 4
           /\ \A k \in 1 .. 4 : ~Sent(e, k) /\ ~Queued(e, k)
           /\ reader[e] \in {"CONNECT_ACK", "size", "address"} => step[e] = 2
           /\ reader[e] = "ACCEPT_ACK" => step[e] = 3
           /\ reader[e] = "CONNECTED" => step[e] = 4
           /\ step[e] # 2 => \A s \in Accepted : e = "listener" => writer[s] \notin Sending
<1>1. reader = [f \in Ends |-> reader[f]] /\ reader[e] \in ReaderStates(e)
    BY DEF IInv, Types, ThreadTypes
<1>2. reader[e] \in {"CONNECT_ACK", "size", "address", "ACCEPT_ACK", "CONNECTED"}
    BY <1>1 DEF ReaderStates
<1>3. PICK n \in 2 .. 4 : Working(e, n)
    BY <1>2 DEF Working
<1>4. step[e] = n /\ \A k \in 1 .. 4 : ~Sent(e, k) /\ ~Queued(e, k) /\ (k # n => ~Working(e, k))
    BY <1>3, WorkingFacts DEF IInv
<1>5. step[e] = 2 \/ ~Working(e, 2)
    BY <1>4
<1>6. /\ reader[e] \in {"CONNECT_ACK", "size", "address"} => step[e] = 2
      /\ reader[e] = "ACCEPT_ACK" => step[e] = 3
      /\ reader[e] = "CONNECTED" => step[e] = 4
  <2>1. \A k \in 1 .. 4 : Working(e, k) => step[e] = k
      BY DEF IInv, Singles, Single
  <2> QED BY <2>1 DEF Working
<1> QED BY <1>1, <1>3, <1>4, <1>5, <1>6 DEF Working

\* The reader answers and is idle again.
LEMMA EndingKeeps ==
    ASSUME IInv, NEW e \in Ends, NEW ok \in BOOLEAN, reader[e] \notin {"idle", "data"},
           ~(e = "listener" /\ step[e] = 2),
           Ending(e, ok), UNCHANGED <<slot, early, accepted, writer>>
    PROVE  /\ CallTypes' /\ Counting' /\ Singles' /\ plan' = plan
           /\ reader' = [f \in Ends |-> reader'[f]] /\ \A f \in Ends : reader'[f] \in ReaderStates(f)
           /\ step'[e] = (IF ok /\ step[e] < 4 THEN step[e] + 1 ELSE 0)
           /\ opens'[e] = (IF ok /\ step[e] = 4 THEN opens[e] + 1 ELSE opens[e])
           /\ \A f \in Ends \ {e} : step'[f] = step[f] /\ opens'[f] = opens[f]
<1>1. /\ step[e] \in 2 .. 4
      /\ \A k \in 1 .. 4 : ~Sent(e, k) /\ ~Queued(e, k)
      /\ \A s \in Accepted : e = "listener" => writer[s] \notin Sending
      /\ reader = [f \in Ends |-> reader[f]] /\ \A f \in Ends : reader[f] \in ReaderStates(f)
  <2>1. \A f \in Ends : reader[f] \in ReaderStates(f)
      BY DEF IInv, Types, ThreadTypes
  <2> QED BY <2>1, ReadingFacts
<1>2. Answer(e, ok) /\ reader' = [reader EXCEPT ![e] = "idle"]
    BY DEF Ending
<1>3. \A f \in Ends : reader'[f] = IF f = e THEN "idle" ELSE reader[f]
    BY <1>1, <1>2
<1>4. /\ reader' = [f \in Ends |-> reader'[f]]
      /\ \A f \in Ends : reader'[f] \in ReaderStates(f)
    BY <1>1, <1>2, <1>3 DEF ReaderStates
<1>5. \A n \in 1 .. 4 : ~Queued(e, n)' /\ ~Working(e, n)'
    BY <1>1, <1>3 DEF Queued, Working
<1>6. \A f \in Ends \ {e}, n \in 1 .. 4 : Working(f, n)' => Working(f, n)
    BY <1>3 DEF Working
<1>7. SlotKept /\ EarlyKept
    BY DEF SlotKept, EarlyKept
<1>8. CallTypes' /\ Counting' /\ Singles'
    BY <1>1, <1>2, <1>5, <1>6, <1>7, AnsweredKeeps
<1>9. /\ plan' = plan
      /\ step'[e] = (IF ok /\ step[e] < 4 THEN step[e] + 1 ELSE 0)
      /\ opens'[e] = (IF ok /\ step[e] = 4 THEN opens[e] + 1 ELSE opens[e])
      /\ \A f \in Ends \ {e} : step'[f] = step[f] /\ opens'[f] = opens[f]
    BY <1>1, <1>2, AnswerFacts DEF IInv, Types
<1> QED BY <1>4, <1>8, <1>9

\* The reader goes on to another wait of the second step.
LEMMA ReadingOn ==
    ASSUME IInv, reader["dialer"] \in {"CONNECT_ACK", "size"}, NEW x \in {"size", "address"},
           reader' = [reader EXCEPT !["dialer"] = x], NoAnswer, UNCHANGED <<slot, early, accepted, writer>>
    PROVE  /\ CallTypes' /\ Counting' /\ Singles'
           /\ UNCHANGED <<sending, plan, calls, step, opens>>
           /\ reader' = [f \in Ends |-> reader'[f]] /\ \A f \in Ends : reader'[f] \in ReaderStates(f)
<1>1. reader = [f \in Ends |-> reader[f]] /\ \A f \in Ends : reader[f] \in ReaderStates(f)
    BY DEF IInv, Types, ThreadTypes
<1>2. \A f \in Ends : reader'[f] = IF f = "dialer" THEN x ELSE reader[f]
    BY <1>1
<1>3. reader' = [f \in Ends |-> reader'[f]] /\ \A f \in Ends : reader'[f] \in ReaderStates(f)
    BY <1>1, <1>2 DEF ReaderStates
<1>4. \A f \in Ends, n \in 1 .. 4 : Working(f, n)' => Working(f, n)
    BY <1>2, EndsFacts DEF Working
<1>5. SlotKept /\ EarlyKept
    BY DEF SlotKept, EarlyKept
<1> QED BY <1>3, <1>4, <1>5, UnansweredKeeps DEF NoAnswer, callVars

LEMMA OnConnectAcknowKeeps ==
    ASSUME IInv, OnConnectAcknow
    PROVE  IInv'
<1> DEFINE right == {d \in Headers(inbox[Dialing]) : d.kind = "CONNECT_ACK"}
<1>1. /\ reader["dialer"] = "CONNECT_ACK" /\ ReadStep("dialer")
      /\ UNCHANGED <<peer, slot, readSock, accepted, writer, raddr, early>>
    BY DEF OnConnectAcknow, ReadStep
<1>2. CASE Ending("dialer", FALSE) /\ UNCHANGED known
  <2>1. /\ CallTypes' /\ Counting' /\ Singles' /\ plan' = plan
        /\ reader' = [f \in Ends |-> reader'[f]] /\ \A f \in Ends : reader'[f] \in ReaderStates(f)
        /\ opens'["dialer"] = opens["dialer"]
        /\ step'["listener"] = step["listener"] /\ opens'["listener"] = opens["listener"]
      BY <1>1, <1>2, EndingKeeps, EndsFacts
  <2>2. Onward
      BY <1>2, <2>1 DEF Onward
  <2>3. NetTypes' /\ Mail'
      BY <1>1, <2>1, <2>2, NetRead, EndsFacts
  <2>4. ThreadTypes'
      BY <1>1, <1>2, <2>1 DEF IInv, Types, ThreadTypes
  <2>5. Siting'
      BY <1>1, SitingKept DEF IInv
  <2>6. Phases'
      BY <1>1, <1>2, <2>1 DEF IInv, Phases, Acquainted
  <2> QED BY <2>1, <2>3, <2>4, <2>5, <2>6 DEF IInv, Types
<1>3. ASSUME NEW d \in right,
             known' = [known EXCEPT !["dialer"] = d.refs[1]],
             reader' = [reader EXCEPT !["dialer"] = "size"], NoAnswer
      PROVE  IInv'
  <2>1. /\ CallTypes' /\ Counting' /\ Singles'
        /\ UNCHANGED <<sending, plan, calls, step, opens>>
        /\ reader' = [f \in Ends |-> reader'[f]] /\ \A f \in Ends : reader'[f] \in ReaderStates(f)
      BY <1>1, <1>3, ReadingOn
  <2>2. d.refs[1] = RefNum["listener"]
    <3>1. Proper(Dialing, d) /\ d.kind = "CONNECT_ACK"
        BY Told, SocketFacts
    <3> QED BY <3>1 DEF Proper
  <2>3. /\ known' \in [Ends -> Refs] /\ known'["dialer"] = RefNum["listener"]
        /\ known'["listener"] = known["listener"]
      BY <1>3, <2>2, RefFacts, EndsFacts DEF IInv, Types, ThreadTypes
  <2>4. Onward
      BY <2>1, <2>3 DEF Onward
  <2>5. NetTypes' /\ Mail'
      BY <1>1, <2>1, <2>4, NetRead, EndsFacts
  <2>6. ThreadTypes'
      BY <1>1, <2>1, <2>3 DEF IInv, Types, ThreadTypes
  <2>7. Siting'
      BY <1>1, SitingKept DEF IInv
  <2>8. Phases'
      BY <1>1, <2>1, <2>3 DEF IInv, Phases, Acquainted
  <2> QED BY <2>1, <2>5, <2>6, <2>7, <2>8 DEF IInv, Types
<1> QED BY <1>2, <1>3 DEF OnConnectAcknow

\* ReadSize and ReadAddress, which change no number.
LEMMA DialerPartKeeps ==
    ASSUME IInv, reader["dialer"] \in {"size", "address"},
           \/ inbox' = inbox
           \/ inbox[Dialing] # <<>> /\ inbox' = [inbox EXCEPT ![Dialing] = Tail(@)],
           \/ \E ok \in BOOLEAN : Ending("dialer", ok)
           \/ /\ reader["dialer"] = "size" /\ NoAnswer
              /\ reader' = [reader EXCEPT !["dialer"] = "address"],
           UNCHANGED <<peer, faults, slot, readSock, accepted, writer, known, early>>,
           raddr' \subseteq Accepted
    PROVE  IInv'
<1>1. /\ CallTypes' /\ Counting' /\ Singles' /\ plan' = plan
      /\ reader' = [f \in Ends |-> reader'[f]] /\ \A f \in Ends : reader'[f] \in ReaderStates(f)
      /\ opens'["dialer"] = opens["dialer"]
      /\ step'["listener"] = step["listener"] /\ opens'["listener"] = opens["listener"]
  <2>1. ASSUME NEW ok \in BOOLEAN, Ending("dialer", ok)
        PROVE  /\ CallTypes' /\ Counting' /\ Singles' /\ plan' = plan
               /\ reader' = [f \in Ends |-> reader'[f]] /\ \A f \in Ends : reader'[f] \in ReaderStates(f)
               /\ opens'["dialer"] = opens["dialer"]
               /\ step'["listener"] = step["listener"] /\ opens'["listener"] = opens["listener"]
    <3>1. step["dialer"] = 2
        BY ReadingFacts, EndsFacts
    <3> QED BY <2>1, <3>1, EndingKeeps, EndsFacts
  <2>2. CASE /\ reader["dialer"] = "size" /\ NoAnswer
             /\ reader' = [reader EXCEPT !["dialer"] = "address"]
      BY <2>2, ReadingOn
  <2> QED BY <2>1, <2>2
<1>2. Onward
    BY <1>1 DEF Onward
<1>3. NetTypes' /\ Mail'
    BY <1>1, <1>2, NetStays, NetTaken, SocketFacts DEF IInv, Types, NetTypes
<1>4. ThreadTypes'
    BY <1>1 DEF IInv, Types, ThreadTypes
<1>5. Siting'
    BY SitingKept DEF IInv
<1>6. Phases'
    BY <1>1 DEF IInv, Phases, Acquainted
<1> QED BY <1>1, <1>3, <1>4, <1>5, <1>6 DEF IInv, Types

LEMMA ReadSizeKeeps ==
    ASSUME IInv, ReadSize
    PROVE  IInv'
<1>1. raddr' \subseteq Accepted
    BY DEF ReadSize, IInv, Types, ThreadTypes
<1>2. /\ \/ inbox' = inbox
         \/ inbox[Dialing] # <<>> /\ inbox' = [inbox EXCEPT ![Dialing] = Tail(@)]
      /\ \/ Ending("dialer", FALSE)
         \/ /\ reader["dialer"] = "size" /\ NoAnswer
            /\ reader' = [reader EXCEPT !["dialer"] = "address"]
    BY DEF ReadSize
<1> QED BY <1>1, <1>2, DialerPartKeeps DEF ReadSize

LEMMA ReadAddressKeeps ==
    ASSUME IInv, ReadAddress
    PROVE  IInv'
<1>1. raddr' \subseteq Accepted
  <2>1. CASE raddr' = raddr
      BY <2>1 DEF IInv, Types, ThreadTypes
  <2>2. CASE /\ inbox[Dialing] # <<>>
             /\ raddr' = IF Head(inbox[Dialing]).kind = "address" THEN {Head(inbox[Dialing]).sock} ELSE {}
    <3>1. Head(inbox[Dialing]) \in Datagrams
        BY <2>2, Told, SocketFacts
    <3> QED BY <2>2, <3>1 DEF Datagrams
  <2> QED BY <2>1, <2>2 DEF ReadAddress
<1>2. /\ \/ inbox' = inbox
         \/ inbox[Dialing] # <<>> /\ inbox' = [inbox EXCEPT ![Dialing] = Tail(@)]
      /\ \/ Ending("dialer", FALSE)
         \/ Ending("dialer", TRUE)
    BY DEF ReadAddress
<1> QED BY <1>1, <1>2, DialerPartKeeps DEF ReadAddress

LEMMA OnOpenAcknowKeeps ==
    ASSUME IInv, OnOpenAcknow
    PROVE  IInv'
<1>1. /\ reader["dialer"] = "CONNECTED" /\ ReadStep("dialer")
      /\ UNCHANGED <<peer, slot, readSock, accepted, writer, raddr, early, known>>
    BY DEF OnOpenAcknow, ReadStep
<1>2. PICK ok \in BOOLEAN :
        /\ Ending("dialer", ok)
        /\ ok => \E d \in Headers(inbox[Dialing]) : d.kind = "CONNECTED"
    BY DEF OnOpenAcknow
<1>3. /\ CallTypes' /\ Counting' /\ Singles' /\ plan' = plan
      /\ reader' = [f \in Ends |-> reader'[f]] /\ \A f \in Ends : reader'[f] \in ReaderStates(f)
      /\ ~ok => opens'["dialer"] = opens["dialer"]
      /\ step'["listener"] = step["listener"] /\ opens'["listener"] = opens["listener"]
    BY <1>1, <1>2, EndingKeeps, EndsFacts
<1>4. Onward
    BY <1>1, <1>3 DEF Onward
<1>5. NetTypes' /\ Mail'
    BY <1>1, <1>3, <1>4, NetRead, EndsFacts
<1>6. ThreadTypes'
    BY <1>1, <1>3 DEF IInv, Types, ThreadTypes
<1>7. Siting'
    BY <1>1, SitingKept DEF IInv
<1>8. ok => opens["listener"] > 0
    BY <1>2, Told, SocketFacts DEF Proper
<1>9. Phases'
    BY <1>1, <1>3, <1>8 DEF IInv, Phases, Acquainted
<1> QED BY <1>3, <1>5, <1>6, <1>7, <1>9 DEF IInv, Types

\* Accept gets past its third step only with the greeting that names it, whose
\* sender has heard its number.
LEMMA OnAcceptAcknowKeeps ==
    ASSUME IInv, OnAcceptAcknow
    PROVE  IInv'
<1> DEFINE got == Headers(inbox[readSock])
<1>1. /\ reader["listener"] = "ACCEPT_ACK" /\ ReadStep("listener")
      /\ UNCHANGED <<peer, slot, readSock, accepted, writer, raddr, early>>
    BY DEF OnAcceptAcknow, ReadStep
<1>2. PICK ok \in BOOLEAN :
        /\ Ending("listener", ok)
        /\ \/ known' = known /\ ~ok
           \/ \E d \in got : /\ known' = Learned(d)
                             /\ ok <=> d.refs[1] = RefNum["listener"] /\ d.kind = "ACCEPT_ACK"
    BY DEF OnAcceptAcknow
<1>3. step["listener"] = 3
    BY <1>1, ReadingFacts, EndsFacts
<1>4. /\ CallTypes' /\ Counting' /\ Singles' /\ plan' = plan
      /\ reader' = [f \in Ends |-> reader'[f]] /\ \A f \in Ends : reader'[f] \in ReaderStates(f)
      /\ opens'["dialer"] = opens["dialer"] /\ opens'["listener"] = opens["listener"]
      /\ step'["listener"] = (IF ok THEN 4 ELSE 0)
    BY <1>1, <1>2, <1>3, EndingKeeps, EndsFacts
<1>5. /\ known' \in [Ends -> Refs] /\ known'["dialer"] = known["dialer"]
      /\ ok => known'["listener"] = RefNum["dialer"] /\ known["dialer"] = RefNum["listener"]
  <2>1. CASE known' = known /\ ~ok
      BY <2>1 DEF IInv, Types, ThreadTypes
  <2>2. ASSUME NEW d \in got, known' = Learned(d),
               ok <=> d.refs[1] = RefNum["listener"] /\ d.kind = "ACCEPT_ACK"
        PROVE  /\ known' \in [Ends -> Refs] /\ known'["dialer"] = known["dialer"]
               /\ ok => known'["listener"] = RefNum["dialer"] /\ known["dialer"] = RefNum["listener"]
    <3>1. Proper(readSock, d) /\ d.refs[2] \in Refs
        BY Told, ReadSockFacts
    <3>2. /\ known' \in [Ends -> Refs] /\ known'["dialer"] = known["dialer"]
          /\ known'["listener"] = d.refs[2]
        BY <2>2, <3>1, EndsFacts DEF Learned, IInv, Types, ThreadTypes
    <3>3. ok => d.refs[2] = RefNum["dialer"] /\ known["dialer"] = RefNum["listener"]
        BY <2>2, <3>1, RefFacts DEF Proper
    <3> QED BY <3>2, <3>3
  <2> QED BY <1>2, <2>1, <2>2
<1>6. Onward
    BY <1>4, <1>5 DEF Onward
<1>7. NetTypes' /\ Mail'
    BY <1>1, <1>4, <1>6, NetRead, EndsFacts
<1>8. ThreadTypes'
    BY <1>1, <1>4, <1>5 DEF IInv, Types, ThreadTypes
<1>9. Siting'
    BY <1>1, SitingKept DEF IInv
<1>10. Phases'
  <2>1. accepted = 1 /\ opens["listener"] = 0 /\ peer[readSock] = {Dialing}
      BY <1>3 DEF IInv, Phases
  <2> QED BY <1>1, <1>4, <1>5, <2>1 DEF IInv, Phases, Acquainted
<1> QED BY <1>4, <1>7, <1>8, <1>9, <1>10 DEF IInv, Types

-----------------------------------------------------------------------------
(* The steps of hdpWrite1.                                                 *)

LEMMA OwnerFacts ==
    /\ \A s \in Sockets : Owner(s) \in Ends
    /\ \A s \in Sockets : Owner(s) = "dialer" <=> s = Dialing
    /\ \A s \in Sockets : Owner(s) = "listener" <=> s # Dialing
BY DEF Owner, Ends

LEMMA WriterFacts ==
    ASSUME IInv, NEW s \in Sockets, writer[s] # "none"
    PROVE  /\ s = Dialing \/ s \in 2 .. accepted + 1
           /\ s # Dialing => /\ s \in Accepted
                             /\ step["listener"] > 1 => s = readSock /\ s = 2 /\ accepted = 1
           /\ peer[s] \subseteq Sockets
<1>1. s = Dialing \/ s \in 2 .. accepted + 1
    BY DEF IInv, Siting
<1>2. s # Dialing => s \in Accepted
    BY <1>1, ReadSockFacts
<1>3. s # Dialing /\ step["listener"] > 1 => s = readSock /\ s = 2 /\ accepted = 1
    BY <1>1, ReadSockFacts DEF IInv, Phases
<1> QED BY <1>1, <1>2, <1>3 DEF IInv, Types, NetTypes

\* A step that writes one datagram and answers the call, of which nothing is left.
LEMMA WriteToKeeps ==
    ASSUME IInv, NEW s \in Sockets, NEW t \in Sockets, NEW d \in Datagrams,
           NEW e \in Ends, e = Owner(s), step[e] \in 1 .. 4,
           WriteTo(s, t, d), SlotKept,
           UNCHANGED <<early, reader, accepted, writer, known>>,
           peer' \in [Sockets -> SUBSET Sockets],
           \A n \in 1 .. 4 : ~Sent(e, n) /\ ~Working(e, n) /\ ~Queued(e, n)',
           Proper(t, d) \/ (d.kind = "CONNECTED" /\ e = "listener" /\ step[e] = 4)
    PROVE  /\ NetTypes' /\ Mail' /\ CallTypes' /\ Counting' /\ Singles'
           /\ \E ok \in BOOLEAN :
                /\ step'[e] = (IF ok /\ step[e] < 4 THEN step[e] + 1 ELSE 0)
                /\ opens'[e] = (IF ok /\ step[e] = 4 THEN opens[e] + 1 ELSE opens[e])
                /\ \A f \in Ends \ {e} : step'[f] = step[f] /\ opens'[f] = opens[f]
<1>1. \A f \in Ends, n \in 1 .. 4 : Working(f, n)' => Working(f, n)
    BY DEF Working
<1>2. EarlyKept
    BY DEF EarlyKept
<1>3. ASSUME NEW ok \in BOOLEAN, Answer(e, ok)
      PROVE  /\ CallTypes' /\ Counting' /\ Singles' /\ plan' = plan
             /\ step'[e] = (IF ok /\ step[e] < 4 THEN step[e] + 1 ELSE 0)
             /\ opens'[e] = (IF ok /\ step[e] = 4 THEN opens[e] + 1 ELSE opens[e])
             /\ \A f \in Ends \ {e} : step'[f] = step[f] /\ opens'[f] = opens[f]
             /\ Onward
  <2>1. CallTypes' /\ Counting' /\ Singles'
      BY <1>1, <1>2, <1>3, AnsweredKeeps
  <2>2. /\ plan' = plan
        /\ step'[e] = (IF ok /\ step[e] < 4 THEN step[e] + 1 ELSE 0)
        /\ opens'[e] = (IF ok /\ step[e] = 4 THEN opens[e] + 1 ELSE opens[e])
        /\ \A f \in Ends \ {e} : step'[f] = step[f] /\ opens'[f] = opens[f]
      BY <1>3, AnswerFacts DEF IInv, Types
  <2>3. opens["listener"] > 0 => opens'["listener"] > 0
      BY <2>2, EndsFacts DEF IInv, Types, CallTypes
  <2>4. Onward
      BY <2>3 DEF Onward
  <2> QED BY <2>1, <2>2, <2>4
<1>4. CASE Transmit(s, t, d) /\ Answer(e, TRUE)
  <2>1. Onward /\ plan' = plan
      BY <1>3, <1>4
  <2>2. CASE Proper(t, d)
    <3>1. Proper(t, d)'
        BY <2>1, <2>2, ProperStays
    <3> QED BY <1>3, <1>4, <2>1, <3>1, NetSent
  <2>3. CASE d.kind = "CONNECTED" /\ e = "listener" /\ step[e] = 4
    <3>1. PICK ok \in BOOLEAN : ok /\ Answer(e, ok)
        BY <1>4
    <3>2. opens["listener"] \in Nat /\ opens'[e] = opens[e] + 1
        BY <1>3, <2>3, <3>1, EndsFacts DEF IInv, Types, CallTypes
    <3>3. Proper(t, d)'
        BY <2>3, <3>2 DEF Proper
    <3> QED BY <1>3, <1>4, <2>1, <3>3, NetSent
  <2> QED BY <2>2, <2>3
<1>5. CASE Fault /\ UNCHANGED inbox /\ Answer(e, FALSE)
  <2>1. Onward /\ plan' = plan
      BY <1>3, <1>5
  <2>2. faults' \in 0 .. plan.faults
      BY <1>5, Bounds DEF Fault, IInv, Types, NetTypes
  <2>3. NetTypes' /\ Mail'
      BY <1>5, <2>1, <2>2, NetStays
  <2> QED BY <1>3, <1>5, <2>3
<1> QED BY <1>4, <1>5 DEF WriteTo

\* The first step of Dial.
LEMMA ConnectHdpKeeps ==
    ASSUME IInv, slot["dialer"]["W"] # <<>>, Head(slot["dialer"]["W"]) = "CONNECT",
           slot' = Emptied("dialer", "W"), ConnectHdp(Dialing),
           UNCHANGED <<early, reader, readSock, accepted, known, raddr>>
    PROVE  IInv'
<1> DEFINE e == "dialer"
           d == Header("CONNECT", 0, 0)
<1>1. /\ step[e] = 1
      /\ \A n \in 1 .. 4 : ~Sent(e, n) /\ ~Working(e, n) /\ ~Queued(e, n)'
    BY TakenFacts, StepsFacts, EndsFacts DEF IInv, Types, Directions
<1>2. WriteTo(Dialing, Listening, d) /\ UNCHANGED <<peer, writer>>
    BY DEF ConnectHdp
<1>3. d \in Datagrams /\ Proper(Listening, d)
    BY RefFacts DEF Datagrams, Header, Proper
<1>4. SlotKept /\ e = Owner(Dialing) /\ e \in Ends
    BY OwnerFacts, SocketFacts, EndsFacts DEF SlotKept, Directions
<1>5. peer' \in [Sockets -> SUBSET Sockets]
    BY <1>2 DEF IInv, Types, NetTypes
<1> HIDE DEF d
<1>6. /\ NetTypes' /\ Mail' /\ CallTypes' /\ Counting' /\ Singles'
      /\ opens'["dialer"] = opens["dialer"]
      /\ step'["listener"] = step["listener"] /\ opens'["listener"] = opens["listener"]
    BY <1>1, <1>2, <1>3, <1>4, <1>5, WriteToKeeps, SocketFacts, EndsFacts
<1>7. ThreadTypes'
    BY <1>2 DEF IInv, Types, ThreadTypes
<1>8. Siting'
    BY <1>2, SitingKept DEF IInv
<1>9. Phases'
    BY <1>2, <1>6 DEF IInv, Phases, Acquainted
<1> QED BY <1>6, <1>7, <1>8, <1>9 DEF IInv, Types

\* The third step of Dial.
LEMMA AcknowAcceptKeeps ==
    ASSUME IInv, slot["dialer"]["W"] # <<>>, Head(slot["dialer"]["W"]) = "ACCEPT_ACK",
           slot' = Emptied("dialer", "W"), AcknowAccept(Dialing),
           UNCHANGED <<early, reader, readSock, accepted, known, raddr>>
    PROVE  IInv'
<1> DEFINE e == "dialer"
           d == Header("ACCEPT_ACK", known["dialer"], RefNum["dialer"])
<1>1. /\ step[e] = 3
      /\ \A n \in 1 .. 4 : ~Sent(e, n) /\ ~Working(e, n) /\ ~Queued(e, n)'
    BY TakenFacts, StepsFacts, EndsFacts DEF IInv, Types, Directions
<1>2. writer' = writer
    BY DEF AcknowAccept
<1>3. d \in Datagrams /\ \A t \in Sockets : Proper(t, d)
  <2>1. known["dialer"] \in Refs /\ known["dialer"] \in {0, RefNum["listener"]}
      BY EndsFacts DEF IInv, Types, ThreadTypes, Phases
  <2> QED BY <2>1, RefFacts DEF Datagrams, Header, Proper
<1>4. SlotKept /\ EarlyKept /\ e = Owner(Dialing) /\ e \in Ends
    BY OwnerFacts, SocketFacts, EndsFacts DEF SlotKept, EarlyKept, Directions
<1>5. ThreadTypes'
    BY <1>2 DEF IInv, Types, ThreadTypes
<1> HIDE DEF d
<1>6. ASSUME NEW t \in raddr, peer' = [peer EXCEPT ![Dialing] = raddr], WriteTo(Dialing, t, d)
      PROVE  IInv'
  <2>1. raddr \subseteq Accepted /\ t \in Sockets
      BY SocketFacts DEF IInv, Types, ThreadTypes
  <2>2. /\ peer' \in [Sockets -> SUBSET Sockets] /\ peer'[Dialing] \subseteq Accepted
        /\ \A s \in Sockets : s # Dialing => peer'[s] = peer[s]
      BY <1>6, <2>1, SocketFacts DEF IInv, Types, NetTypes
  <2>3. /\ NetTypes' /\ Mail' /\ CallTypes' /\ Counting' /\ Singles'
        /\ opens'["dialer"] = opens["dialer"]
        /\ step'["listener"] = step["listener"] /\ opens'["listener"] = opens["listener"]
      BY <1>1, <1>2, <1>3, <1>4, <1>6, <2>1, <2>2, WriteToKeeps, SocketFacts, EndsFacts
  <2>4. Siting'
      BY <1>2, <2>2, SocketFacts DEF IInv, Siting
  <2>5. Phases'
      BY <2>2, <2>3, ReadSockFacts DEF IInv, Phases, Acquainted
  <2> QED BY <1>5, <2>3, <2>4, <2>5 DEF IInv, Types
<1>7. CASE raddr = {} /\ Answer("dialer", FALSE) /\ UNCHANGED <<inbox, faults, peer>>
  <2>1. \A f \in Ends, n \in 1 .. 4 : Working(f, n)' => Working(f, n)
      BY <1>2 DEF Working
  <2>2. PICK ok \in BOOLEAN : ~ok /\ Answer(e, ok)
      BY <1>7
  <2>3. CallTypes' /\ Counting' /\ Singles'
      BY <1>1, <1>4, <1>7, <2>1, <2>2, AnsweredKeeps
  <2>4. /\ plan' = plan /\ opens'["dialer"] = opens["dialer"]
        /\ step'["listener"] = step["listener"] /\ opens'["listener"] = opens["listener"]
      BY <1>1, <2>2, AnswerFacts, EndsFacts DEF IInv, Types
  <2>5. Onward
      BY <2>4 DEF Onward
  <2>6. NetTypes' /\ Mail'
      BY <1>7, <2>4, <2>5, NetStays DEF IInv, Types, NetTypes
  <2>7. Siting'
      BY <1>2, <1>7, SitingKept DEF IInv
  <2>8. Phases'
      BY <1>7, <2>4 DEF IInv, Phases, Acquainted
  <2> QED BY <1>5, <2>3, <2>6, <2>7, <2>8 DEF IInv, Types
<1> QED BY <1>6, <1>7 DEF AcknowAccept, d

\* The second step of Accept connects the new socket.
LEMMA AcknowConnectKeeps ==
    ASSUME IInv, NEW s \in Accepted, writer[s] = "idle",
           slot["listener"]["W"] # <<>>, Head(slot["listener"]["W"]) = "CONNECT_ACK",
           slot' = Emptied("listener", "W"), AcknowConnect(s),
           UNCHANGED <<early, reader, readSock, accepted, known, raddr>>
    PROVE  IInv'
<1> DEFINE e == "listener"
<1>1. /\ step[e] = 2 /\ Queued(e, 2) /\ ~Queued(e, 2)'
      /\ \A n \in 1 .. 4 : ~Sent(e, n) /\ ~Working(e, n) /\ ~Queued(e, n)'
    BY TakenFacts, StepsFacts, EndsFacts DEF IInv, Types, Directions
<1>2. SlotKept /\ EarlyKept /\ e \in Ends
    BY EndsFacts DEF SlotKept, EarlyKept, Directions
<1>3. \A t \in Accepted : writer[t] \notin Sending
    BY <1>1 DEF Working
<1>4. CASE /\ peer' = [peer EXCEPT ![s] = {Dialing}] /\ writer' = [writer EXCEPT ![s] = "header"]
           /\ NoAnswer /\ UNCHANGED <<inbox, faults>>
  <2>1. /\ writer' \in [Sockets -> WriterStates]
        /\ \A t \in Sockets : writer'[t] = IF t = s THEN "header" ELSE writer[t]
      BY <1>4, SocketFacts DEF IInv, Types, ThreadTypes, WriterStates, Sending
  <2>2. /\ peer' \in [Sockets -> SUBSET Sockets]
        /\ \A t \in Sockets : peer'[t] = IF t = s THEN {Dialing} ELSE peer[t]
      BY <1>4, SocketFacts DEF IInv, Types, NetTypes
  <2>3. UNCHANGED <<sending, plan, calls, step, opens>>
      BY <1>4 DEF NoAnswer, callVars
  <2>4. \A f \in Ends, n \in 1 .. 4 :
          Working(f, n)' => Working(f, n) \/ (Queued(f, n) /\ ~Queued(f, n)')
      BY <1>1, EndsFacts DEF Working
  <2>5. CallTypes' /\ Counting' /\ Singles'
      BY <1>2, <1>4, <2>4, UnansweredKeeps
  <2>6. Onward
      BY <2>3 DEF Onward
  <2>7. NetTypes' /\ Mail'
      BY <1>4, <2>2, <2>3, <2>6, NetStays DEF IInv, Types, NetTypes
  <2>8. ThreadTypes'
      BY <2>1 DEF IInv, Types, ThreadTypes
  <2>9. Siting'
    <3>1. \A t \in Sockets : writer'[t] # "none" <=> writer[t] # "none"
        BY <2>1
    <3>2. s # Dialing /\ s # Listening
        BY SocketFacts
    <3>3. \A t \in Accepted : writer'[t] \in Sending => t = s
        BY <1>3, <2>1, SocketFacts
    <3> QED BY <2>1, <2>2, <3>1, <3>2, <3>3, SocketFacts DEF IInv, Siting
  <2>10. Phases'
      BY <1>1, <2>3 DEF IInv, Phases, Acquainted
  <2> QED BY <2>5, <2>7, <2>8, <2>9, <2>10 DEF IInv, Types
<1>5. CASE Fault /\ Answer("listener", FALSE) /\ UNCHANGED <<inbox, peer, writer>>
  <2>1. \A f \in Ends, n \in 1 .. 4 : Working(f, n)' => Working(f, n)
      BY <1>5 DEF Working
  <2>2. PICK ok \in BOOLEAN : ~ok /\ Answer(e, ok)
      BY <1>5
  <2>3. CallTypes' /\ Counting' /\ Singles'
      BY <1>1, <1>2, <1>5, <2>1, <2>2, AnsweredKeeps
  <2>4. /\ plan' = plan /\ step'["listener"] = 0
        /\ opens'["listener"] = opens["listener"] /\ opens'["dialer"] = opens["dialer"]
      BY <1>1, <2>2, AnswerFacts, EndsFacts DEF IInv, Types
  <2>5. Onward /\ faults' \in 0 .. plan.faults
      BY <1>5, <2>4, Bounds DEF Onward, Fault, IInv, Types, NetTypes
  <2>6. NetTypes' /\ Mail'
      BY <1>5, <2>4, <2>5, NetStays DEF IInv, Types, NetTypes
  <2>7. ThreadTypes'
      BY <1>5 DEF IInv, Types, ThreadTypes
  <2>8. Siting'
      BY <1>5, SitingKept DEF IInv
  <2>9. Phases'
      BY <1>5, <2>4 DEF IInv, Phases, Acquainted
  <2> QED BY <2>3, <2>6, <2>7, <2>8, <2>9 DEF IInv, Types
<1> QED BY <1>4, <1>5 DEF AcknowConnect

\* The last step of Accept, which may return the connection.
LEMMA AcknowOpenKeeps ==
    ASSUME IInv, NEW s \in Accepted, writer[s] = "idle",
           slot["listener"]["W"] # <<>>, Head(slot["listener"]["W"]) = "CONNECTED",
           slot' = Emptied("listener", "W"), AcknowOpen(s),
           UNCHANGED <<early, reader, readSock, accepted, known, raddr>>
    PROVE  IInv'
<1> DEFINE e == "listener"
           d == Header("CONNECTED", known["listener"], 0)
<1>1. /\ step[e] = 4
      /\ \A n \in 1 .. 4 : ~Sent(e, n) /\ ~Working(e, n) /\ ~Queued(e, n)'
    BY TakenFacts, StepsFacts, EndsFacts DEF IInv, Types, Directions
<1>2. s \in Sockets /\ e = Owner(s) /\ e \in Ends /\ SlotKept
    BY OwnerFacts, SocketFacts, EndsFacts DEF SlotKept, Directions
<1>3. PICK t \in peer[s] : WriteTo(s, t, d)
    BY DEF AcknowOpen
<1>4. t \in Sockets /\ peer' = peer /\ writer' = writer /\ peer' \in [Sockets -> SUBSET Sockets]
    BY <1>2 DEF AcknowOpen, IInv, Types, NetTypes
<1>5. d \in Datagrams /\ d.kind = "CONNECTED"
    BY RefFacts, EndsFacts DEF Datagrams, Header, IInv, Types, ThreadTypes
<1> HIDE DEF d
<1>6. /\ NetTypes' /\ Mail' /\ CallTypes' /\ Counting' /\ Singles'
      /\ \E ok \in BOOLEAN :
           /\ step'[e] = (IF ok /\ step[e] < 4 THEN step[e] + 1 ELSE 0)
           /\ opens'[e] = (IF ok /\ step[e] = 4 THEN opens[e] + 1 ELSE opens[e])
           /\ \A f \in Ends \ {e} : step'[f] = step[f] /\ opens'[f] = opens[f]
    BY <1>1, <1>2, <1>3, <1>4, <1>5, WriteToKeeps
<1>7. /\ step'["listener"] = 0 /\ opens'["dialer"] = opens["dialer"]
      /\ opens["listener"] > 0 => opens'["listener"] > 0
    BY <1>1, <1>6, EndsFacts DEF IInv, Types, CallTypes
<1>8. ThreadTypes'
    BY <1>4 DEF IInv, Types, ThreadTypes
<1>9. Siting'
    BY <1>4, SitingKept DEF IInv
<1>10. Phases'
  <2>1. accepted = 1 /\ Acquainted
      BY <1>1 DEF IInv, Phases
  <2> QED BY <1>4, <1>7, <2>1 DEF IInv, Phases, Acquainted
<1> QED BY <1>6, <1>8, <1>9, <1>10 DEF IInv, Types

\* What is changed by an event that is taken by a writer and not answered.
LEMMA WriteTakenKeeps ==
    ASSUME IInv, NEW s \in Sockets, writer[s] \in {"idle", "early", "data"},
           NEW x \in {"idle", "early", "data"},
           SlotKept, writer' = [writer EXCEPT ![s] = x],
           early' = early \/ \E y \in {"refused", "passed"} : early' = [early EXCEPT ![Owner(s)]["W"] = y],
           NoAnswer, UNCHANGED <<peer, reader, readSock, accepted, known, raddr>>,
           NetTypes' /\ Mail'
    PROVE  IInv'
<1>1. UNCHANGED <<sending, plan, calls, step, opens>>
    BY DEF NoAnswer, callVars
<1>2. /\ writer' \in [Sockets -> WriterStates]
      /\ \A t \in Sockets : writer'[t] = IF t = s THEN x ELSE writer[t]
    BY DEF IInv, Types, ThreadTypes, WriterStates
<1>3. \A t \in Sockets : (writer'[t] \in Sending => writer[t] \in Sending)
                         /\ (writer'[t] # "none" <=> writer[t] # "none")
    BY <1>2 DEF Sending
<1>4. \A f \in Ends, n \in 1 .. 4 : Working(f, n)' => Working(f, n)
    BY <1>3, SocketFacts DEF Working
<1>5. EarlyKept
    BY OwnerFacts DEF EarlyKept, Directions
<1>6. CallTypes' /\ Counting' /\ Singles'
    BY <1>4, <1>5, UnansweredKeeps
<1>7. ThreadTypes'
    BY <1>2 DEF IInv, Types, ThreadTypes
<1>8. Siting'
    BY <1>3, SocketFacts DEF IInv, Siting
<1>9. Phases'
    BY <1>1 DEF IInv, Phases, Acquainted
<1> QED BY <1>6, <1>7, <1>8, <1>9 DEF IInv, Types

LEMMA WriteAnythingKeeps ==
    ASSUME IInv, NEW s \in Sockets, WriteAnything(s)
    PROVE  IInv'
<1> DEFINE d == Header("none", known[Owner(s)], 0)
<1>1. /\ NoAnswer /\ SlotKept /\ UNCHANGED <<peer, reader, readSock, accepted, known, raddr>>
      /\ writer[s] = "early" /\ writer' = [writer EXCEPT ![s] = "idle"]
      /\ early' = [early EXCEPT ![Owner(s)]["W"] = "refused"]
    BY DEF WriteAnything, SlotKept
<1>2. UNCHANGED <<sending, plan, calls, step, opens>>
    BY <1>1 DEF NoAnswer, callVars
<1>3. Onward /\ peer' \in [Sockets -> SUBSET Sockets]
    BY <1>1, <1>2 DEF Onward, IInv, Types, NetTypes
<1>4. PICK b \in Datagrams : b = d /\ \A t \in Sockets : Proper(t, b)
  <2>1. d \in Datagrams /\ \A t \in Sockets : Proper(t, d)
      BY RefFacts, OwnerFacts DEF Datagrams, Header, IInv, Types, ThreadTypes, Proper
  <2> QED BY <2>1
<1> HIDE DEF d
<1>5. NetTypes' /\ Mail'
  <2>1. ASSUME NEW u \in peer[s], Transmit(s, u, d)
        PROVE  NetTypes' /\ Mail'
    <3>1. u \in Sockets
        BY DEF IInv, Types, NetTypes
    <3>2. Proper(u, b)'
        BY <1>3, <1>4, <3>1, ProperStays
    <3> QED BY <1>2, <1>3, <1>4, <2>1, <3>1, <3>2, NetSent
  <2>2. CASE inbox' = inbox /\ (faults' = faults \/ Fault)
    <3>1. faults' \in 0 .. plan.faults
        BY <2>2, Bounds DEF Fault, IInv, Types, NetTypes
    <3> QED BY <1>2, <1>3, <2>2, <3>1, NetStays
  <2> QED BY <2>1, <2>2 DEF WriteAnything, d
<1> QED BY <1>1, <1>5, WriteTakenKeeps

LEMMA TakeWriteKeeps ==
    ASSUME IInv, NEW s \in Sockets, TakeWrite(s)
    PROVE  IInv'
<1> DEFINE e == Owner(s)
           flag == Head(slot[e]["W"])
<1>1. /\ writer[s] \in {"idle", "data"} /\ slot[e]["W"] # <<>> /\ slot' = Emptied(e, "W")
      /\ UNCHANGED <<reader, readSock, accepted, known, raddr>>
    BY DEF TakeWrite
<1>2. e \in Ends /\ flag \in FlagsOf(e, "W") /\ (e = "dialer" <=> s = Dialing) /\ (e = "listener" <=> s # Dialing)
    BY <1>1, OwnerFacts, SlotFacts DEF IInv, Types, CallTypes, Directions
<1>3. s # Dialing => s \in Accepted
    BY <1>1, WriterFacts
<1>4. CASE writer[s] = "idle" /\ flag = "CONNECT" /\ ConnectHdp(s) /\ UNCHANGED early
  <2>1. e = "dialer" /\ s = Dialing
      BY <1>2, <1>4, EndsFacts DEF FlagsOf
  <2> QED BY <1>1, <1>4, <2>1, ConnectHdpKeeps
<1>5. CASE writer[s] = "idle" /\ flag = "ACCEPT_ACK" /\ AcknowAccept(s) /\ UNCHANGED early
  <2>1. e = "dialer" /\ s = Dialing
      BY <1>2, <1>5, EndsFacts DEF FlagsOf
  <2> QED BY <1>1, <1>5, <2>1, AcknowAcceptKeeps
<1>6. CASE writer[s] = "idle" /\ flag = "CONNECT_ACK" /\ AcknowConnect(s) /\ UNCHANGED early
  <2>1. e = "listener" /\ s \in Accepted
      BY <1>2, <1>3, <1>6, EndsFacts DEF FlagsOf
  <2> QED BY <1>1, <1>6, <2>1, AcknowConnectKeeps
<1>7. CASE writer[s] = "idle" /\ flag = "CONNECTED" /\ AcknowOpen(s) /\ UNCHANGED early
  <2>1. e = "listener" /\ s \in Accepted
      BY <1>2, <1>3, <1>7, EndsFacts DEF FlagsOf
  <2> QED BY <1>1, <1>7, <2>1, AcknowOpenKeeps
<1>9. CASE /\ \/ \E x \in {"early", "data"} : writer' = [writer EXCEPT ![s] = x]
              \/ writer' = writer
           /\ early' = early \/ \E y \in {"refused", "passed"} : early' = [early EXCEPT ![e]["W"] = y]
           /\ NoAnswer /\ UNCHANGED <<inbox, peer, faults>>
  <2>1. UNCHANGED <<sending, plan, calls, step, opens>>
      BY <1>9 DEF NoAnswer, callVars
  <2>2. Onward
      BY <1>1, <2>1 DEF Onward
  <2>3. NetTypes' /\ Mail'
      BY <1>9, <2>1, <2>2, NetStays DEF IInv, Types, NetTypes
  <2>4. PICK x \in {"idle", "early", "data"} : writer' = [writer EXCEPT ![s] = x]
    <3>1. writer = [writer EXCEPT ![s] = writer[s]]
        BY DEF IInv, Types, ThreadTypes
    <3> QED BY <1>1, <1>9, <3>1
  <2>5. SlotKept
      BY <1>1, <1>2 DEF SlotKept, Directions
  <2> QED BY <1>1, <1>9, <2>3, <2>4, <2>5, WriteTakenKeeps
<1>10. CASE /\ writer[s] = "idle" /\ flag = "OPEN1"
            /\ writer' = [writer EXCEPT ![s] = "data"]
            /\ NoAnswer /\ UNCHANGED <<inbox, peer, faults, early>>
    BY <1>9, <1>10
<1>8. CASE /\ writer[s] = "idle" /\ flag = "WRITE1"
           /\ writer' = [writer EXCEPT ![s] = "early"]
           /\ NoAnswer /\ UNCHANGED <<inbox, peer, faults, early>>
    BY <1>8, <1>9
<1>11. CASE /\ writer[s] = "data"
            /\ early' = IF flag = "WRITE1" THEN [early EXCEPT ![e]["W"] = "passed"] ELSE early
            /\ NoAnswer /\ UNCHANGED <<inbox, peer, faults, writer>>
    BY <1>9, <1>11
<1> QED BY <1>4, <1>5, <1>6, <1>7, <1>8, <1>10, <1>11 DEF TakeWrite

\* The three datagrams of the second step of Accept.
LEMMA SendAcknowKeeps ==
    ASSUME IInv, NEW s \in Sockets, SendAcknow(s)
    PROVE  IInv'
<1> DEFINE e == "listener"
           d == Message(s)
<1>1. /\ writer[s] \in Sending
      /\ UNCHANGED <<peer, slot, reader, readSock, accepted, known, raddr, early>>
    BY DEF SendAcknow, Sending
<1>2. s # Dialing /\ writer[s] # "none" /\ peer' \in [Sockets -> SUBSET Sockets]
    BY <1>1 DEF IInv, Siting, Sending, Types, NetTypes
<1>3. s \in Accepted /\ e \in Ends
    BY <1>2, WriterFacts, EndsFacts
<1>4. Working(e, 2)
    BY <1>1, <1>3 DEF Working
<1>5. /\ step[e] = 2
      /\ \A k \in 1 .. 4 : ~Sent(e, k) /\ ~Queued(e, k) /\ (k # 2 => ~Working(e, k))
    BY <1>3, <1>4, WorkingFacts DEF IInv
<1>6. s = readSock /\ peer[s] = {Dialing} /\ \A t \in Accepted \ {s} : writer[t] \notin Sending
    BY <1>1, <1>2, <1>3, <1>5, WriterFacts DEF IInv, Siting
<1>7. SlotKept /\ EarlyKept /\ \A n \in 1 .. 4 : ~Queued(e, n)'
    BY <1>1, <1>5 DEF SlotKept, EarlyKept, Queued
<1>8. d \in Datagrams /\ Proper(Dialing, d)
  <2>1. CASE writer[s] = "header"
    <3>1. d = Header("CONNECT_ACK", RefNum["listener"], 0)
        BY <2>1 DEF Message
    <3> QED BY <3>1, RefFacts DEF Datagrams, Header, Proper
  <2>2. CASE writer[s] # "header"
    <3>1. d = Part(writer[s], s) /\ writer[s] \in {"size", "address"}
        BY <1>1, <2>2 DEF Message, Sending
    <3> QED BY <1>3, <3>1 DEF Datagrams, Part, Proper
  <2> QED BY <2>1, <2>2
<1> HIDE DEF d
<1>9. PICK x : /\ writer' = [writer EXCEPT ![s] = x]
               /\ \/ /\ x \in Sending /\ NoAnswer /\ Transmit(s, Dialing, d)
                  \/ /\ x = "idle" /\ writer[s] = "address" /\ Answer(e, TRUE)
                     /\ Transmit(s, Dialing, d)
                  \/ /\ x = "idle" /\ Answer(e, FALSE) /\ Fault /\ UNCHANGED inbox
  <2>1. CASE /\ Transmit(s, Dialing, d)
             /\ writer' = [writer EXCEPT ![s] =
                  CASE @ = "header" -> "size" [] @ = "size" -> "address" [] OTHER -> "idle"]
             /\ IF writer[s] = "address" THEN Answer("listener", TRUE) ELSE NoAnswer
    <3>1. CASE writer[s] = "address"
      <4>1. writer' = [writer EXCEPT ![s] = "idle"]
          BY <2>1, <3>1
      <4> QED BY <2>1, <3>1, <4>1
    <3>2. CASE writer[s] = "size"
      <4>1. writer' = [writer EXCEPT ![s] = "address"] /\ "address" \in Sending
          BY <2>1, <3>2 DEF Sending
      <4> QED BY <2>1, <3>2, <4>1
    <3>3. CASE writer[s] = "header"
      <4>1. writer' = [writer EXCEPT ![s] = "size"] /\ "size" \in Sending
          BY <2>1, <3>3 DEF Sending
      <4> QED BY <2>1, <3>3, <4>1
    <3> QED BY <1>1, <3>1, <3>2, <3>3 DEF Sending
  <2>2. CASE Fault /\ UNCHANGED inbox /\ writer' = [writer EXCEPT ![s] = "idle"] /\ Answer("listener", FALSE)
      BY <2>2
  <2> QED BY <2>1, <2>2 DEF SendAcknow, d
<1>10. x \in Sending \cup {"idle"} /\ x # "none" /\ x \in WriterStates
    BY <1>9 DEF Sending, WriterStates
<1>11. /\ writer' \in [Sockets -> WriterStates]
       /\ \A t \in Sockets : writer'[t] = IF t = s THEN x ELSE writer[t]
    BY <1>9, <1>10 DEF IInv, Types, ThreadTypes
<1>12. ThreadTypes'
    BY <1>1, <1>11 DEF IInv, Types, ThreadTypes
<1>13. Siting'
  <2>1. \A t \in Sockets : (writer'[t] # "none" <=> writer[t] # "none")
                           /\ (writer'[t] \in Sending => writer[t] \in Sending)
      BY <1>1, <1>2, <1>10, <1>11
  <2> QED BY <1>1, <2>1, SocketFacts DEF IInv, Siting
<1>14. CASE x \in Sending /\ NoAnswer /\ Transmit(s, Dialing, d)
  <2>1. UNCHANGED <<sending, plan, calls, step, opens>>
      BY <1>14 DEF NoAnswer, callVars
  <2>2. \A f \in Ends, n \in 1 .. 4 : Working(f, n)' => Working(f, n)
      BY <1>1, <1>3, <1>4, <1>11, SocketFacts DEF Working
  <2>3. CallTypes' /\ Counting' /\ Singles'
      BY <1>1, <1>7, <1>14, <2>2, UnansweredKeeps
  <2>4. Onward
      BY <1>1, <2>1 DEF Onward
  <2>5. NetTypes' /\ Mail'
      BY <1>2, <1>8, <1>14, <2>1, <2>4, ProperStays, NetSent, SocketFacts
  <2>6. Phases'
      BY <1>1, <2>1 DEF IInv, Phases, Acquainted
  <2> QED BY <1>12, <1>13, <2>3, <2>5, <2>6 DEF IInv, Types
<1>15. ASSUME NEW ok \in BOOLEAN, x = "idle", Answer(e, ok),
              (Transmit(s, Dialing, d) \/ (Fault /\ UNCHANGED inbox))
       PROVE  IInv'
  <2>1. \A t \in Accepted : writer'[t] \notin Sending
      BY <1>6, <1>11, <1>15, SocketFacts DEF Sending
  <2>2. \A n \in 1 .. 4 : ~Working(e, n)'
    <3>1. reader[e] \in {"idle", "ACCEPT_ACK", "data"}
        BY <1>3 DEF IInv, Types, ThreadTypes, ReaderStates
    <3>2. ~Working(e, 3)
        BY <1>5
    <3>3. reader'[e] \in {"idle", "data"}
        BY <1>1, <3>1, <3>2 DEF Working
    <3> QED BY <2>1, <3>3 DEF Working
  <2>3. \A f \in Ends \ {e}, n \in 1 .. 4 : Working(f, n)' => Working(f, n)
      BY <1>1 DEF Working
  <2>4. CallTypes' /\ Counting' /\ Singles'
      BY <1>1, <1>3, <1>5, <1>7, <1>15, <2>2, <2>3, AnsweredKeeps
  <2>5. /\ plan' = plan /\ step'["listener"] \in {0, 3}
        /\ opens'["listener"] = opens["listener"] /\ opens'["dialer"] = opens["dialer"]
      BY <1>3, <1>5, <1>15, AnswerFacts, EndsFacts DEF IInv, Types
  <2>6. faults' \in 0 .. plan.faults \/ Transmit(s, Dialing, d)
      BY <1>15, Bounds DEF Fault, IInv, Types, NetTypes
  <2>7. Onward
      BY <1>1, <2>5 DEF Onward
  <2>8. NetTypes' /\ Mail'
    <3>1. CASE Transmit(s, Dialing, d)
        BY <1>2, <1>8, <2>5, <2>7, <3>1, ProperStays, NetSent, SocketFacts
    <3>2. CASE ~Transmit(s, Dialing, d)
        BY <1>2, <1>15, <2>5, <2>6, <2>7, <3>2, NetStays
    <3> QED BY <3>1, <3>2
  <2>9. Phases'
      BY <1>1, <1>5, <1>6, <2>5 DEF IInv, Phases, Acquainted
  <2> QED BY <1>12, <1>13, <2>4, <2>8, <2>9 DEF IInv, Types
<1> QED BY <1>9, <1>14, <1>15

-----------------------------------------------------------------------------
(* The theorems.                                                           *)

LEMMA InitIInv == Init => IInv
<1> SUFFICES ASSUME Init PROVE IInv
    OBVIOUS
<1>1. plan \in Plans /\ plan.faults \in Nat /\ plan.accepts \in Nat
    BY PlansAssumption DEF Init
<1>2. NetTypes
    BY <1>1 DEF Init, NetTypes
<1>3. CallTypes
    BY DEF Init, CallTypes, SlotsOf
<1>4. ThreadTypes
    BY RefFacts DEF Init, ThreadTypes, ReaderStates, WriterStates, Listening
<1>5. Counting
    BY <1>1, EndsFacts DEF Init, Counting
<1>6. Siting
    BY SocketFacts DEF Init, Siting, Sending
<1>7. Singles
  <2>1. \A e \in Ends, n \in 1 .. 4 : ~Sent(e, n) /\ ~Queued(e, n) /\ ~Working(e, n)
    <3> TAKE e \in Ends, n \in 1 .. 4
    <3>1. ~Sent(e, n) /\ ~Queued(e, n)
        BY StepsApart DEF Init, Sent, Queued
    <3>2. ~Working(e, n)
        BY SocketFacts DEF Init, Working, Sending
    <3> QED BY <3>1, <3>2
  <2> QED BY <2>1 DEF Singles, Single
<1>8. Phases
    BY EndsFacts DEF Init, Phases
<1>9. Mail
    BY DEF Init, Mail
<1> QED BY <1>2, <1>3, <1>4, <1>5, <1>6, <1>7, <1>8, <1>9 DEF IInv, Types

LEMMA NextIInv == IInv /\ [Next]_vars => IInv'
<1> SUFFICES ASSUME IInv, [Next]_vars PROVE IInv'
    OBVIOUS
<1>1. CASE Dial \/ Accept \/ Stray
    BY <1>1, DialKeeps, AcceptKeeps, StrayKeeps
<1>2. CASE \E e \in Ends : CallEarly(e) \/ Enter(e) \/ TakeRead(e)
    BY <1>2, CallEarlyKeeps, EnterKeeps, TakeReadKeeps
<1>3. CASE DialerReads \/ OnAcceptAcknow
    BY <1>3, OnConnectAcknowKeeps, ReadSizeKeeps, ReadAddressKeeps, OnOpenAcknowKeeps,
       OnAcceptAcknowKeeps DEF DialerReads
<1>4. CASE \E s \in Sockets : WriterNext(s)
    BY <1>4, TakeWriteKeeps, SendAcknowKeeps, WriteAnythingKeeps DEF WriterNext
<1>5. CASE UNCHANGED vars
  <2>1. UNCHANGED <<inbox, peer, faults, sending, slot, plan, calls, step, opens, reader, readSock,
                    accepted, writer, known, raddr, early>>
      BY <1>5 DEF vars, netVars, callVars
  <2>2. Onward
      BY <2>1 DEF Onward
  <2>3. Mail'
      BY <2>1, <2>2, MailStays DEF IInv, Types
  <2>4. NetTypes' /\ CallTypes' /\ ThreadTypes'
      BY <2>1 DEF IInv, Types, NetTypes, CallTypes, ThreadTypes
  <2>5. Counting' /\ Siting' /\ Phases'
      BY <2>1 DEF IInv, Counting, Siting, Phases, Acquainted
  <2>6. Singles'
      BY <2>1 DEF IInv, Singles, Single, Sent, Queued, Working
  <2> QED BY <2>3, <2>4, <2>5, <2>6 DEF IInv, Types
<1> QED BY <1>1, <1>2, <1>3, <1>4, <1>5 DEF Next

\* What relates the calls, the goroutines, the sockets and the datagrams under way
\* holds in every behaviour of the handshake: the event of a call is at one place at
\* most, and a datagram tells the truth.
THEOREM Invariant == Spec => []IInv
BY InitIInv, NextIInv, PTL DEF Spec

LEMMA TypesOfIInv == IInv => TypeOK
<1> SUFFICES ASSUME IInv PROVE TypeOK
    OBVIOUS
<1>1. plan \in Plans /\ faults \in 0 .. plan.faults
    BY DEF IInv, Types, NetTypes
<1>2. ASSUME NEW s \in Sockets
      PROVE  /\ peer[s] \subseteq Sockets \ {s}
             /\ writer[s] \in {"none", "idle", "header", "size", "address", "early", "data"}
  <2>1. s \notin peer[s] /\ peer[s] \subseteq Sockets
      BY SocketFacts DEF IInv, Siting, Types, NetTypes
  <2> QED BY <2>1 DEF IInv, Types, ThreadTypes, WriterStates, Sending
<1>3. ASSUME NEW e \in Ends
      PROVE  /\ \A m \in Directions : /\ Len(slot[e][m]) <= 1
                                      /\ early[e][m] \in {"none", "sent", "refused", "passed"}
             /\ step[e] \in 0 .. Len(Steps(e))
             /\ opens[e] \in 0 .. calls[e]
             /\ known[e] \in {0} \cup {RefNum[f] : f \in Ends}
             /\ reader[e] \in {"idle", "CONNECT_ACK", "size", "address", "ACCEPT_ACK", "CONNECTED",
                               "data"}
  <2>1. \A m \in Directions : Len(slot[e][m]) <= 1
    <3> TAKE m \in Directions
    <3>1. slot[e][m] \in SlotsOf(e, m)
        BY DEF IInv, Types, CallTypes
    <3>2. CASE slot[e][m] = <<>>
        BY <3>2
    <3>3. CASE slot[e][m] # <<>>
      <4>1. Len(slot[e][m]) = 1
          BY <3>1, <3>3, SlotFacts
      <4> QED BY <4>1
    <3> QED BY <3>2, <3>3
  <2>2. \A m \in Directions : early[e][m] \in {"none", "sent", "refused", "passed"}
      BY DEF IInv, Types, CallTypes
  <2>3. step[e] \in 0 .. Len(Steps(e))
      BY StepsFacts DEF IInv, Types, CallTypes
  <2>4. opens[e] \in 0 .. calls[e]
    <3>1. opens[e] \in Nat /\ calls[e] \in Nat /\ opens[e] + (IF step[e] > 0 THEN 1 ELSE 0) <= calls[e]
        BY DEF IInv, Types, CallTypes, Counting
    <3> QED BY <3>1
  <2>5. known[e] \in {0} \cup {RefNum[f] : f \in Ends}
      BY DEF IInv, Types, ThreadTypes, Refs
  <2>6. reader[e] \in ReaderStates(e)
      BY DEF IInv, Types, ThreadTypes
  <2> QED BY <2>1, <2>2, <2>3, <2>4, <2>5, <2>6 DEF ReaderStates
<1>4. accepted \in 0 .. calls["listener"]
  <2>1. /\ accepted \in Nat /\ calls["listener"] \in Nat
        /\ accepted + (IF step["listener"] = 1 THEN 1 ELSE 0) <= calls["listener"]
      BY EndsFacts DEF IInv, Types, CallTypes, ThreadTypes, Counting
  <2> QED BY <2>1
<1>5. readSock \in {Listening} \cup Accepted
    BY ReadSockFacts, SocketFacts
<1>6. raddr \subseteq Accepted
    BY DEF IInv, Types, ThreadTypes
<1> QED BY <1>1, <1>2, <1>3, <1>4, <1>5, <1>6 DEF TypeOK

\* The variables have their types: a slot of a MultiCh holds one event at most, each
\* Accept makes at most one socket and no call returns more than one connection.
THEOREM TypeCorrect == Spec => []TypeOK
BY Invariant, TypesOfIInv, PTL

\* Whatever is lost, doubled or tried again, Dial returns a connection only if Accept
\* has or is about to, and Accept only when both ends know each other's number.
THEOREM Opens == Spec => []OpensTogether
<1>1. IInv => OpensTogether
    BY DEF IInv, Phases, Acquainted, OpensTogether
<1> QED BY <1>1, Invariant, PTL

\* Accept returns a connection with its last step and in no other way.
LEMMA Returns ==
    ASSUME IInv, [Next]_vars, opens'["listener"] > opens["listener"]
    PROVE  step["listener"] = 4 /\ UNCHANGED <<accepted, readSock, peer>>
<1>1. opens \in [Ends -> Nat]
    BY DEF IInv, Types, CallTypes
<1>2. opens'["listener"] # opens["listener"]
    BY <1>1, EndsFacts
<1>3. ~NoAnswer /\ opens' # opens
    BY <1>2 DEF NoAnswer, callVars
<1>4. ASSUME NEW e \in Ends, NEW ok \in BOOLEAN, Answer(e, ok)
      PROVE  e = "listener" /\ step["listener"] = 4
    BY <1>1, <1>2, <1>4, EndsFacts, StepsFacts DEF Answer
<1>5. ~Dial /\ ~Accept /\ ~Stray /\ \A e \in Ends : ~CallEarly(e) /\ ~Enter(e)
    BY <1>3 DEF Dial, Accept, Stray, CallEarly, Enter, callVars
<1>6. ASSUME NEW e \in Ends, TakeRead(e)
      PROVE  FALSE
  <2>1. /\ OnAccept /\ slot[e]["R"] # <<>> /\ slot' = Emptied(e, "R")
        /\ Head(slot[e]["R"]) = "ACCEPT"
      BY <1>3, <1>6 DEF TakeRead
  <2>2. e = "listener" /\ step["listener"] = 4
      BY <1>4, <2>1, EndsFacts, SlotFacts DEF OnAccept, FlagsOf, IInv, Types, CallTypes, Directions
  <2>3. step["listener"] = 1
      BY <2>1, <2>2, TakenFacts, StepsFacts DEF IInv, Types, Directions
  <2> QED BY <2>2, <2>3
<1>7. ~DialerReads
  <2>1. \A ok \in BOOLEAN : ~Ending("dialer", ok)
      BY <1>4, EndsFacts DEF Ending
  <2> QED BY <1>3, <2>1 DEF DialerReads, OnConnectAcknow, ReadSize, ReadAddress, OnOpenAcknow
<1>8. ~OnAcceptAcknow
  <2>1. ASSUME OnAcceptAcknow
        PROVE  \E ok \in BOOLEAN : Answer("listener", ok)
      BY <2>1 DEF OnAcceptAcknow, Ending
  <2>2. OnAcceptAcknow => step["listener"] = 3
      BY ReadingFacts, EndsFacts DEF OnAcceptAcknow
  <2> QED BY <1>4, <2>1, <2>2, EndsFacts
<1>9. ASSUME NEW s \in Sockets, TakeWrite(s)
      PROVE  step["listener"] = 4 /\ UNCHANGED <<accepted, readSock, peer>>
  <2> DEFINE e == Owner(s)
             flag == Head(slot[e]["W"])
  <2>1. /\ slot[e]["W"] # <<>> /\ slot' = Emptied(e, "W") /\ UNCHANGED <<accepted, readSock>>
        /\ e \in Ends /\ flag \in FlagsOf(e, "W")
      BY <1>9, OwnerFacts, SlotFacts DEF TakeWrite, IInv, Types, CallTypes, Directions
  <2>2. CASE flag = "CONNECT" /\ ConnectHdp(s)
      BY <1>4, <2>1, <2>2 DEF ConnectHdp, WriteTo, FlagsOf
  <2>3. CASE flag = "ACCEPT_ACK" /\ AcknowAccept(s)
    <3>1. e = "dialer"
        BY <2>1, <2>3, EndsFacts DEF FlagsOf
    <3>2. \E ok \in BOOLEAN : Answer("dialer", ok)
        BY <2>3, <3>1 DEF AcknowAccept, WriteTo
    <3> QED BY <1>4, <3>1, <3>2, EndsFacts
  <2>4. CASE flag = "CONNECT_ACK" /\ AcknowConnect(s)
    <3>1. e = "listener"
        BY <2>1, <2>4, EndsFacts DEF FlagsOf
    <3>2. step["listener"] = 2
        BY <2>1, <2>4, <3>1, TakenFacts, StepsFacts DEF IInv, Types, Directions
    <3>3. \E ok \in BOOLEAN : Answer("listener", ok)
        BY <1>3, <2>4 DEF AcknowConnect
    <3> QED BY <1>4, <2>1, <3>2, <3>3, EndsFacts
  <2>5. CASE flag = "CONNECTED" /\ AcknowOpen(s)
    <3>1. e = "listener"
        BY <2>1, <2>5, EndsFacts DEF FlagsOf
    <3>2. step["listener"] = 4
        BY <2>1, <2>5, <3>1, TakenFacts, StepsFacts DEF IInv, Types, Directions
    <3> QED BY <2>1, <2>5, <3>2 DEF AcknowOpen
  <2> QED BY <1>3, <1>9, <2>2, <2>3, <2>4, <2>5 DEF TakeWrite
<1>12. \A s \in Sockets : ~WriteAnything(s)
    BY <1>3 DEF WriteAnything
<1>10. ASSUME NEW s \in Sockets, SendAcknow(s)
       PROVE  FALSE
  <2>1. writer[s] \in Sending /\ \E ok \in BOOLEAN : Answer("listener", ok)
      BY <1>3, <1>10 DEF SendAcknow, Sending
  <2>2. s \in Accepted
    <3>1. s # Dialing /\ writer[s] # "none"
        BY <2>1 DEF IInv, Siting, Sending
    <3> QED BY <3>1, WriterFacts
  <2>3. step["listener"] = 2
      BY <2>1, <2>2, WorkingFacts, EndsFacts DEF Working, IInv
  <2> QED BY <1>4, <2>1, <2>3, EndsFacts
<1>11. ~UNCHANGED vars
    BY <1>3 DEF vars, callVars
<1> QED BY <1>5, <1>6, <1>7, <1>8, <1>9, <1>10, <1>11, <1>12 DEF Next, WriterNext

\* When Accept returns a connection, the goroutines on its channel have one socket,
\* which is connected to the dialer, and no failed Accept has left a writer behind.
THEOREM OneWriterEach == Spec => OneWriter
<1>1. ASSUME IInv, IInv', [Next]_vars, opens'["listener"] > opens["listener"]
      PROVE  {s \in Accepted : writer'[s] # "none"} = {readSock'} /\ peer'[readSock'] = {Dialing}
  <2>1. accepted' = 1 /\ readSock' = 2 /\ 2 \in Accepted /\ peer'[readSock'] = {Dialing}
      BY <1>1, Returns, ReadSockFacts DEF IInv, Phases
  <2>2. \A s \in Accepted : writer'[s] # "none" <=> s = 2
      BY <1>1, <2>1, SocketFacts DEF IInv, Siting
  <2> QED BY <2>1, <2>2
<1> QED BY <1>1, Invariant, PTL DEF Spec, OneWriter

=============================================================================
