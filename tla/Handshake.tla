----------------------------- MODULE Handshake -----------------------------
(***************************************************************************)
(* Opening a connection: HdpDialer.Dial (src/dialer.go) and                *)
(* HdpListener.Accept (src/listener.go) drive hdpRead1 and hdpWrite1       *)
(* (src/transport.go) of their ends by events through the one-slot         *)
(* channels of a MultiCh, one event at a time, each answered before the    *)
(* next; an error ends the call and leaves the goroutines running.  At the *)
(* end HDP_OPEN1 turns both goroutines into those of Conn, while calls of  *)
(* the new connection may already compete with it for the channels.        *)
(*                                                                         *)
(* Sockets are numbered: the dialer's, the listening one, and those that   *)
(* newAcceptConn makes.  One listener and one dialer; either may call      *)
(* again.  Datagrams keep their order, some are lost or arrive twice.      *)
(***************************************************************************)
EXTENDS Integers, Sequences, SequencesExt

CONSTANTS
    Plans,      \* what may happen (a bound): records [dials, accepts, early, faults]
                \* with how often Dial and Accept are called, the calls of a new
                \* connection that do not wait, and how many things fail
    RefNum,     \* the number of each end, getRefNum
    AddressSize \* the length of an address in text

Ends == {"dialer", "listener"}
Directions == {"R", "W"}
Calls == {<<"R", "READ1">>, <<"W", "WRITE1">>}

ASSUME PlansAssumption ==
    \A p \in Plans : p.dials \in Nat /\ p.accepts \in Nat /\ p.faults \in Nat
                    /\ p.early \subseteq Ends \X Calls
ASSUME RefNumAssumption == RefNum \in [Ends -> Nat \ {0}]
ASSUME AddressAssumption == AddressSize \in 9 .. 21

Dialing == 0
Listening == 1
Accepted == UNION {2 .. p.accepts + 1 : p \in Plans}
Sockets == {Dialing, Listening} \cup Accepted

(* Definitions named Bad... are slips this code could have; no action uses *)
(* them, they only show which property would notice.                       *)

\* The events of Dial and of Accept, in their order, and who handles them.
DialSteps == <<<<"W", "CONNECT">>, <<"R", "CONNECT_ACK">>, <<"W", "ACCEPT_ACK">>,
               <<"R", "CONNECTED">>>>
BadAcceptSteps == <<<<"R", "ACCEPT">>, <<"W", "CONNECT_ACK">>, <<"R", "ACCEPT_ACK">>>>

AcceptSteps == <<<<"R", "ACCEPT">>, <<"W", "CONNECT_ACK">>, <<"R", "ACCEPT_ACK">>,
                 <<"W", "CONNECTED">>>>
Steps(e) == IF e = "dialer" THEN DialSteps ELSE AcceptSteps

VARIABLES
    plan,     \* the plan of this behaviour
    inbox,    \* per socket, the datagrams in its receive buffer
    peer,     \* per socket, the one it is connected to, if any
    sending,  \* per end, the events whose goroutine waits for the slot
    slot,     \* per end and direction, the slot of MultiCh
    calls,    \* per end, how often Dial or Accept has been called
    step,     \* per end, the step Dial or Accept waits in, 0 for none
    opens,    \* per end, the connections it has returned
    reader,   \* per end, what hdpRead1 is doing, "data" for hdpRead2
    readSock, \* the socket of the listener's hdpRead1
    accepted, \* how many sockets newAcceptConn has made
    writer,   \* per socket, its hdpWrite1
    known,    \* per end, refNum[1]: the number of the other end
    raddr,    \* the address in the dialer's event: a socket, or junk ({})
    early,    \* per end and direction, a call of the new connection
    faults

callVars == <<plan, calls, step, opens>>
netVars == <<inbox, peer, faults>>
vars == <<netVars, sending, slot, callVars, reader, readSock, accepted, writer, known,
          raddr, early>>

Init ==
    /\ plan \in Plans
    /\ inbox = [s \in Sockets |-> <<>>]
    /\ peer = [s \in Sockets |-> {}]
    /\ sending = [e \in Ends |-> {}]
    /\ slot = [e \in Ends |-> [m \in Directions |-> <<>>]]
    /\ calls = [e \in Ends |-> 0]
    /\ step = [e \in Ends |-> 0]
    /\ opens = [e \in Ends |-> 0]
    /\ reader = [e \in Ends |-> "idle"]
    /\ readSock = Listening
    /\ accepted = 0
    /\ writer = [s \in Sockets |-> IF s = Dialing THEN "idle" ELSE "none"]
    /\ known = [e \in Ends |-> 0]
    /\ raddr = {}
    /\ early = [e \in Ends |-> [m \in Directions |-> "none"]]
    /\ faults = 0

-----------------------------------------------------------------------------
(* The network and the system calls on a socket                            *)

Header(kind, first, second) == [kind |-> kind, refs |-> <<first, second>>]
Part(kind, s) == [kind |-> kind, sock |-> s]  \* two bytes of length, or an address

Fault == faults < plan.faults /\ faults' = faults + 1

\* A connected socket takes only what its peer sends.
Delivered(s, t, d, copies) ==
    IF peer[t] \subseteq {s}
    THEN [inbox EXCEPT ![t] = @ \o [i \in 1 .. copies |-> d]] ELSE inbox

Transmit(s, t, d) ==
    \/ inbox' = Delivered(s, t, d, 1) /\ UNCHANGED faults
    \/ inbox' = Delivered(s, t, d, 2) /\ Fault
    \/ Fault /\ UNCHANGED inbox

Length(d) ==
    IF d.kind = "size" THEN 2 ELSE IF d.kind = "address" THEN AddressSize ELSE 18
Bytes(q) == FoldSeq(LAMBDA d, n : n + Length(d), 0, q)

\* readHeader reads until it has 18 bytes, out of several datagrams if they are
\* short, or until EAGAIN.
Complete(q) == {k \in 1 .. Len(q) : Bytes(SubSeq(q, 1, k)) >= 18}
AfterHeader(q) ==
    IF Complete(q) = {} THEN <<>>
    ELSE LET k == CHOOSE i \in Complete(q) : \A j \in Complete(q) : i <= j
         IN SubSeq(q, k + 1, Len(q))

\* The header read, if its checksum is right.
Headers(q) == IF q # <<>> /\ Head(q).kind \notin {"size", "address"} THEN {Head(q)} ELSE {}

-----------------------------------------------------------------------------
(* Dial and Accept                                                         *)

BadEvent(e, n) ==  \* the writer is not told
    IF n <= Len(Steps(e)) THEN {Steps(e)[n]} ELSE {<<"R", "OPEN1">>}

\* SendEvent1 starts a goroutine for the event of step n; OPEN1 goes to both.
Event(e, n) == IF n <= Len(Steps(e)) THEN {Steps(e)[n]} ELSE {<<"R", "OPEN1">>, <<"W", "OPEN1">>}

\* The answer to a step: the call goes on with the next one, returns a
\* connection, or returns the error.
Answer(e, ok) ==
    /\ sending' = IF ok THEN [sending EXCEPT ![e] = @ \cup Event(e, step[e] + 1)] ELSE sending
    /\ step' = [step EXCEPT ![e] = IF ok /\ @ < Len(Steps(e)) THEN @ + 1 ELSE 0]
    /\ opens' = IF ok /\ step[e] = Len(Steps(e)) THEN [opens EXCEPT ![e] = @ + 1] ELSE opens
    /\ UNCHANGED <<plan, calls>>

NoAnswer == UNCHANGED <<sending, callVars>>

Dial ==
    /\ step["dialer"] = 0 /\ calls["dialer"] < plan.dials
    /\ calls' = [calls EXCEPT !["dialer"] = @ + 1]
    /\ step' = [step EXCEPT !["dialer"] = 1]
    /\ sending' = [sending EXCEPT !["dialer"] = @ \cup Event("dialer", 1)]
    /\ UNCHANGED <<netVars, plan, slot, opens, reader, readSock, accepted, writer, known,
                   raddr, early>>

\* Accept itself waits for the listening socket, then sends its first event.
Accept ==
    /\ step["listener"] = 0 /\ calls["listener"] < plan.accepts
    /\ \/ inbox[Listening] # <<>> /\ UNCHANGED faults
       \/ inbox[Listening] = <<>> /\ Fault  \* a stale readiness
    /\ calls' = [calls EXCEPT !["listener"] = @ + 1]
    /\ step' = [step EXCEPT !["listener"] = 1]
    /\ sending' = [sending EXCEPT !["listener"] = @ \cup Event("listener", 1)]
    /\ UNCHANGED <<inbox, peer, plan, slot, opens, reader, readSock, accepted,
                   writer, known, raddr, early>>

\* A datagram that no dialer has sent reaches the listening socket.
Stray ==
    /\ inbox' = [inbox EXCEPT ![Listening] = Append(@, Header("none", 0, 0))]
    /\ Fault
    /\ UNCHANGED <<peer, sending, slot, callVars, reader, readSock, accepted, writer, known,
                   raddr, early>>

\* A Read or a Write of a connection that was just returned.
CallEarly(e) ==
    /\ opens[e] > 0
    /\ \E call \in Calls :
        /\ <<e, call>> \in plan.early /\ early[e][call[1]] = "none"
        /\ early' = [early EXCEPT ![e][call[1]] = "sent"]
        /\ sending' = [sending EXCEPT ![e] = @ \cup {call}]
    /\ UNCHANGED <<netVars, slot, callVars, reader, readSock, accepted, writer, known, raddr>>

\* The goroutine of SendEvent1 gets the slot.
Enter(e) ==
    /\ \E ev \in sending[e] :
        /\ slot[e][ev[1]] = <<>>
        /\ slot' = [slot EXCEPT ![e][ev[1]] = <<ev[2]>>]
        /\ sending' = [sending EXCEPT ![e] = @ \ {ev}]
    /\ UNCHANGED <<netVars, callVars, reader, readSock, accepted, writer, known, raddr, early>>

-----------------------------------------------------------------------------
(* hdpRead1                                                                *)

BadEmptied(e, m) == slot  \* the event is seen again

Emptied(e, m) == [slot EXCEPT ![e][m] = <<>>]

\* newAcceptConn: a new socket for this reader and a writer on the same channel.
NewAcceptConn ==
    /\ accepted' = accepted + 1
    /\ readSock' = Listening + accepted + 1
    /\ writer' = [writer EXCEPT ![Listening + accepted + 1] = "idle"]

BadGreeted == Listening  \* always where clients knock

\* The socket of this reader, which a failed Accept may have replaced.
Greeted == readSock

\* onAccept does not wait; the connection is made before the greeting is looked at.
OnAccept ==
    LET q == inbox[Greeted] IN
    \/ /\ q = <<>>  \* EAGAIN
       /\ Answer("listener", FALSE)
       /\ UNCHANGED <<inbox, accepted, readSock, writer>>
    \/ /\ q # <<>>
       /\ inbox' = [inbox EXCEPT ![Greeted] = Tail(q)]
       /\ NewAcceptConn
       /\ Answer("listener", Head(q).kind = "CONNECT")

TakeRead(e) ==
    /\ reader[e] \in {"idle", "data"} /\ slot[e]["R"] # <<>>
    /\ slot' = Emptied(e, "R")
    /\ LET flag == Head(slot[e]["R"]) IN
       \/ /\ reader[e] = "idle" /\ flag = "ACCEPT"
          /\ OnAccept
          /\ UNCHANGED <<reader, early>>
       \/ /\ reader[e] = "idle" /\ flag \in {"CONNECT_ACK", "ACCEPT_ACK", "CONNECTED"}
          /\ reader' = [reader EXCEPT ![e] = flag]
          /\ NoAnswer
          /\ UNCHANGED <<inbox, readSock, accepted, writer, early>>
       \/ /\ reader[e] = "idle" /\ flag = "OPEN1"
          /\ reader' = [reader EXCEPT ![e] = "data"]
          /\ NoAnswer
          /\ UNCHANGED <<inbox, readSock, accepted, writer, early>>
       \/ /\ reader[e] = "idle" /\ flag = "READ1"  \* "unknown flag"
          /\ early' = [early EXCEPT ![e]["R"] = "refused"]
          /\ NoAnswer
          /\ UNCHANGED <<inbox, reader, readSock, accepted, writer>>
       \/ /\ reader[e] = "data"  \* hdpRead2 ignores the events of Accept
          /\ early' = IF flag = "READ1" THEN [early EXCEPT ![e]["R"] = "passed"] ELSE early
          /\ NoAnswer
          /\ UNCHANGED <<inbox, reader, readSock, accepted, writer>>
    /\ UNCHANGED <<peer, faults, known, raddr>>

SockOf(e) == IF e = "dialer" THEN Dialing ELSE readSock

\* The wait for a header is over, with data or, by a stale readiness, without.
Readable(e) ==
    \/ inbox[SockOf(e)] # <<>> /\ UNCHANGED faults
    \/ inbox[SockOf(e)] = <<>> /\ Fault

ReadStep(e) ==
    /\ Readable(e)
    /\ inbox' = [inbox EXCEPT ![SockOf(e)] = AfterHeader(@)]
    /\ UNCHANGED <<peer, slot, readSock, accepted, writer, raddr, early>>

Ending(e, ok) == Answer(e, ok) /\ reader' = [reader EXCEPT ![e] = "idle"]

\* onConnectAcknow: no number is compared, the size and the address follow.
OnConnectAcknow ==
    /\ reader["dialer"] = "CONNECT_ACK" /\ ReadStep("dialer")
    /\ LET right == {d \in Headers(inbox[Dialing]) : d.kind = "CONNECT_ACK"} IN
       \/ right = {} /\ Ending("dialer", FALSE) /\ UNCHANGED known
       \/ \E d \in right :
           /\ known' = [known EXCEPT !["dialer"] = d.refs[1]]
           /\ reader' = [reader EXCEPT !["dialer"] = "size"]
           /\ NoAnswer

\* Neither read waits.  No size is a size of 0, for which a read is io.EOF; the
\* first two bytes of anything else serve as one.
ReadSize ==
    /\ reader["dialer"] = "size"
    /\ IF inbox[Dialing] = <<>>
       THEN Ending("dialer", FALSE) /\ UNCHANGED inbox
       ELSE /\ inbox' = [inbox EXCEPT ![Dialing] = Tail(@)]
            /\ reader' = [reader EXCEPT !["dialer"] = "address"]
            /\ NoAnswer
    /\ UNCHANGED <<peer, faults, slot, readSock, accepted, writer, known, raddr, early>>

ReadAddress ==
    /\ reader["dialer"] = "address"
    /\ IF inbox[Dialing] = <<>>
       THEN Ending("dialer", FALSE) /\ UNCHANGED <<inbox, raddr>>
       ELSE LET d == Head(inbox[Dialing]) IN
            /\ inbox' = [inbox EXCEPT ![Dialing] = Tail(@)]
            /\ raddr' = IF d.kind = "address" THEN {d.sock} ELSE {}
            /\ Ending("dialer", TRUE)
    /\ UNCHANGED <<peer, faults, slot, readSock, accepted, writer, known, early>>

BadLearned(d) == known  \* the peer's number is forgotten

\* onAcceptAcknow takes the peer's number before it checks its own.
Learned(d) == [known EXCEPT !["listener"] = d.refs[2]]

OnAcceptAcknow ==
    /\ reader["listener"] = "ACCEPT_ACK" /\ ReadStep("listener")
    /\ LET got == Headers(inbox[readSock]) IN
       \/ got = {} /\ UNCHANGED known /\ Ending("listener", FALSE)
       \/ \E d \in got :
           /\ known' = Learned(d)
           /\ Ending("listener", d.refs[1] = RefNum["listener"] /\ d.kind = "ACCEPT_ACK")

\* onOpenAcknow
OnOpenAcknow ==
    /\ reader["dialer"] = "CONNECTED" /\ ReadStep("dialer")
    /\ Ending("dialer", \E d \in Headers(inbox[Dialing]) :
                           d.refs[1] = RefNum["dialer"] /\ d.kind = "CONNECTED")
    /\ UNCHANGED known

-----------------------------------------------------------------------------
(* hdpWrite1 of socket s, which belongs to the listener unless it dials    *)

Owner(s) == IF s = Dialing THEN "dialer" ELSE "listener"

\* A message of one datagram to t, then the answer; the write may fail.  Nobody reads
\* from the socket in a step of the writer, so that its wait ends (transport.go:530).
WriteTo(s, t, d) ==
    \/ Transmit(s, t, d) /\ Answer(Owner(s), TRUE)
    \/ Fault /\ UNCHANGED inbox /\ Answer(Owner(s), FALSE)

\* connect: the socket is connected to the address of the event.
ConnectHdp(s) ==
    /\ WriteTo(s, Listening, Header("CONNECT", 0, 0))
    /\ UNCHANGED <<peer, writer>>
AcknowAccept(s) ==
    /\ \/ \E t \in raddr :
            /\ peer' = [peer EXCEPT ![s] = raddr]
            /\ WriteTo(s, t, Header("ACCEPT_ACK", known["dialer"], RefNum["dialer"]))
       \/ raddr = {} /\ Answer("dialer", FALSE) /\ UNCHANGED <<inbox, faults, peer>>
    /\ UNCHANGED writer
AcknowConnect(s) ==
    \/ /\ peer' = [peer EXCEPT ![s] = {Dialing}]
       /\ writer' = [writer EXCEPT ![s] = "header"]
       /\ NoAnswer
       /\ UNCHANGED <<inbox, faults>>
    \/ Fault /\ Answer("listener", FALSE) /\ UNCHANGED <<inbox, peer, writer>>
AcknowOpen(s) ==
    /\ \E t \in peer[s] : WriteTo(s, t, Header("CONNECTED", known["listener"], 0))
    /\ UNCHANGED <<peer, writer>>

\* write1, for any other event, when its wait for write readiness is over: a header
\* without flags goes out and the caller of Write is told of no error and of no bytes.
WriteAnything(s) ==
    /\ writer[s] = "early"
    /\ \/ \E u \in peer[s] : Transmit(s, u, Header("none", known[Owner(s)], 0))
       \/ peer[s] # {} /\ Fault /\ UNCHANGED inbox
       \/ peer[s] = {} /\ UNCHANGED <<inbox, faults>>  \* is refused
    /\ writer' = [writer EXCEPT ![s] = "idle"]
    /\ early' = [early EXCEPT ![Owner(s)]["W"] = "refused"]
    /\ NoAnswer
    /\ UNCHANGED <<peer, slot, reader, readSock, accepted, known, raddr>>

TakeWrite(s) ==
    /\ writer[s] \in {"idle", "data"} /\ slot[Owner(s)]["W"] # <<>>
    /\ slot' = Emptied(Owner(s), "W")
    /\ LET flag == Head(slot[Owner(s)]["W"]) IN
       \/ writer[s] = "idle" /\ flag = "CONNECT" /\ ConnectHdp(s) /\ UNCHANGED early
       \/ writer[s] = "idle" /\ flag = "ACCEPT_ACK" /\ AcknowAccept(s) /\ UNCHANGED early
       \/ writer[s] = "idle" /\ flag = "CONNECT_ACK" /\ AcknowConnect(s) /\ UNCHANGED early
       \/ writer[s] = "idle" /\ flag = "CONNECTED" /\ AcknowOpen(s) /\ UNCHANGED early
       \/ /\ writer[s] = "idle" /\ flag = "OPEN1"
          /\ writer' = [writer EXCEPT ![s] = "data"]
          /\ NoAnswer
          /\ UNCHANGED <<inbox, peer, faults, early>>
       \/ /\ writer[s] = "idle" /\ flag = "WRITE1"
          /\ writer' = [writer EXCEPT ![s] = "early"]
          /\ NoAnswer
          /\ UNCHANGED <<inbox, peer, faults, early>>
       \/ /\ writer[s] = "data"  \* hdpWrite2 ignores the events of Dial
          /\ early' = IF flag = "WRITE1" THEN [early EXCEPT ![Owner(s)]["W"] = "passed"] ELSE early
          /\ NoAnswer
          /\ UNCHANGED <<inbox, peer, faults, writer>>
    /\ UNCHANGED <<reader, readSock, accepted, known, raddr>>

\* acknowConnect sends three datagrams: the header, the size, the address.
Message(s) ==
    CASE writer[s] = "header" -> Header("CONNECT_ACK", RefNum["listener"], 0)
      [] OTHER -> Part(writer[s], s)
SendAcknow(s) ==
    /\ writer[s] \in {"header", "size", "address"}
    /\ \/ /\ Transmit(s, Dialing, Message(s))
          /\ writer' = [writer EXCEPT ![s] =
               CASE @ = "header" -> "size" [] @ = "size" -> "address" [] OTHER -> "idle"]
          /\ IF writer[s] = "address" THEN Answer("listener", TRUE) ELSE NoAnswer
       \/ /\ Fault /\ UNCHANGED inbox
          /\ writer' = [writer EXCEPT ![s] = "idle"]
          /\ Answer("listener", FALSE)
    /\ UNCHANGED <<peer, slot, reader, readSock, accepted, known, raddr, early>>

-----------------------------------------------------------------------------

DialerReads == OnConnectAcknow \/ ReadSize \/ ReadAddress \/ OnOpenAcknow
WriterNext(s) == TakeWrite(s) \/ SendAcknow(s) \/ WriteAnything(s)
Next ==
    \/ Dial \/ Accept \/ Stray
    \/ \E e \in Ends : CallEarly(e) \/ Enter(e) \/ TakeRead(e)
    \/ DialerReads \/ OnAcceptAcknow
    \/ \E s \in Sockets : WriterNext(s)

Spec == Init /\ [][Next]_vars

\* The reading goroutine of an end waits for its socket; hdpRead2 may, for a Read.
Reading(e) ==
    \/ reader[e] \in {"CONNECT_ACK", "ACCEPT_ACK", "CONNECTED"}
    \/ reader[e] = "data" /\ early[e]["R"] = "passed"

\* Each goroutine goes on when it can, and somebody sits in Accept, which wakes up
\* when its socket has data; nobody has to dial and nothing has to fail.  A wait to
\* write need not end while the reader waits for the same descriptor, which is armed
\* again for the reader (src/epoller/poller.go:360).
Fairness ==
    /\ WF_vars(Accept /\ UNCHANGED faults)
    /\ WF_vars(DialerReads /\ UNCHANGED faults) /\ WF_vars(OnAcceptAcknow /\ UNCHANGED faults)
    /\ \A e \in Ends : WF_vars(TakeRead(e)) /\ WF_vars(Enter(e))
    /\ \A s \in Sockets :
        /\ WF_vars(TakeWrite(s) \/ SendAcknow(s))
        /\ WF_vars(WriteAnything(s) /\ ~(Reading(Owner(s)) /\ SockOf(Owner(s)) = s))
LiveSpec == Spec /\ Fairness

-----------------------------------------------------------------------------
(* Properties.                                                             *)

\* The variables have their types; each Accept makes at most one socket, and
\* no call returns more than one connection.
TypeOK ==
    /\ plan \in Plans
    /\ \A s \in Sockets :
        /\ peer[s] \subseteq Sockets \ {s}
        /\ writer[s] \in {"none", "idle", "header", "size", "address", "early", "data"}
    /\ \A e \in Ends :
        /\ \A m \in Directions :
            /\ Len(slot[e][m]) <= 1
            /\ early[e][m] \in {"none", "sent", "refused", "passed"}
        /\ step[e] \in 0 .. Len(Steps(e))
        /\ opens[e] \in 0 .. calls[e]
        /\ known[e] \in {0} \cup {RefNum[f] : f \in Ends}
        /\ reader[e] \in {"idle", "CONNECT_ACK", "size", "address", "ACCEPT_ACK", "CONNECTED",
                          "data"}
    /\ accepted \in 0 .. calls["listener"]
    /\ readSock \in {Listening} \cup Accepted
    /\ raddr \subseteq Accepted
    /\ faults \in 0 .. plan.faults

\* Dial returns a connection only if Accept has returned one or has just sent
\* HDP_CONNECTED, and Accept only when the dialer knows it; then each end has
\* learned the other's number, whatever was lost, doubled or tried again.
OpensTogether ==
    /\ opens["dialer"] > 0 => opens["listener"] > 0
    /\ opens["listener"] > 0 =>
        known["listener"] = RefNum["dialer"] /\ known["dialer"] = RefNum["listener"]

\* Accept returns a connection only if its writer is the one goroutine on the
\* channel and has the socket of its reader: writers that failed Accepts have left
\* behind never share the channel with it.
OneWriter ==
    [][opens'["listener"] > opens["listener"] =>
         {s \in Accepted : writer'[s] # "none"} = {readSock'} /\ peer'[readSock'] = {Dialing}]_vars

\* While nothing fails, the first Dial returns, if only with the error of reading
\* too early what the listener was about to send.
DialEnds ==
    calls["dialer"] = 1 /\ step["dialer"] > 0 ~>
        step["dialer"] = 0 \/ calls["dialer"] > 1 \/ faults > 0

Data(e) ==
    reader[e] = "data" /\ \E s \in Sockets : Owner(s) = e /\ writer[s] = "data" /\ peer[s] # {}

\* Both goroutines of the end wait for the same descriptor.
Starved(e) == Reading(e) /\ writer[SockOf(e)] = "early"

\* Both goroutines of a returned connection become those of the data transport, on
\* the connected socket, and calls that overtake HDP_OPEN1 get an answer, unless such
\* a Write waits for ever beside a waiting reader (which Epoller shows may starve it),
\* or Dial or Accept is called again meanwhile.
HandsOver ==
    \A e \in Ends :
        <>[]~Starved(e) =>
            /\ opens[e] > 0 ~> Data(e) \/ calls[e] > 1
            /\ \A m \in Directions : early[e][m] = "sent" ~> early[e][m] # "sent" \/ calls[e] > 1

=============================================================================
