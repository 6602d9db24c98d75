------------------------------- MODULE Conn -------------------------------
(***************************************************************************)
(* An open connection: hdpRead2 and hdpWrite2 at both ends                 *)
(* (src/transport1.go), the calls of HdpConn (src/conn.go) that reach them *)
(* through the two channels of a MultiCh (src/dtype/dtype1.go), one slot   *)
(* each, and the datagrams between the two sockets.  A data frame is two   *)
(* datagrams, a header and a payload.  Datagrams get lost, arrive twice    *)
(* and overtake one another.                                               *)
(*                                                                         *)
(* The user of an end calls Read, SetReadDeadline from one goroutine and   *)
(* Write, SetWriteDeadline, Close from another.  Frame n of an end is the  *)
(* one with sequence number n; byte i of it is <<n, i>>, and byte i of a   *)
(* header is <<0, i>>.  Readiness and deadlines are those of Epoller, the  *)
(* window of frames is that of RingBuffer.                                 *)
(***************************************************************************)
EXTENDS Integers, Sequences, FiniteSets

CONSTANTS
    Plans,      \* what the users call and how often which failure happens (a bound):
                \* records [calls, size, faults] with, per end and direction, the
                \* sequence of the sets the next call is chosen from, per end the
                \* length of each frame, and the number of failures of each kind
    HeaderSize, \* 18 in the code
    MaxSize     \* BuffrW.maxsize, 16 in the code

Ends == {"dialer", "listener"}
Peer(e) == IF e = "dialer" THEN "listener" ELSE "dialer"
Directions == {"R", "W"}

Event(flag, arg) == [flag |-> flag, arg |-> arg]
Kinds == {"lost", "doubled", "overtaken", "failed"}
Flags(m) == {"DEADLINE"} \cup IF m = "R" THEN {"READ1"} ELSE {"WRITE1", "CLOSING"}

ASSUME PlansAssumption ==
    \A p \in Plans :
        /\ p.faults \in [Kinds -> Nat]
        /\ \A e \in Ends : p.size[e] \in [1 .. Len(p.calls[e]["W"]) -> Nat \ {0}]
        /\ \A e \in Ends, m \in Directions :
            /\ p.calls[e][m] \in Seq(SUBSET [flag : Flags(m), arg : Nat])
            /\ \A i \in DOMAIN p.calls[e][m] : \A req \in p.calls[e][m][i] :
                req.flag = "READ1" <=> req.arg > 0
ASSUME SizesAssumption == HeaderSize \in Nat \ {0} /\ MaxSize \in Nat \ {0}

VARIABLES
    plan,    \* the plan of this behaviour
    inbox,   \* per end, the datagrams on their way to its socket or received there
    tpt,     \* per end and direction, the slot of MultiCh: at most one event
    user,    \* per end and direction, whether a call is in progress
    made,    \* per end and direction, how many calls the user has made
    reader,  \* per end, what hdpRead2 is doing
    buffer,  \* per end, the one chunk of BufferR.this, or <<>>
    writer,  \* per end, what hdpWrite2 is doing
    taken,   \* per end, the last sequence number taken
    frames,  \* per end, the numbers that have an entry in BuffrW.this
    doneCh,  \* per end and frame, ackDoneCh and the one slot of its channel
    acker,   \* per end and frame, the goroutine of writeFrame
    deadline,\* per end and direction, how many deadlines are open and whether the
             \* error of one that nobody waited for has been kept
    faults,  \* per kind, the failures so far
    seen,    \* per end, the frames of the peer whose header has been parsed
    got      \* per end, the bytes that Read has returned without an error

called == <<plan, made>>
userVars == <<user, called>>
readVars == <<buffer, seen, got>>
ackVars == <<doneCh, acker>>
vars == <<inbox, tpt, userVars, reader, readVars, writer, taken, frames, ackVars,
          deadline, faults>>

Datagram(kind, n) == [kind |-> kind, n |-> n]

Calls(e, m) == plan.calls[e][m]
Frames(e) == 1 .. Len(Calls(e, "W"))
Size(e, n) == plan.size[e][n]

Idle == [pc |-> "idle"]
Parsing(size) == [pc |-> "parse", size |-> size]
Doing(pc, n) == [pc |-> pc, n |-> n]

Init ==
    /\ plan \in Plans
    /\ inbox = [e \in Ends |-> <<>>]
    /\ tpt = [e \in Ends |-> [m \in Directions |-> <<>>]]
    /\ user = [e \in Ends |-> [m \in Directions |-> "idle"]]
    /\ made = [e \in Ends |-> [m \in Directions |-> 0]]
    /\ reader = [e \in Ends |-> Idle]
    /\ buffer = [e \in Ends |-> <<>>]
    /\ writer = [e \in Ends |-> Idle]
    /\ taken = [e \in Ends |-> 0]
    /\ frames = [e \in Ends |-> {}]
    /\ doneCh = [e \in Ends |-> [n \in Frames(e) |-> "none"]]
    /\ acker = [e \in Ends |-> [n \in Frames(e) |-> "none"]]
    /\ deadline = [e \in Ends |-> [m \in Directions |-> [open |-> 0, err |-> FALSE]]]
    /\ faults = [k \in Kinds |-> 0]
    /\ seen = [e \in Ends |-> {}]
    /\ got = [e \in Ends |-> <<>>]

-----------------------------------------------------------------------------
(* HdpConn: the goroutine of a call waits for the slot.                    *)

\* Close does not wait for a result and is the last call of its goroutine.
Call(e, m) ==
    /\ user[e][m] = "idle" /\ made[e][m] < Len(Calls(e, m))
    /\ tpt[e][m] = <<>>
    /\ made' = [made EXCEPT ![e][m] = @ + 1]
    /\ \E req \in Calls(e, m)[made[e][m] + 1] :
        /\ tpt' = [tpt EXCEPT ![e][m] = <<req>>]
        /\ user' = [user EXCEPT ![e][m] =
                      IF req.flag = "CLOSING" THEN "closed" ELSE "waiting"]
    /\ UNCHANGED <<plan, inbox, reader, readVars, writer, taken, frames, ackVars, deadline,
                   faults>>

\* req.Ch() <- ...: a result reaches the caller (resultCh has a slot).
Respond(e, m) == user' = [user EXCEPT ![e][m] = "idle"]

Fault(kind) ==
    /\ faults[kind] < plan.faults[kind]
    /\ faults' = [faults EXCEPT ![kind] = @ + 1]

Delivered(e, d, copies) == [inbox EXCEPT ![Peer(e)] = @ \o [i \in 1 .. copies |-> d]]

\* write1: the datagram sets out for the peer's socket, once or twice, or is lost.
Transmit(e, d) ==
    \/ inbox' = Delivered(e, d, 1) /\ UNCHANGED faults
    \/ inbox' = Delivered(e, d, 2) /\ Fault("doubled")
    \/ Fault("lost") /\ UNCHANGED inbox

\* UDP: a datagram arrives before one that was sent earlier.
Overtakes(e) ==
    /\ \E i \in 1 .. Len(inbox[e]) - 1 :
        inbox' = [inbox EXCEPT ![e][i] = inbox[e][i + 1], ![e][i + 1] = inbox[e][i]]
    /\ Fault("overtaken")
    /\ UNCHANGED <<tpt, userVars, reader, readVars, writer, taken, frames, ackVars, deadline>>

\* A new deadline starts; an error that was kept is not cleared.
SetDeadline(e, m) == deadline' = [deadline EXCEPT ![e][m].open = @ + 1]

\* A wait ends: readiness cancels the deadlines, but not one that has fired, and none
\* if it was kept from before; or an open deadline ends it; or an error that was kept,
\* which stays.
Ready(e, m) ==
    /\ ~deadline[e][m].err
    /\ \E left \in 0 .. deadline[e][m].open :
        deadline' = [deadline EXCEPT ![e][m].open = left]
TimedOut(e, m) ==
    \/ ~deadline[e][m].err /\ deadline[e][m].open > 0
       /\ deadline' = [deadline EXCEPT ![e][m].open = @ - 1]
    \/ deadline[e][m].err /\ UNCHANGED deadline

-----------------------------------------------------------------------------
(* hdpRead2.  A Read of size 0 stands for the reading that a HDP_DATA_ACK  *)
(* event of the writer asks for: its result goes nowhere.                  *)

EndRead(e, size) ==
    /\ reader' = [reader EXCEPT ![e] = Idle]
    /\ IF size > 0 THEN Respond(e, "R") ELSE UNCHANGED user

(* Definitions named Bad... are slips this code could have; no action uses *)
(* them, they only show which property would notice.                       *)

BadKept(chunk, size) == SubSeq(chunk, size + 2, Len(chunk))  \* one byte too far

\* BufferR.writeTo keeps the last byte it copied when the chunk outlasts b.
Kept(chunk, size) == IF size >= Len(chunk) THEN <<>> ELSE SubSeq(chunk, size, Len(chunk))
Copied(chunk, size) == IF size >= Len(chunk) THEN chunk ELSE SubSeq(chunk, 1, size)

BadBuffered(e, size) == Len(buffer[e]) >= size  \* a new frame if the rest is too short

Buffered(e, size) == buffer[e] # <<>>

TakeRead(e) ==
    /\ reader[e] = Idle /\ tpt[e]["R"] # <<>>
    /\ tpt' = [tpt EXCEPT ![e]["R"] = <<>>]
    /\ LET req == Head(tpt[e]["R"]) IN
       \/ /\ req.flag = "DATA_ACK"
          /\ reader' = [reader EXCEPT ![e] = Parsing(0)]
          /\ UNCHANGED <<user, buffer, got, deadline>>
       \/ /\ req.flag = "DEADLINE"
          /\ SetDeadline(e, "R") /\ Respond(e, "R")
          /\ UNCHANGED <<reader, buffer, got>>
       \/ /\ req.flag = "READ1" /\ Buffered(e, req.arg)
          /\ got' = [got EXCEPT ![e] = @ \o Copied(buffer[e], req.arg)]
          /\ buffer' = [buffer EXCEPT ![e] = Kept(@, req.arg)]
          /\ Respond(e, "R")
          /\ UNCHANGED <<reader, deadline>>
       \/ /\ req.flag = "READ1" /\ ~Buffered(e, req.arg)
          /\ reader' = [reader EXCEPT ![e] = Parsing(req.arg)]
          /\ UNCHANGED <<user, buffer, got, deadline>>
    /\ UNCHANGED <<inbox, called, seen, writer, taken, frames, ackVars, faults>>

\* parseHeader: a payload read as a header fails its checks and a closing notice
\* is io.EOF.
ParseHeader(e) ==
    /\ reader[e].pc = "parse" /\ inbox[e] # <<>>
    /\ Ready(e, "R")
    /\ inbox' = [inbox EXCEPT ![e] = Tail(@)]
    /\ LET d == Head(inbox[e])  size == reader[e].size IN
       \/ /\ d.kind \in {"DATAGRAM", "DATA_ACK"}
          /\ reader' = [reader EXCEPT ![e] =
                          [pc |-> "push", size |-> size, flag |-> d.kind, n |-> d.n]]
          /\ seen' = IF d.kind = "DATAGRAM" THEN [seen EXCEPT ![e] = @ \cup {d.n}] ELSE seen
          /\ UNCHANGED user
       \/ /\ d.kind \in {"payload", "RMT_CLOSING"}
          /\ EndRead(e, size)
          /\ UNCHANGED seen
    /\ UNCHANGED <<tpt, called, buffer, got, writer, taken, frames, ackVars, faults>>

ReadTimesOut(e) ==
    /\ reader[e].pc = "parse"
    /\ TimedOut(e, "R")
    /\ EndRead(e, reader[e].size)
    /\ UNCHANGED <<inbox, tpt, called, readVars, writer, taken, frames, ackVars, faults>>

\* A stale readiness ends the wait and read1 meets EAGAIN three times.
ReadFails(e) ==
    /\ reader[e].pc = "parse"
    /\ Ready(e, "R") /\ Fault("failed")
    /\ EndRead(e, reader[e].size)
    /\ UNCHANGED <<inbox, tpt, called, readVars, writer, taken, frames, ackVars>>

\* A deadline expires and nobody waits.
Expire(e, m) ==
    /\ deadline[e][m].open > 0
    /\ IF m = "R" THEN reader[e].pc # "parse" ELSE writer[e].pc # "header"
    /\ deadline' = [deadline EXCEPT ![e][m] = [open |-> @.open - 1, err |-> TRUE]]
    /\ UNCHANGED <<inbox, tpt, userVars, reader, readVars, writer, taken, frames, ackVars, faults>>

\* parseHeader hands the numbers to the writer and only then goes on; a Read
\* that met an acknowledgement returns 0 bytes.
PushNumbers(e) ==
    /\ reader[e].pc = "push" /\ tpt[e]["W"] = <<>>
    /\ tpt' = [tpt EXCEPT ![e]["W"] = <<Event(reader[e].flag, reader[e].n)>>]
    /\ LET size == reader[e].size IN
       IF size > 0 /\ reader[e].flag = "DATAGRAM"
       THEN /\ reader' = [reader EXCEPT ![e] = [pc |-> "payload", size |-> size, n |-> @.n]]
            /\ UNCHANGED user
       ELSE EndRead(e, size)
    /\ UNCHANGED <<inbox, called, readVars, writer, taken, frames, ackVars, deadline, faults>>

\* verifyChecksum of what was read against the crc of the header.
Matches(d, n) == d.kind = "payload" /\ d.n = n

Length(e, d) == IF d.kind = "payload" THEN Size(Peer(e), d.n) ELSE HeaderSize
Byte(d, i) == <<IF d.kind = "payload" THEN d.n ELSE 0, i>>
First(d, k) == [i \in 1 .. k |-> Byte(d, i)]

\* BufferR.read1 reads datagrams q one behind the other, datagram i to offset at[i],
\* until there are k bytes; the last one of them, the j-th, is cut.
Offsets(e, q, j, k) ==
    {at \in [1 .. j -> 0 .. k - 1] :
        at[1] = 0 /\ \A i \in 2 .. j : at[i] = at[i - 1] + Length(e, q[i - 1])}
Fills(e, q, j, k) ==
    {at \in Offsets(e, q, j, k) : at[j] + Length(e, q[j]) >= k}
Source(at, j, p) == CHOOSE i \in 1 .. j : at[i] < p /\ \A h \in 1 .. j : at[h] < p => h <= i
Joined(q, at, j, k) ==
    [p \in 1 .. k |-> LET i == Source(at, j, p) IN Byte(q[i], p - at[i])]

\* read3 does not wait: it reads what has arrived.  When b has room for the frame a
\* datagram is read and verified; otherwise b gets what a peek finds and BufferR the
\* rest of as many bytes as the frame has, of whatever datagrams; the result of the
\* verification is only logged.
ReadPayload(e) ==
    /\ reader[e].pc = "payload"
    /\ LET size == reader[e].size
           n == reader[e].n
           k == Size(Peer(e), n)
           d == Head(inbox[e])
           peeked == IF size < Length(e, d) THEN size ELSE Length(e, d) IN
       \E here \in 0 .. Len(inbox[e]) :
        LET q == SubSeq(inbox[e], 1, here)
            Counts == {j \in 1 .. here : j <= k} IN
        \/ /\ here = 0  \* EAGAIN
           /\ UNCHANGED <<inbox, buffer, got>>
        \/ /\ here > 0 /\ size >= k
           /\ inbox' = [inbox EXCEPT ![e] = Tail(@)]
           /\ got' = IF Matches(d, n) THEN [got EXCEPT ![e] = @ \o First(d, k)] ELSE got
           /\ UNCHANGED buffer
        \/ /\ here > 0 /\ size < k
           /\ got' = [got EXCEPT ![e] = @ \o First(d, peeked)]
           /\ \/ \E j \in Counts : \E at \in Fills(e, q, j, k) :
                  /\ inbox' = [inbox EXCEPT ![e] = SubSeq(@, j + 1, Len(@))]
                  /\ buffer' = [buffer EXCEPT ![e] =
                                  SubSeq(Joined(q, at, j, k), peeked + 1, k)]
              \/ /\ \A j \in Counts : Fills(e, q, j, k) = {}  \* EAGAIN
                 /\ inbox' = [inbox EXCEPT ![e] = SubSeq(@, here + 1, Len(@))]
                 /\ UNCHANGED buffer
    /\ EndRead(e, reader[e].size)
    /\ UNCHANGED <<tpt, called, seen, writer, taken, frames, ackVars, deadline, faults>>

-----------------------------------------------------------------------------
(* hdpWrite2                                                               *)

BadisFull(e) == Cardinality(frames[e]) > MaxSize  \* one entry too many

isFull(e) == Cardinality(frames[e]) = MaxSize


\* putFrame takes a number, or is refused.
PutFrame(e) ==
    \/ isFull(e) /\ Respond(e, "W") /\ UNCHANGED <<writer, taken>>
    \/ /\ ~isFull(e)
       /\ taken' = [taken EXCEPT ![e] = @ + 1]
       /\ writer' = [writer EXCEPT ![e] = Doing("put", taken[e] + 1)]
       /\ UNCHANGED user

\* BufferSN.add appends to a copy: isEmpty and popLeft never find the number.
Stored == UNCHANGED <<inbox, faults>>

\* With frames of its own in the buffer the writer only stores the number.
AcknowSeqnum(e, n) ==
    IF frames[e] = {} THEN Transmit(e, Datagram("DATA_ACK", n)) ELSE Stored

SendClosing(e) == Transmit(e, Datagram("RMT_CLOSING", 0))

BadResetAckSeqnum(e, n) ==  \* an acknowledgement counts for all frames up to n
    /\ doneCh' = [doneCh EXCEPT ![e] =
         [k \in Frames(e) |-> IF k <= n /\ @[k] = "empty" THEN "full" ELSE @[k]]]
    /\ UNCHANGED writer

\* resetAckSeqnum: doneCh has one slot; nobody removes it from ackDoneCh.
ResetAckSeqnum(e, n) ==
    \/ doneCh[e][n] = "none" /\ UNCHANGED <<writer, doneCh>>
    \/ doneCh[e][n] = "empty" /\ doneCh' = [doneCh EXCEPT ![e][n] = "full"] /\ UNCHANGED writer
    \/ /\ doneCh[e][n] = "full"
       /\ writer' = [writer EXCEPT ![e] = Doing("done", n)]
       /\ UNCHANGED doneCh

TakeWrite(e) ==
    /\ writer[e] = Idle /\ tpt[e]["W"] # <<>>
    /\ tpt' = [tpt EXCEPT ![e]["W"] = <<>>]
    /\ LET req == Head(tpt[e]["W"]) IN
       \/ /\ req.flag = "WRITE1" /\ PutFrame(e)
          /\ UNCHANGED <<inbox, doneCh, deadline, faults>>
       \/ /\ req.flag = "WRITE2"
          /\ writer' = [writer EXCEPT ![e] = Doing("header", req.arg)]
          /\ UNCHANGED <<inbox, user, taken, doneCh, deadline, faults>>
       \/ /\ req.flag = "DATAGRAM" /\ AcknowSeqnum(e, req.arg)
          /\ UNCHANGED <<user, writer, taken, doneCh, deadline>>
       \/ /\ req.flag = "DATA_ACK" /\ ResetAckSeqnum(e, req.arg)
          /\ UNCHANGED <<inbox, user, taken, deadline, faults>>
       \/ /\ req.flag = "CLOSING" /\ SendClosing(e)
          /\ UNCHANGED <<user, writer, taken, doneCh, deadline>>
       \/ /\ req.flag = "DEADLINE"
          /\ SetDeadline(e, "W") /\ Respond(e, "W")
          /\ UNCHANGED <<inbox, writer, taken, doneCh, faults>>
       \/ /\ req.flag = "REPEAT"  \* is logged
          /\ UNCHANGED <<inbox, user, writer, taken, doneCh, deadline, faults>>
    /\ UNCHANGED <<called, reader, readVars, frames, acker>>

\* putFrame sends the event on, to the slot its own goroutine empties, and
\* then adds the entry.
PutOn(e) ==
    /\ writer[e].pc = "put" /\ tpt[e]["W"] = <<>>
    /\ tpt' = [tpt EXCEPT ![e]["W"] = <<Event("WRITE2", writer[e].n)>>]
    /\ frames' = [frames EXCEPT ![e] = @ \cup {writer[e].n}]
    /\ writer' = [writer EXCEPT ![e] = Idle]
    /\ UNCHANGED <<inbox, userVars, reader, readVars, taken, ackVars, deadline, faults>>

WriteHeader(e) ==
    /\ writer[e].pc = "header"
    /\ Ready(e, "W")
    /\ Transmit(e, Datagram("DATAGRAM", writer[e].n))
    /\ writer' = [writer EXCEPT ![e] = Doing("payload", @.n)]
    /\ UNCHANGED <<tpt, userVars, reader, readVars, taken, frames, ackVars>>

\* The frame is on its way: it gets a channel and a goroutine.
WritePayload(e) ==
    /\ writer[e].pc = "payload"
    /\ Transmit(e, Datagram("payload", writer[e].n))
    /\ writer' = [writer EXCEPT ![e] = Doing("notify", @.n)]
    /\ doneCh' = [doneCh EXCEPT ![e][writer[e].n] = "empty"]
    /\ acker' = [acker EXCEPT ![e][writer[e].n] = "waiting"]
    /\ UNCHANGED <<tpt, userVars, reader, readVars, taken, frames, deadline>>

\* The wait or a write fails and writeFrame returns; the entry stays.
AbandonFrame(e) ==
    /\ writer' = [writer EXCEPT ![e] = Idle]
    /\ Respond(e, "W")
    /\ UNCHANGED <<inbox, tpt, called, reader, readVars, taken, frames, ackVars>>

WriteTimesOut(e) ==
    /\ writer[e].pc = "header" /\ TimedOut(e, "W")
    /\ AbandonFrame(e) /\ UNCHANGED faults

\* Without its payload the header stands alone in the stream, as if the payload got lost.
WriteFails(e) ==
    /\ \/ writer[e].pc = "header" /\ Ready(e, "W") /\ Fault("failed")
       \/ writer[e].pc = "payload" /\ Fault("lost") /\ UNCHANGED deadline
    /\ AbandonFrame(e)

\* The reader is asked for the acknowledgement, then the caller is answered.
NotifyReader(e) ==
    /\ writer[e].pc = "notify" /\ tpt[e]["R"] = <<>>
    /\ tpt' = [tpt EXCEPT ![e]["R"] = <<Event("DATA_ACK", 0)>>]
    /\ writer' = [writer EXCEPT ![e] = Idle]
    /\ Respond(e, "W")
    /\ UNCHANGED <<inbox, called, reader, readVars, taken, frames, ackVars, deadline, faults>>

SendDone(e) ==
    /\ writer[e].pc = "done" /\ doneCh[e][writer[e].n] = "empty"
    /\ doneCh' = [doneCh EXCEPT ![e][writer[e].n] = "full"]
    /\ writer' = [writer EXCEPT ![e] = Idle]
    /\ UNCHANGED <<inbox, tpt, userVars, reader, readVars, taken, frames, acker, deadline, faults>>

-----------------------------------------------------------------------------
(* The goroutine that writeFrame leaves behind for a frame                 *)

Acknowledged(e, n) ==
    /\ acker[e][n] = "waiting" /\ doneCh[e][n] = "full"
    /\ doneCh' = [doneCh EXCEPT ![e][n] = "empty"]
    /\ acker' = [acker EXCEPT ![e][n] = "gone"]
    /\ frames' = [frames EXCEPT ![e] = @ \ {n}]
    /\ UNCHANGED <<inbox, tpt, userVars, reader, readVars, writer, taken, deadline, faults>>

AckTimeout(e, n) ==
    /\ acker[e][n] = "waiting"
    /\ acker' = [acker EXCEPT ![e][n] = "repeat"]
    /\ UNCHANGED <<inbox, tpt, userVars, reader, readVars, writer, taken, frames, doneCh,
                   deadline, faults>>

AskRepeat(e, n) ==
    /\ acker[e][n] = "repeat" /\ tpt[e]["W"] = <<>>
    /\ tpt' = [tpt EXCEPT ![e]["W"] = <<Event("REPEAT", n)>>]
    /\ acker' = [acker EXCEPT ![e][n] = "gone"]
    /\ UNCHANGED <<inbox, userVars, reader, readVars, writer, taken, frames, doneCh,
                   deadline, faults>>

-----------------------------------------------------------------------------

UserNext(e) == \E m \in Directions : Call(e, m)
ReaderNext(e) ==
    \/ TakeRead(e) \/ ParseHeader(e) \/ ReadTimesOut(e) \/ ReadFails(e)
    \/ PushNumbers(e) \/ ReadPayload(e)
WriterNext(e) ==
    \/ TakeWrite(e) \/ PutOn(e) \/ WriteHeader(e) \/ WritePayload(e) \/ WriteTimesOut(e)
    \/ WriteFails(e) \/ NotifyReader(e) \/ SendDone(e)
AckerNext(e) ==
    \E n \in Frames(e) : Acknowledged(e, n) \/ AckTimeout(e, n) \/ AskRepeat(e, n)
Next ==
    \E e \in Ends :
        \/ UserNext(e) \/ ReaderNext(e) \/ WriterNext(e) \/ AckerNext(e)
        \/ Overtakes(e)
        \/ \E m \in Directions : Expire(e, m)

Spec == Init /\ [][Next]_vars

\* Each goroutine goes on when it can and timers fire; nothing has to fail and
\* nobody has to call.  A wait to write need not end while the reader of the same
\* descriptor waits: that one is armed again in its place (src/epoller/poller.go:360).
Fairness ==
    \A e \in Ends :
        /\ WF_vars(TakeRead(e)) /\ WF_vars(ParseHeader(e)) /\ WF_vars(ReadTimesOut(e))
        /\ WF_vars(PushNumbers(e)) /\ WF_vars(ReadPayload(e))
        /\ WF_vars(TakeWrite(e)) /\ WF_vars(PutOn(e))
        /\ WF_vars(WriteHeader(e) /\ reader[e].pc # "parse")
        /\ WF_vars(WritePayload(e)) /\ WF_vars(WriteTimesOut(e))
        /\ WF_vars(NotifyReader(e)) /\ WF_vars(SendDone(e))
        /\ WF_vars(\E m \in Directions : Expire(e, m))
        /\ WF_vars(AckerNext(e))
LiveSpec == Spec /\ Fairness

-----------------------------------------------------------------------------
(* Properties.                                                             *)

\* The variables have their types; putFrame never gives BuffrW more than maxsize
\* entries, whatever happens to the frames it counts.
TypeOK ==
    /\ plan \in Plans
    /\ \A e \in Ends :
        /\ \A m \in Directions :
            /\ Len(tpt[e][m]) <= 1
            /\ user[e][m] \in {"idle", "waiting", "closed"}
            /\ made[e][m] \in 0 .. Len(Calls(e, m))
            /\ deadline[e][m] \in [open : Nat, err : BOOLEAN]
        /\ reader[e].pc \in {"idle", "parse", "push", "payload"}
        /\ writer[e].pc \in {"idle", "put", "header", "payload", "notify", "done"}
        /\ taken[e] \in 0 .. made[e]["W"]
        /\ frames[e] \subseteq 1 .. taken[e] /\ Cardinality(frames[e]) <= MaxSize
        /\ doneCh[e] \in [Frames(e) -> {"none", "empty", "full"}]
        /\ acker[e] \in [Frames(e) -> {"none", "waiting", "repeat", "gone"}]
        /\ seen[e] \subseteq 1 .. taken[Peer(e)]
        /\ buffer[e] = <<>> \/ \E n \in seen[e] : Len(buffer[e]) < Size(Peer(e), n)
    /\ faults \in [Kinds -> Nat] /\ \A k \in Kinds : faults[k] <= plan.faults[k]

Confirmed(e) == {n \in Frames(e) : acker[e][n] = "gone"} \ frames[e]

\* A frame leaves BuffrW as acknowledged only after the other end has parsed its
\* header, whichever of its header, payload and acknowledgement got lost.
AckedWereRead == \A e \in Ends : Confirmed(e) \subseteq seen[Peer(e)]

\* Nothing has happened to the datagrams that were sent.
Undisturbed == \A k \in {"lost", "doubled", "overtaken"} : faults[k] = 0

\* Byte b may follow byte a in what Read returns: it is the next one, the one
\* that BufferR kept, or the first one of another frame after a whole frame.
MayFollow(e, a, b) ==
    \/ b[1] = a[1] /\ b[2] - a[2] \in {0, 1}
    \/ a[1] \in Frames(Peer(e)) /\ a[2] = Size(Peer(e), a[1]) /\ b[2] = 1

\* However a user splits its Reads, and however late a payload comes, no byte within
\* a frame is skipped: the rest of a frame that did not fit is returned first, before
\* anything newer (as long as the network loses, doubles and reorders nothing).
NoByteSkipped ==
    Undisturbed =>
        \A e \in Ends : \A i \in 1 .. Len(got[e]) - 1 : MayFollow(e, got[e][i], got[e][i + 1])

\* The last frame of the peer of which Read has returned a byte.
OfFrames(e) == {i \in DOMAIN got[e] : got[e][i][1] > 0}
LastFrame(e) ==
    IF OfFrames(e) = {} THEN 0
    ELSE got[e][CHOOSE i \in OfFrames(e) : \A j \in OfFrames(e) : j <= i][1]

\* Both ends together are a pipe that may lose frames, invents none and confirms only
\* those that arrived, whatever the network does; and as long as no datagram overtakes
\* another, frames arrive in their order, each once, and their bytes are returned in it.
Frames2 == INSTANCE Pipe WITH
    sent <- taken, arrived <- seen,
    confirmed <- [e \in Ends |-> Confirmed(e)],
    surfaced <- [e \in Ends |-> LastFrame(e)],
    orderly <- faults["overtaken"] = 0
KeepsOrder == Frames2!Spec

\* A goroutine waits at a channel that nobody will empty: the writer at its own
\* slot, at a doneCh whose goroutine has gone, or at the slot of a reader that
\* waits in turn, for the network or for the writer.
SelfBlocked(e) == writer[e].pc = "put" /\ tpt[e]["W"] # <<>>
DoneBlocked(e) ==
    writer[e].pc = "done" /\ doneCh[e][writer[e].n] = "full" /\ acker[e][writer[e].n] = "gone"
NotifyBlocked(e) ==
    /\ writer[e].pc = "notify" /\ tpt[e]["R"] # <<>>
    /\ \/ reader[e].pc = "push" /\ tpt[e]["W"] # <<>>
       \/ reader[e].pc = "parse" /\ inbox[e] = <<>>
WriterBlocked(e) == SelfBlocked(e) \/ DoneBlocked(e) \/ NotifyBlocked(e)

\* Both goroutines of the end wait for the same descriptor.
Starved(e) == writer[e].pc = "header" /\ reader[e].pc = "parse"


\* "if frame buffer is not full, add the next frame" (src/transport1.go:268): a
\* frame that has been given a number gets its entry.
AddsFrame == \A e \in Ends : writer[e].pc = "put" ~> writer[e].pc # "put"

=============================================================================
