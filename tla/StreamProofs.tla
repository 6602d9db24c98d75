---------------------------- MODULE StreamProofs ----------------------------
(***************************************************************************)
(* What Read returns (Conn): the bytes of a frame, none of them skipped,   *)
(* over a network that loses, doubles and reorders nothing.  There the     *)
(* payload of a frame is right behind its header, even when the reader has *)
(* given up a payload that came late, so the rest of a frame is never      *)
(* filled with bytes of another datagram.                                  *)
(***************************************************************************)
EXTENDS ConnProofs

-----------------------------------------------------------------------------
(* A header and its payload stay together.                                 *)

\* q is an inbox and w is the writer of the other end.
Paired(q, w) ==
    \A i \in 1 .. Len(q) : q[i].kind = "DATAGRAM" =>
        IF i < Len(q) THEN q[i + 1] = Datagram("payload", q[i].n)
        ELSE w = Doing("payload", q[i].n)

\* A reader that has parsed the header of a frame finds its payload first.
Expects(r) == r.pc = "payload" \/ (r.pc = "push" /\ r.flag = "DATAGRAM")
Awaits(r, q, w) ==
    Expects(r) => IF q = <<>> THEN w = Doing("payload", r.n) ELSE q[1] = Datagram("payload", r.n)

AlignedAt(e) ==
    Paired(inbox[e], writer[Peer(e)]) /\ Awaits(reader[e], inbox[e], writer[Peer(e)])
Aligned == Undisturbed => \A e \in Ends : AlignedAt(e)

LEMMA PairedTail ==
    ASSUME NEW q \in Seq(Datagrams), q # <<>>, NEW w, Paired(q, w)
    PROVE  /\ Tail(q) \in Seq(Datagrams) /\ Paired(Tail(q), w)
           /\ Head(q) = q[1]
           /\ q[1].kind = "DATAGRAM" =>
                IF Tail(q) = <<>> THEN w = Doing("payload", q[1].n)
                ELSE Tail(q)[1] = Datagram("payload", q[1].n)
<1> DEFINE t == Tail(q)
<1>1. t \in Seq(Datagrams) /\ Len(t) = Len(q) - 1 /\ \A i \in 1 .. Len(q) - 1 : t[i] = q[i + 1]
    OBVIOUS
<1>5. Len(q) \in Nat /\ Len(q) > 0 /\ Head(q) = q[1]
    OBVIOUS
<1> HIDE DEF t
<1>6. t = <<>> <=> Len(t) = 0
    BY <1>1
<1>2. Len(q) \in Nat /\ Len(q) > 0 /\ Head(q) = q[1] /\ (t = <<>> <=> Len(q) = 1)
    BY <1>1, <1>5, <1>6
<1>3. ASSUME NEW i \in 1 .. Len(t), t[i].kind = "DATAGRAM"
      PROVE  IF i < Len(t) THEN t[i + 1] = Datagram("payload", t[i].n)
             ELSE w = Doing("payload", t[i].n)
  <2>1. i + 1 \in 1 .. Len(q) /\ t[i] = q[i + 1]
        /\ (i < Len(t) => i + 1 < Len(q) /\ t[i + 1] = q[(i + 1) + 1])
        /\ (~(i < Len(t)) => ~(i + 1 < Len(q)))
      BY <1>1, <1>2
  <2> QED BY <1>3, <2>1 DEF Paired
<1>4. q[1].kind = "DATAGRAM" =>
        IF t = <<>> THEN w = Doing("payload", q[1].n) ELSE t[1] = Datagram("payload", q[1].n)
  <2>1. 1 \in 1 .. Len(q) /\ (t # <<>> => 1 < Len(q) /\ t[1] = q[1 + 1])
        /\ (t = <<>> => ~(1 < Len(q)))
      BY <1>1, <1>2
  <2> QED BY <2>1 DEF Paired
<1> QED BY <1>1, <1>2, <1>3, <1>4 DEF Paired, t

\* The writer sends a datagram: the payload when it has just sent a header.
LEMMA PairedAppend ==
    ASSUME NEW q \in Seq(Datagrams), NEW d \in Datagrams, NEW w, NEW v, NEW r,
           Paired(q, w), Awaits(r, q, w),
           w.pc = "payload" => d = Datagram("payload", w.n),
           d.kind = "DATAGRAM" => v = Doing("payload", d.n)
    PROVE  Paired(q \o <<d>>, v) /\ Awaits(r, q \o <<d>>, v)
<1> DEFINE u == q \o <<d>>
           k == Len(q)
<1>1. k \in Nat /\ Len(u) = k + 1 /\ u[k + 1] = d /\ \A i \in 1 .. k : u[i] = q[i]
    OBVIOUS
<1>2. u # <<>> /\ (q = <<>> <=> k = 0)
    BY <1>1
<1>3. \A n : w = Doing("payload", n) => d = Datagram("payload", n)
    BY DEF Doing
<1> HIDE DEF u
<1>4. ASSUME NEW i \in 1 .. Len(u), u[i].kind = "DATAGRAM"
      PROVE  IF i < Len(u) THEN u[i + 1] = Datagram("payload", u[i].n)
             ELSE v = Doing("payload", u[i].n)
  <2>1. CASE i = k + 1
      BY <1>1, <1>4, <2>1
  <2>2. CASE i = k
    <3>1. i < Len(u) /\ u[i] = q[i] /\ u[i + 1] = d /\ i \in 1 .. Len(q) /\ ~(i < Len(q))
        BY <1>1, <2>2
    <3> QED BY <1>3, <1>4, <3>1 DEF Paired
  <2>3. CASE i < k
    <3>1. i < Len(u) /\ u[i] = q[i] /\ u[i + 1] = q[i + 1] /\ i \in 1 .. Len(q) /\ i < Len(q)
        BY <1>1, <2>3
    <3> QED BY <1>4, <3>1 DEF Paired
  <2> QED BY <1>1, <2>1, <2>2, <2>3
<1>5. Awaits(r, u, v)
  <2>1. k = 0 => u[1] = d
      BY <1>1
  <2>2. k > 0 => u[1] = q[1]
      BY <1>1
  <2> QED BY <1>1, <1>2, <1>3, <2>1, <2>2 DEF Awaits
<1> QED BY <1>4, <1>5 DEF Paired, u

\* What a writer does that has no payload to send does not matter.
LEMMA PairedRests ==
    ASSUME NEW q \in Seq(Datagrams), NEW w, NEW v, NEW r, w.pc # "payload",
           Paired(q, w), Awaits(r, q, w)
    PROVE  Paired(q, v) /\ Awaits(r, q, v)
<1>1. \A n : w # Doing("payload", n)
    BY DEF Doing
<1> QED BY <1>1 DEF Paired, Awaits

\* Nothing has happened to the datagrams that were sent, and nothing happens to them.
LEMMA Calm ==
    ASSUME Types, Undisturbed', NEW kind \in Kinds, Fault(kind)
    PROVE  kind = "failed" /\ Undisturbed
<1>1. faults \in [Kinds -> Nat] /\ faults' = [faults EXCEPT ![kind] = faults[kind] + 1]
    BY DEF Types, NetTypes, Fault
<1>2. faults[kind] \in Nat /\ faults'[kind] = faults[kind] + 1
      /\ \A k \in Kinds : k # kind => faults'[k] = faults[k]
    BY <1>1
<1>3. faults'[kind] # 0
    BY <1>2
<1> QED BY <1>2, <1>3 DEF Undisturbed, Kinds

LEMMA CalmSends ==
    ASSUME Types, Undisturbed', NEW e \in Ends, NEW d \in Datagrams, Transmit(e, d)
    PROVE  /\ Undisturbed /\ inbox'[Peer(e)] = inbox[Peer(e)] \o <<d>>
           /\ inbox'[e] = inbox[e]
<1>1. inbox' = Delivered(e, d, 1) /\ UNCHANGED faults
    BY Calm DEF Transmit, Kinds
<1>2. [i \in 1 .. 1 |-> d] = <<d>>
    OBVIOUS
<1>3. inbox' = [inbox EXCEPT ![Peer(e)] = @ \o <<d>>]
    BY <1>1, <1>2 DEF Delivered
<1>4. inbox \in [Ends -> Seq(Datagrams)]
    BY DEF Types, NetTypes
<1> QED BY <1>1, <1>3, <1>4, PeerFacts DEF Undisturbed

LEMMA CalmNext ==
    ASSUME Types, [Next]_vars, Undisturbed'
    PROVE  Undisturbed
<1>1. CASE UNCHANGED faults
    BY <1>1 DEF Undisturbed
<1>2. ASSUME NEW e \in Ends, NEW d, Transmit(e, d)
      PROVE  Undisturbed
    BY <1>1, <1>2, Calm DEF Transmit, Kinds
<1>3. ASSUME NEW kind \in Kinds, Fault(kind) PROVE Undisturbed
    BY <1>3, Calm
<1>4. CASE Next
  <2>1. PICK e \in Ends : UserNext(e) \/ ReaderNext(e) \/ WriterNext(e) \/ AckerNext(e)
                          \/ Overtakes(e) \/ \E m \in Directions : Expire(e, m)
      BY <1>4 DEF Next
  <2>2. CASE UserNext(e) \/ AckerNext(e) \/ \E m \in Directions : Expire(e, m)
      BY <1>1, <2>2 DEF UserNext, Call, AckerNext, Acknowledged, AckTimeout, AskRepeat, Expire
  <2>3. CASE ReaderNext(e)
      BY <1>1, <1>3, <2>3 DEF Kinds, ReaderNext, TakeRead, ParseHeader, ReadTimesOut, ReadFails,
         PushNumbers, ReadPayload
  <2>4. CASE Overtakes(e)
      BY <1>3, <2>4 DEF Overtakes, Kinds
  <2>5. CASE TakeWrite(e)
    <3>1. UNCHANGED faults \/ \E d : Transmit(e, d)
        BY <2>5 DEF TakeWrite, AcknowSeqnum, Stored, SendClosing
    <3> QED BY <1>1, <1>2, <3>1
  <2>6. CASE WriteHeader(e) \/ WritePayload(e)
      BY <1>2, <2>6 DEF WriteHeader, WritePayload
  <2>7. CASE PutOn(e) \/ WriteTimesOut(e) \/ WriteFails(e) \/ NotifyReader(e) \/ SendDone(e)
      BY <1>1, <1>3, <2>7 DEF Kinds, PutOn, WriteTimesOut, WriteFails, NotifyReader, SendDone
  <2> QED BY <2>1, <2>2, <2>3, <2>4, <2>5, <2>6, <2>7 DEF WriterNext
<1> QED BY <1>1, <1>4 DEF vars

\* Steps that touch neither an inbox nor what reader and writer are doing.
LEMMA AlignedWriter ==
    ASSUME IInv, Undisturbed', \A x \in Ends : AlignedAt(x), NEW e \in Ends, WriterNext(e)
    PROVE  \A x \in Ends : AlignedAt(x)'
<1> DEFINE p == Peer(e)
           w == writer[e]
<1>1. /\ Types /\ p \in Ends /\ p # e /\ Peer(p) = e /\ writer \in [Ends -> WriterStates]
      /\ inbox[p] \in Seq(Datagrams) /\ AlignedAt(e) /\ AlignedAt(p)
      /\ (\A x \in Ends : x = e \/ x = p) /\ tpt \in [Ends -> [Directions -> Slots]]
    BY PeerFacts, WriterFacts DEF Types, NetTypes, Ends, Peer
<1>2. reader' = reader /\ writer'[p] = writer[p]
  <2>1. reader' = reader
      BY DEF WriterNext, TakeWrite, PutOn, WriteHeader, WritePayload, WriteTimesOut, WriteFails,
             AbandonFrame, NotifyReader, SendDone
  <2>2. writer' = writer \/ \E v : writer' = [writer EXCEPT ![e] = v]
      BY DEF WriterNext, TakeWrite, PutFrame, ResetAckSeqnum, PutOn, WriteHeader, WritePayload,
             WriteTimesOut, WriteFails, AbandonFrame, NotifyReader, SendDone
  <2> QED BY <1>1, <2>1, <2>2
<1>3. ASSUME inbox'[e] = inbox[e] PROVE AlignedAt(e)'
    BY <1>1, <1>2, <1>3 DEF AlignedAt
<1>4. ASSUME w.pc # "payload", inbox' = inbox
      PROVE  \A x \in Ends : AlignedAt(x)'
  <2>1. AlignedAt(p)'
      BY <1>1, <1>2, <1>4, PairedRests DEF AlignedAt
  <2> QED BY <1>1, <1>3, <1>4, <2>1
<1>5. ASSUME NEW d \in Datagrams, Transmit(e, d),
             w.pc = "payload" => d = Datagram("payload", w.n),
             d.kind = "DATAGRAM" => writer'[e] = Doing("payload", d.n)
      PROVE  \A x \in Ends : AlignedAt(x)'
  <2>1. inbox'[p] = inbox[p] \o <<d>> /\ inbox'[e] = inbox[e]
      BY <1>1, <1>5, CalmSends
  <2>2. AlignedAt(p)'
      BY <1>1, <1>2, <1>5, <2>1, PairedAppend DEF AlignedAt
  <2> QED BY <1>1, <1>3, <2>1, <2>2
<1>6. \A kind \in {"DATAGRAM", "DATA_ACK", "payload", "RMT_CLOSING"}, n \in Nat :
        Datagram(kind, n) \in Datagrams /\ Datagram(kind, n).kind = kind
        /\ Datagram(kind, n).n = n
    BY DEF Datagram, Datagrams
<1>7. w # Idle => w.n \in Nat
    BY WriterFacts
<1>8. CASE TakeWrite(e)
  <2>1. w.pc # "payload" /\ tpt[e]["W"] \in Slots /\ tpt[e]["W"] # <<>>
      BY <1>1, <1>8, WriterFacts DEF TakeWrite, Idle
  <2>2. Head(tpt[e]["W"]).arg \in Nat
      BY <2>1, EventFacts DEF Events
  <2>3. inbox' = inbox \/ \E kind \in {"DATA_ACK", "RMT_CLOSING"}, n \in Nat :
                            Transmit(e, Datagram(kind, n))
      BY <1>8, <2>2 DEF TakeWrite, AcknowSeqnum, Stored, SendClosing
  <2> QED BY <1>4, <1>5, <1>6, <2>1, <2>3
<1>9. CASE PutOn(e) \/ WriteTimesOut(e) \/ NotifyReader(e) \/ SendDone(e)
    BY <1>4, <1>9 DEF PutOn, WriteTimesOut, AbandonFrame, NotifyReader, SendDone
<1>10. CASE WriteFails(e)
  <2>1. ~Fault("lost")
      BY <1>1, Calm DEF Kinds
  <2> QED BY <1>4, <1>10, <2>1 DEF WriteFails, AbandonFrame
<1>11. CASE WriteHeader(e)
  <2>1. /\ w.pc = "header" /\ Transmit(e, Datagram("DATAGRAM", w.n))
        /\ writer'[e] = Doing("payload", w.n) /\ w.n \in Nat
      BY <1>1, <1>7, <1>11, IdleFacts DEF WriteHeader
  <2> QED BY <1>5, <1>6, <2>1
<1>12. CASE WritePayload(e)
  <2>1. w.pc = "payload" /\ Transmit(e, Datagram("payload", w.n)) /\ w.n \in Nat
      BY <1>7, <1>12, IdleFacts DEF WritePayload
  <2> QED BY <1>5, <1>6, <2>1
<1> QED BY <1>8, <1>9, <1>10, <1>11, <1>12 DEF WriterNext

-----------------------------------------------------------------------------
(* The reader meets the payload of its frame and nothing else.             *)

LEMMA FillsAlone ==
    ASSUME NEW e \in Ends, NEW q \in Seq(Datagrams), q # <<>>,
           NEW k \in Nat \ {0}, Length(e, q[1]) = k
    PROVE  /\ Fills(e, q, 1, k) # {}
           /\ \A j \in 1 .. Len(q) : \A at \in Fills(e, q, j, k) :
                j = 1 /\ Joined(q, at, j, k) = First(q[1], k)
<1>1. Len(q) \in Nat /\ 1 \in 1 .. Len(q)
    OBVIOUS
<1>2. Fills(e, q, 1, k) # {}
  <2> DEFINE at == [i \in 1 .. 1 |-> 0]
  <2>1. at \in [1 .. 1 -> 0 .. k - 1] /\ at[1] = 0 /\ \A i \in 2 .. 1 : FALSE
      OBVIOUS
  <2> HIDE DEF at
  <2>2. at \in Offsets(e, q, 1, k) /\ at[1] + Length(e, q[1]) >= k
      BY <2>1 DEF Offsets
  <2> QED BY <2>2 DEF Fills
<1>3. ASSUME NEW j \in 1 .. Len(q), NEW at \in Fills(e, q, j, k)
      PROVE  j = 1 /\ Joined(q, at, j, k) = First(q[1], k)
  <2>1. /\ at \in [1 .. j -> 0 .. k - 1] /\ at[1] = 0 /\ at \in Offsets(e, q, j, k)
        /\ \A i \in 2 .. j : at[i] = at[i - 1] + Length(e, q[i - 1])
      BY DEF Fills, Offsets
  <2>2. j = 1
    <3>1. SUFFICES ASSUME j # 1 PROVE FALSE
        OBVIOUS
    <3>2. 2 \in 2 .. j /\ 2 \in 1 .. j /\ 2 - 1 = 1
        BY <1>1, <3>1
    <3>3. at[2] = at[1] + Length(e, q[1])
        BY <2>1, <3>2
    <3>4. at[2] \in 0 .. k - 1
        BY <2>1, <3>2
    <3> QED BY <2>1, <3>3, <3>4
  <2>3. ASSUME NEW p \in 1 .. k
        PROVE  Byte(q[Source(at, j, p)], p - at[Source(at, j, p)]) = Byte(q[1], p)
    <3>1. Source(at, j, p) \in 1 .. j
        BY <2>1, JoinedFacts
    <3>2. Source(at, j, p) = 1 /\ p - at[1] = p
        BY <2>1, <2>2, <3>1
    <3> QED BY <3>2
  <2> QED BY <2>2, <2>3 DEF Joined, First
<1> QED BY <1>2, <1>3

\* An aligned ReadPayload takes the payload it is for, or finds nothing there.
FrameRead(e) ==
    LET n == reader[e].n
        size == reader[e].size
        k == Size(Peer(e), n)
        d == Datagram("payload", n) IN
    /\ inbox[e] # <<>> /\ inbox[e][1] = d /\ inbox' = [inbox EXCEPT ![e] = Tail(@)]
    /\ \/ /\ size >= k
          /\ got' = [got EXCEPT ![e] = @ \o First(d, k)] /\ buffer' = buffer
       \/ /\ size < k
          /\ got' = [got EXCEPT ![e] = @ \o First(d, size)]
          /\ buffer' = [buffer EXCEPT ![e] = SubSeq(First(d, k), size + 1, k)]

LEMMA ReadAligned ==
    ASSUME IInv, NEW e \in Ends, ArgsAt(e), AlignedAt(e), ReadPayload(e)
    PROVE  UNCHANGED <<inbox, buffer, got>> \/ FrameRead(e)
<1> DEFINE n == reader[e].n
           size == reader[e].size
           k == Size(Peer(e), n)
           d == Datagram("payload", n)
           box == inbox[e]
<1>1. n \in 1 .. taken[Peer(e)] /\ k \in Nat \ {0}
    BY PayloadFacts
<1>2. /\ box \in Seq(Datagrams) /\ reader[e].pc = "payload" /\ inbox \in [Ends -> Seq(Datagrams)]
      /\ reader[e] \in ReaderStates /\ size > 0
    BY DEF IInv, Types, NetTypes, ThreadTypes, ReadPayload, ArgsAt
<1>3. size \in Nat
    BY <1>2 DEF ReaderStates, Idle
<1>4. d.kind = "payload" /\ d.n = n /\ Length(e, d) = k /\ Matches(d, n)
    BY DEF Datagram, Length, Matches
<1>5. ASSUME box # <<>> PROVE Head(box) = d /\ box[1] = d
  <2>1. box[1] = d
      BY <1>2, <1>5 DEF AlignedAt, Awaits, Expects
  <2>2. Head(box) = box[1]
      BY <1>2, <1>5
  <2> QED BY <2>1, <2>2
<1> HIDE DEF n, size, k, d, box
<1>6. PICK here \in 0 .. Len(box) :
        LET q == SubSeq(box, 1, here)
            peeked == IF size < Length(e, Head(box)) THEN size ELSE Length(e, Head(box))
            Counts == {j \in 1 .. here : j <= k} IN
        \/ here = 0 /\ UNCHANGED <<inbox, buffer, got>>
        \/ /\ here > 0 /\ size >= k
           /\ inbox' = [inbox EXCEPT ![e] = Tail(@)]
           /\ got' = IF Matches(Head(box), n) THEN [got EXCEPT ![e] = @ \o First(Head(box), k)]
                                              ELSE got
           /\ UNCHANGED buffer
        \/ /\ here > 0 /\ size < k
           /\ got' = [got EXCEPT ![e] = @ \o First(Head(box), peeked)]
           /\ \/ \E j \in Counts : \E at \in Fills(e, q, j, k) :
                  /\ inbox' = [inbox EXCEPT ![e] = SubSeq(@, j + 1, Len(@))]
                  /\ buffer' = [buffer EXCEPT ![e] = SubSeq(Joined(q, at, j, k), peeked + 1, k)]
              \/ \A j \in Counts : Fills(e, q, j, k) = {}
    BY DEF ReadPayload, n, size, k, box
<1>7. CASE here = 0
    BY <1>3, <1>6, <1>7
<1>8. CASE here > 0 /\ size >= k
  <2>1. box # <<>>
      BY <1>2, <1>8
  <2>2. ~(here = 0) /\ ~(size < k) /\ Matches(Head(box), n) /\ Head(box) = d
      BY <1>1, <1>3, <1>4, <1>5, <1>8, <2>1
  <2>3. /\ inbox' = [inbox EXCEPT ![e] = Tail(@)] /\ buffer' = buffer
        /\ got' = IF Matches(Head(box), n) THEN [got EXCEPT ![e] = @ \o First(Head(box), k)]
                                           ELSE got
      BY <1>6, <2>2
  <2> QED BY <1>5, <1>8, <2>1, <2>2, <2>3 DEF FrameRead, n, size, k, d, box
<1>9. CASE here > 0 /\ ~(size >= k)
  <2> DEFINE q == SubSeq(box, 1, here)
  <2>1. box # <<>> /\ 1 \in 1 .. here
      BY <1>2, <1>9
  <2>2. q \in Seq(Datagrams) /\ q # <<>> /\ q[1] = d /\ Len(q) = here
    <3>1. q \in Seq(Datagrams) /\ q[1] = box[1] /\ Len(q) = here
        BY <1>2, <2>1
    <3> HIDE DEF q
    <3> QED BY <1>5, <2>1, <3>1
  <2> HIDE DEF q
  <2>3. size < k /\ Length(e, Head(box)) = k /\ 1 \in {j \in 1 .. here : j <= k}
      BY <1>1, <1>3, <1>4, <1>5, <1>9, <2>1
  <2>4. /\ Fills(e, q, 1, k) # {}
        /\ \A j \in 1 .. here : \A at \in Fills(e, q, j, k) :
                j = 1 /\ Joined(q, at, j, k) = First(d, k)
      BY <1>1, <1>4, <2>2, FillsAlone
  <2> DEFINE peeked == IF size < Length(e, Head(box)) THEN size ELSE Length(e, Head(box))
             Counts == {j \in 1 .. here : j <= k}
  <2>9. peeked = size /\ Head(box) = d /\ 1 \in Counts /\ Counts \subseteq 1 .. here
      BY <1>5, <2>1, <2>3
  <2>10. /\ got' = [got EXCEPT ![e] = @ \o First(Head(box), peeked)]
         /\ \/ \E j \in Counts : \E at \in Fills(e, q, j, k) :
                /\ inbox' = [inbox EXCEPT ![e] = SubSeq(@, j + 1, Len(@))]
                /\ buffer' = [buffer EXCEPT ![e] = SubSeq(Joined(q, at, j, k), peeked + 1, k)]
            \/ \A j \in Counts : Fills(e, q, j, k) = {}
    <3>1. ~(here = 0) /\ ~(size >= k)
        BY <1>9
    <3> QED BY <1>6, <3>1 DEF q
  <2> HIDE DEF peeked, Counts
  <2>11. got' = [got EXCEPT ![e] = @ \o First(d, size)]
      BY <2>9, <2>10
  <2>5. PICK j \in 1 .. here : \E at \in Fills(e, q, j, k) :
            /\ inbox' = [inbox EXCEPT ![e] = SubSeq(@, j + 1, Len(@))]
            /\ buffer' = [buffer EXCEPT ![e] = SubSeq(Joined(q, at, j, k), size + 1, k)]
      BY <2>4, <2>9, <2>10
  <2>6. /\ inbox' = [inbox EXCEPT ![e] = SubSeq(@, 1 + 1, Len(@))]
        /\ buffer' = [buffer EXCEPT ![e] = SubSeq(First(d, k), size + 1, k)]
        /\ got' = [got EXCEPT ![e] = @ \o First(d, size)]
      BY <2>4, <2>5, <2>11
  <2>7. SubSeq(box, 1 + 1, Len(box)) = Tail(box)
      BY <1>2, <2>1 DEF Tail
  <2>8. inbox' = [inbox EXCEPT ![e] = Tail(@)]
      BY <2>6, <2>7 DEF box
  <2> QED BY <1>5, <2>1, <2>3, <2>6, <2>8 DEF FrameRead, n, size, k, d, box
<1> QED BY <1>2, <1>6, <1>7, <1>8, <1>9

LEMMA AlignedReader ==
    ASSUME IInv, \A x \in Ends : AlignedAt(x) /\ ArgsAt(x), NEW e \in Ends, ReaderNext(e)
    PROVE  \A x \in Ends : AlignedAt(x)'
<1> DEFINE r == reader[e]
           q == inbox[e]
           w == writer[Peer(e)]
<1>1. /\ Types /\ q \in Seq(Datagrams) /\ inbox \in [Ends -> Seq(Datagrams)]
      /\ reader \in [Ends -> ReaderStates] /\ Paired(q, w) /\ Awaits(r, q, w)
    BY DEF IInv, Types, NetTypes, ThreadTypes, AlignedAt
<1>2. /\ writer' = writer
      /\ reader' = reader \/ \E v : reader' = [reader EXCEPT ![e] = v]
      /\ inbox' = inbox \/ \E v : inbox' = [inbox EXCEPT ![e] = v]
  <2>1. writer' = writer
      BY DEF ReaderNext, TakeRead, ParseHeader, ReadTimesOut, ReadFails, PushNumbers, ReadPayload
  <2>2. reader' = reader \/ \E v : reader' = [reader EXCEPT ![e] = v]
      BY DEF ReaderNext, TakeRead, ParseHeader, ReadTimesOut, ReadFails, PushNumbers, ReadPayload,
             EndRead
  <2>3. inbox' = inbox \/ \E v : inbox' = [inbox EXCEPT ![e] = v]
      BY DEF ReaderNext, TakeRead, ParseHeader, ReadTimesOut, ReadFails, PushNumbers, ReadPayload
  <2> QED BY <2>1, <2>2, <2>3
<1>3. ASSUME NEW x \in Ends, x # e PROVE AlignedAt(x)'
    BY <1>1, <1>2, <1>3 DEF AlignedAt
<1>4. SUFFICES Paired(inbox'[e], w) /\ Awaits(reader'[e], inbox'[e], w)
    BY <1>2, <1>3 DEF AlignedAt
<1>5. ~Expects(Idle) /\ \A size : ~Expects(Parsing(size))
    BY DEF Expects, Idle, Parsing
<1>6. CASE inbox' = inbox /\ (reader'[e] = r \/ ~Expects(reader'[e]))
    BY <1>1, <1>6 DEF Awaits
<1>7. CASE TakeRead(e)
    BY <1>1, <1>5, <1>6, <1>7 DEF TakeRead
<1>8. CASE ReadTimesOut(e) \/ ReadFails(e)
    BY <1>1, <1>5, <1>6, <1>8 DEF ReadTimesOut, ReadFails, EndRead
<1>9. CASE ParseHeader(e)
  <2>1. q # <<>> /\ inbox'[e] = Tail(q)
      BY <1>1, <1>9 DEF ParseHeader
  <2>2. /\ Paired(Tail(q), w) /\ Head(q) = q[1]
        /\ q[1].kind = "DATAGRAM" =>
              IF Tail(q) = <<>> THEN w = Doing("payload", q[1].n)
              ELSE Tail(q)[1] = Datagram("payload", q[1].n)
      BY <1>1, <2>1, PairedTail
  <2>3. \/ reader' = [reader EXCEPT ![e] = Idle]
        \/ reader' = [reader EXCEPT ![e] = [pc |-> "push", size |-> r.size,
                                             flag |-> Head(q).kind, n |-> Head(q).n]]
      BY <1>9 DEF ParseHeader, EndRead
  <2>4. \/ reader'[e] = Idle
        \/ reader'[e] = [pc |-> "push", size |-> r.size, flag |-> Head(q).kind, n |-> Head(q).n]
      BY <1>1, <2>3
  <2>5. Expects(reader'[e]) => Head(q).kind = "DATAGRAM" /\ reader'[e].n = Head(q).n
      BY <1>5, <2>4 DEF Expects
  <2> QED BY <2>1, <2>2, <2>5 DEF Awaits
<1>10. CASE PushNumbers(e)
  <2>1. inbox' = inbox /\ r.pc = "push"
        /\ \/ reader' = [reader EXCEPT ![e] = Idle]
           \/ /\ r.flag = "DATAGRAM"
              /\ reader' = [reader EXCEPT ![e] = [pc |-> "payload", size |-> r.size, n |-> r.n]]
      BY <1>10 DEF PushNumbers, EndRead
  <2>2. reader'[e] = Idle \/ (Expects(r) /\ reader'[e].n = r.n)
      BY <1>1, <2>1 DEF Expects
  <2> QED BY <1>1, <1>5, <2>1, <2>2 DEF Awaits
<1>11. CASE ReadPayload(e)
  <2>1. reader'[e] = Idle
      BY <1>1, <1>11 DEF ReadPayload, EndRead
  <2>2. CASE inbox' = inbox
      BY <1>5, <1>6, <2>1, <2>2
  <2>3. CASE FrameRead(e)
    <3>1. q # <<>> /\ inbox'[e] = Tail(q)
        BY <1>1, <2>3 DEF FrameRead
    <3>2. Paired(Tail(q), w)
        BY <1>1, <3>1, PairedTail
    <3> QED BY <1>5, <2>1, <3>1, <3>2 DEF Awaits
  <2> QED BY <1>11, <2>2, <2>3, ReadAligned
<1> QED BY <1>7, <1>8, <1>9, <1>10, <1>11 DEF ReaderNext

LEMMA AlignedNext ==
    ASSUME IInv, Sizes, [Next]_vars, Aligned
    PROVE  Aligned'
<1> SUFFICES ASSUME Undisturbed' PROVE \A x \in Ends : AlignedAt(x)'
    BY DEF Aligned
<1>1. Undisturbed /\ \A x \in Ends : AlignedAt(x) /\ ArgsAt(x)
    BY CalmNext DEF Aligned, Sizes, IInv
<1>2. CASE UNCHANGED <<inbox, reader, writer>>
    BY <1>1, <1>2 DEF AlignedAt
<1>3. CASE Next
  <2>1. PICK e \in Ends : UserNext(e) \/ ReaderNext(e) \/ WriterNext(e) \/ AckerNext(e)
                          \/ Overtakes(e) \/ \E m \in Directions : Expire(e, m)
      BY <1>3 DEF Next
  <2>2. CASE UserNext(e) \/ AckerNext(e) \/ \E m \in Directions : Expire(e, m)
      BY <1>2, <2>2 DEF UserNext, Call, AckerNext, Acknowledged, AckTimeout, AskRepeat, Expire
  <2>3. ~Overtakes(e)
      BY Calm DEF Overtakes, Kinds, IInv
  <2> QED BY <1>1, <2>1, <2>2, <2>3, AlignedReader, AlignedWriter
<1> QED BY <1>2, <1>3 DEF vars

-----------------------------------------------------------------------------
(* The bytes that Read returns.                                            *)

Chain(e, s) == \A i \in 1 .. Len(s) - 1 : MayFollow(e, s[i], s[i + 1])
Complete(e, a) == a[1] \in Frames(Peer(e)) /\ a[2] = Size(Peer(e), a[1])

\* What a reader returned and what is left for it fit together, and a chunk that
\* is left is met before anything is read from the socket.
StreamAt(e) ==
    /\ Chain(e, got[e]) /\ Chain(e, buffer[e])
    /\ buffer[e] # <<>> =>
        /\ got[e] # <<>> /\ MayFollow(e, got[e][Len(got[e])], buffer[e][1])
        /\ Complete(e, buffer[e][Len(buffer[e])])
    /\ buffer[e] = <<>> /\ got[e] # <<>> => Complete(e, got[e][Len(got[e])])
Streams == Undisturbed => \A e \in Ends : StreamAt(e)

LEMMA ChainConcat ==
    ASSUME NEW e \in Ends, NEW s \in Seq(Bytes), NEW t \in Seq(Bytes), Chain(e, s), Chain(e, t),
           s # <<>> /\ t # <<>> => MayFollow(e, s[Len(s)], t[1])
    PROVE  s \o t \in Seq(Bytes) /\ Chain(e, s \o t) /\ Len(s \o t) = Len(s) + Len(t)
           /\ (t # <<>> => (s \o t)[Len(s \o t)] = t[Len(t)])
<1> DEFINE u == s \o t
           k == Len(s)
           l == Len(t)
<1>1. u \in Seq(Bytes) /\ Len(u) = k + l /\ k \in Nat /\ l \in Nat
      /\ \A i \in 1 .. k + l : u[i] = IF i <= k THEN s[i] ELSE t[i - k]
    OBVIOUS
<1>2. (s # <<>> <=> k > 0) /\ (t # <<>> <=> l > 0)
    OBVIOUS
<1> HIDE DEF u
<1>3. ASSUME NEW i \in 1 .. k + l - 1 PROVE MayFollow(e, u[i], u[i + 1])
  <2>1. i \in 1 .. k + l /\ i + 1 \in 1 .. k + l
      BY <1>1
  <2>2. CASE i < k
    <3>1. u[i] = s[i] /\ u[i + 1] = s[i + 1] /\ i \in 1 .. k - 1
        BY <1>1, <2>1, <2>2
    <3> QED BY <3>1 DEF Chain
  <2>3. CASE i = k
    <3>1. u[i] = s[k] /\ u[i + 1] = t[1] /\ k > 0 /\ l > 0
        BY <1>1, <2>1, <2>3
    <3> QED BY <1>2, <3>1
  <2>4. CASE i > k
    <3>1. u[i] = t[i - k] /\ u[i + 1] = t[i + 1 - k] /\ i - k \in 1 .. l - 1
        BY <1>1, <2>1, <2>4
    <3>2. i + 1 - k = (i - k) + 1
        BY <1>1
    <3> QED BY <3>1, <3>2 DEF Chain
  <2> QED BY <1>1, <2>2, <2>3, <2>4
<1>4. t # <<>> => u[Len(u)] = t[l]
    BY <1>1, <1>2
<1> QED BY <1>1, <1>3, <1>4 DEF Chain, u

\* u is the part of s from m to n.
PartOf(e, u, s, m, n) ==
    /\ u \in Seq(Bytes) /\ Chain(e, u) /\ Len(u) = n - m + 1 /\ u # <<>>
    /\ u[1] = s[m] /\ u[Len(u)] = s[n]

LEMMA ChainSub ==
    ASSUME NEW e \in Ends, NEW s \in Seq(Bytes), Chain(e, s), NEW m \in Nat, NEW n \in Nat,
           1 <= m, m <= n, n <= Len(s)
    PROVE  PartOf(e, SubSeq(s, m, n), s, m, n)
<1> DEFINE u == SubSeq(s, m, n)
<1>1. \A i \in m .. n : s[i] \in Bytes
    OBVIOUS
<1>2. u \in Seq(Bytes) /\ Len(u) = n - m + 1 /\ \A i \in 1 .. n - m + 1 : u[i] = s[m + i - 1]
    BY <1>1, SubSeqProperties
<1> HIDE DEF u
<1>3. ASSUME NEW i \in 1 .. Len(u) - 1 PROVE MayFollow(e, u[i], u[i + 1])
  <2>1. u[i] = s[m + i - 1] /\ u[i + 1] = s[(m + i - 1) + 1] /\ m + i - 1 \in 1 .. Len(s) - 1
      BY <1>2
  <2> QED BY <2>1 DEF Chain
<1>4. u # <<>> /\ u[1] = s[m] /\ u[Len(u)] = s[n]
    BY <1>2
<1> QED BY <1>2, <1>3, <1>4 DEF Chain, PartOf, u

\* A Read that a chunk answers, in whole or in part.
LEMMA BufferedStep ==
    ASSUME NEW e \in Ends, NEW chunk \in Seq(Bytes), chunk # <<>>, NEW old \in Seq(Bytes), old # <<>>,
           Chain(e, chunk), Chain(e, old), MayFollow(e, old[Len(old)], chunk[1]),
           Complete(e, chunk[Len(chunk)]), NEW size \in Nat, size > 0
    PROVE  LET new == old \o Copied(chunk, size)
               rest == Kept(chunk, size)
           IN  /\ new \in Seq(Bytes) /\ new # <<>> /\ Chain(e, new) /\ Chain(e, rest)
               /\ rest # <<>> => /\ MayFollow(e, new[Len(new)], rest[1])
                                 /\ Complete(e, rest[Len(rest)])
               /\ rest = <<>> => Complete(e, new[Len(new)])
<1>1. Len(chunk) \in Nat /\ Len(chunk) > 0 /\ Len(old) \in Nat /\ Len(old) > 0
    OBVIOUS
<1>2. CASE size >= Len(chunk)
  <2> DEFINE new == old \o chunk
  <2>1. new \in Seq(Bytes) /\ Chain(e, new) /\ Len(new) = Len(old) + Len(chunk)
        /\ new[Len(new)] = chunk[Len(chunk)]
      BY ChainConcat
  <2>2. new # <<>>
      BY <1>1, <2>1
  <2>3. Chain(e, <<>>)
      BY DEF Chain
  <2> QED BY <1>2, <2>1, <2>2, <2>3 DEF Copied, Kept
<1>3. CASE ~(size >= Len(chunk))
  <2> DEFINE front == SubSeq(chunk, 1, size)
             rest == SubSeq(chunk, size, Len(chunk))
             new == old \o front
  <2>1. 1 <= size /\ size <= Len(chunk) /\ Len(chunk) <= Len(chunk) /\ 1 \in Nat
        /\ 1 <= 1 /\ size \in 1 .. Len(chunk)
      BY <1>1, <1>3
  <2>2. front \in Seq(Bytes) /\ Chain(e, front) /\ front # <<>> /\ front[1] = chunk[1]
        /\ front[Len(front)] = chunk[size] /\ Len(front) = size
    <3>1. PartOf(e, front, chunk, 1, size)
        BY <1>1, <2>1, ChainSub
    <3> HIDE DEF front
    <3> QED BY <2>1, <3>1 DEF PartOf
  <2>3. rest \in Seq(Bytes) /\ Chain(e, rest) /\ rest # <<>> /\ rest[1] = chunk[size]
        /\ rest[Len(rest)] = chunk[Len(chunk)]
    <3>1. PartOf(e, rest, chunk, size, Len(chunk))
        BY <1>1, <2>1, ChainSub
    <3> HIDE DEF rest
    <3> QED BY <3>1 DEF PartOf
  <2>4. Copied(chunk, size) = front /\ Kept(chunk, size) = rest
      BY <1>3 DEF Copied, Kept
  <2>5. chunk[size] \in Bytes
      BY <2>1
  <2>6. MayFollow(e, chunk[size], chunk[size])
    <3>1. \A byte \in Bytes : byte[2] - byte[2] = 0
        BY DEF Bytes
    <3> QED BY <2>5, <3>1 DEF MayFollow
  <2> HIDE DEF front, rest
  <2>7. new \in Seq(Bytes) /\ Chain(e, new) /\ Len(new) = Len(old) + Len(front)
        /\ new[Len(new)] = front[Len(front)]
      BY <2>2, ChainConcat
  <2>8. new # <<>>
      BY <1>1, <2>2, <2>7
  <2> QED BY <2>2, <2>3, <2>4, <2>6, <2>7, <2>8
<1> QED BY <1>2, <1>3

LEMMA FirstChain ==
    ASSUME NEW e \in Ends, NEW n \in Nat, NEW k \in Nat
    PROVE  LET b == First(Datagram("payload", n), k) IN
           /\ b \in Seq(Bytes) /\ Len(b) = k /\ Chain(e, b)
           /\ \A i \in 1 .. k : b[i] = <<n, i>>
<1> DEFINE b == First(Datagram("payload", n), k)
<1>1. b = [i \in 1 .. k |-> <<n, i>>]
    BY DEF First, Byte, Datagram
<1> HIDE DEF b
<1>2. b \in [1 .. k -> Bytes]
    BY <1>1 DEF Bytes
<1>3. b \in Seq(Bytes) /\ Len(b) = k /\ \A i \in 1 .. k : b[i] = <<n, i>>
    BY <1>1, <1>2
<1>4. ASSUME NEW i \in 1 .. k - 1 PROVE MayFollow(e, b[i], b[i + 1])
  <2>1. b[i] = <<n, i>> /\ b[i + 1] = <<n, i + 1>> /\ i + 1 - i = 1
      BY <1>3
  <2> QED BY <2>1 DEF MayFollow
<1> QED BY <1>3, <1>4 DEF Chain, b

\* A Read that takes the first m of the k bytes of a frame.
LEMMA FreshStep ==
    ASSUME NEW e \in Ends, NEW old \in Seq(Bytes), Chain(e, old),
           old # <<>> => Complete(e, old[Len(old)]),
           NEW n \in Nat, NEW m \in Nat \ {0}
    PROVE  LET new == old \o First(Datagram("payload", n), m)
           IN  /\ new \in Seq(Bytes) /\ new # <<>> /\ Chain(e, new)
               /\ new[Len(new)] = <<n, m>>
<1> DEFINE front == First(Datagram("payload", n), m)
           new == old \o front
<1>1. front \in Seq(Bytes) /\ Chain(e, front) /\ Len(front) = m /\ front[1] = <<n, 1>>
      /\ front[m] = <<n, m>>
  <2>1. m \in Nat /\ 1 \in 1 .. m /\ m \in 1 .. m
      OBVIOUS
  <2>2. /\ front \in Seq(Bytes) /\ Len(front) = m /\ Chain(e, front)
        /\ \A i \in 1 .. m : front[i] = <<n, i>>
      BY <2>1, FirstChain
  <2> HIDE DEF front
  <2> QED BY <2>1, <2>2
<1> HIDE DEF front
<1>2. front # <<>>
    BY <1>1
<1>3. old # <<>> => MayFollow(e, old[Len(old)], front[1])
    BY <1>1 DEF MayFollow, Complete
<1>4. new \in Seq(Bytes) /\ Chain(e, new) /\ Len(new) = Len(old) + m
      /\ new[Len(new)] = <<n, m>>
    BY <1>1, <1>2, <1>3, ChainConcat
<1>5. new # <<>>
    BY <1>4
<1> QED BY <1>4, <1>5 DEF front

LEMMA ReadStreams ==
    ASSUME IInv, Sizes, Reads, NEW e \in Ends, AlignedAt(e), TakeRead(e) \/ ReadPayload(e),
           StreamAt(e)
    PROVE  /\ Chain(e, got'[e]) /\ Chain(e, buffer'[e])
           /\ buffer'[e] # <<>> =>
                /\ got'[e] # <<>> /\ MayFollow(e, got'[e][Len(got'[e])], buffer'[e][1])
                /\ Complete(e, buffer'[e][Len(buffer'[e])])
           /\ buffer'[e] = <<>> /\ got'[e] # <<>> => Complete(e, got'[e][Len(got'[e])])
<1> DEFINE old == got[e]
<1>1. buffer \in [Ends -> Seq(Bytes)] /\ got \in [Ends -> Seq(Bytes)] /\ Chain(e, <<>>)
    BY DEF Sizes, Chunks, Reads, Chain
<1>2. CASE UNCHANGED <<buffer, got>>
    BY <1>2 DEF StreamAt
<1>3. CASE TakeRead(e) /\ ~UNCHANGED <<buffer, got>>
  <2> DEFINE req == Head(tpt[e]["R"])
             chunk == buffer[e]
             new == old \o Copied(chunk, req.arg)
             rest == Kept(chunk, req.arg)
  <2>1. /\ req.flag = "READ1" /\ tpt[e]["R"] # <<>> /\ buffer[e] # <<>>
        /\ got' = [got EXCEPT ![e] = new] /\ buffer' = [buffer EXCEPT ![e] = rest]
      BY <1>3 DEF TakeRead, Buffered
  <2>2. req.arg \in Nat /\ req.arg > 0
    <3>1. tpt[e]["R"] \in Slots
        BY WriterFacts
    <3> QED BY <2>1, <3>1, HoldsFacts DEF ArgsAt, Sizes
  <2>3. chunk \in Seq(Bytes) /\ old \in Seq(Bytes) /\ old # <<>> /\ Chain(e, chunk)
        /\ Chain(e, old) /\ MayFollow(e, old[Len(old)], chunk[1])
        /\ Complete(e, chunk[Len(chunk)])
      BY <1>1, <2>1 DEF StreamAt
  <2>4. /\ new \in Seq(Bytes) /\ new # <<>> /\ Chain(e, new) /\ Chain(e, rest)
        /\ rest # <<>> => /\ MayFollow(e, new[Len(new)], rest[1])
                          /\ Complete(e, rest[Len(rest)])
        /\ rest = <<>> => Complete(e, new[Len(new)])
      BY <2>1, <2>2, <2>3, BufferedStep
  <2> HIDE DEF new, rest
  <2>5. got'[e] = new /\ buffer'[e] = rest
      BY <1>1, <2>1
  <2> QED BY <2>4, <2>5
<1>4. CASE FrameRead(e) /\ ReadPayload(e)
  <2> DEFINE n == reader[e].n
             size == reader[e].size
             k == Size(Peer(e), n)
             d == Datagram("payload", n)
             b == First(d, k)
  <2>1. n \in 1 .. taken[Peer(e)] /\ n \in Frames(Peer(e)) /\ k \in Nat \ {0}
    <3>1. n \in 1 .. taken[Peer(e)]
        BY <1>4, PayloadFacts DEF Sizes
    <3> QED BY <3>1, SizeFacts
  <2>2. reader[e] \in ReaderStates /\ reader[e].pc = "payload" /\ size > 0 /\ n \in Nat
    <3>1. reader[e] \in ReaderStates /\ reader[e].pc = "payload" /\ size > 0
        BY <1>4 DEF IInv, Types, ThreadTypes, ReadPayload, Sizes, ArgsAt
    <3>2. n \in Nat
        BY <3>1 DEF ReaderStates, Idle
    <3> QED BY <3>1, <3>2
  <2>3. size \in Nat \ {0} /\ buffer[e] = <<>>
      BY <2>2 DEF ReaderStates, Idle, Reads, FreshAt
  <2>4. old \in Seq(Bytes) /\ Chain(e, old) /\ (old # <<>> => Complete(e, old[Len(old)]))
      BY <1>1, <2>3 DEF StreamAt
  <2>5. Complete(e, <<n, k>>)
      BY <2>1 DEF Complete
  <2>6. /\ b \in Seq(Bytes) /\ Len(b) = k /\ Chain(e, b) /\ \A i \in 1 .. k : b[i] = <<n, i>>
      BY <2>1, <2>2, FirstChain
  <2>7. \A m \in Nat \ {0} :
          /\ old \o First(d, m) \in Seq(Bytes) /\ old \o First(d, m) # <<>>
          /\ Chain(e, old \o First(d, m))
          /\ (old \o First(d, m))[Len(old \o First(d, m))] = <<n, m>>
    <3> HIDE DEF n, old
    <3>1. ASSUME NEW m \in Nat \ {0}
          PROVE  /\ old \o First(d, m) \in Seq(Bytes) /\ old \o First(d, m) # <<>>
                 /\ Chain(e, old \o First(d, m))
                 /\ (old \o First(d, m))[Len(old \o First(d, m))] = <<n, m>>
        BY <2>2, <2>4, FreshStep
    <3> QED BY <3>1
  <2>8. \/ size >= k /\ got' = [got EXCEPT ![e] = old \o First(d, k)] /\ buffer' = buffer
        \/ /\ size < k /\ got' = [got EXCEPT ![e] = old \o First(d, size)]
           /\ buffer' = [buffer EXCEPT ![e] = SubSeq(b, size + 1, k)]
      BY <1>4 DEF FrameRead
  <2> HIDE DEF n, size, k, d, b, old
  <2>9. CASE size >= k /\ got' = [got EXCEPT ![e] = old \o First(d, k)] /\ buffer' = buffer
    <3> DEFINE new == old \o First(d, k)
    <3>1. new \in Seq(Bytes) /\ new # <<>> /\ Chain(e, new) /\ new[Len(new)] = <<n, k>>
        BY <2>1, <2>7
    <3> HIDE DEF new
    <3>2. got'[e] = new /\ buffer'[e] = <<>>
        BY <1>1, <2>3, <2>9 DEF new
    <3> QED BY <1>1, <2>5, <3>1, <3>2
  <2>10. CASE /\ size < k /\ got' = [got EXCEPT ![e] = old \o First(d, size)]
              /\ buffer' = [buffer EXCEPT ![e] = SubSeq(b, size + 1, k)]
    <3> DEFINE new == old \o First(d, size)
               rest == SubSeq(b, size + 1, k)
    <3>1. new \in Seq(Bytes) /\ new # <<>> /\ Chain(e, new) /\ new[Len(new)] = <<n, size>>
        BY <2>3, <2>7
    <3>2. size \in 1 .. k /\ size + 1 \in 1 .. k /\ size + 1 <= k
        BY <2>1, <2>3, <2>10
    <3>3. PartOf(e, rest, b, size + 1, k)
      <4>1. size + 1 \in Nat /\ k \in Nat /\ 1 <= size + 1 /\ k <= Len(b)
          BY <2>1, <2>3, <2>6
      <4> QED BY <2>6, <3>2, <4>1, ChainSub
    <3> HIDE DEF rest, new
    <3>4. rest # <<>> /\ Chain(e, rest) /\ rest[1] = <<n, size + 1>> /\ rest[Len(rest)] = <<n, k>>
        BY <2>1, <2>6, <3>2, <3>3 DEF PartOf
    <3>5. MayFollow(e, <<n, size>>, <<n, size + 1>>)
        BY <2>3 DEF MayFollow
    <3>6. got'[e] = new /\ buffer'[e] = rest
        BY <1>1, <2>10 DEF new, rest
    <3> QED BY <2>5, <3>1, <3>4, <3>5, <3>6
  <2> QED BY <2>8, <2>9, <2>10
<1> QED BY <1>2, <1>3, <1>4, ReadAligned DEF Sizes

LEMMA StreamsNext ==
    ASSUME IInv, Sizes, Reads, Aligned, [Next]_vars, Streams
    PROVE  Streams'
<1> SUFFICES ASSUME Undisturbed' PROVE \A x \in Ends : StreamAt(x)'
    BY DEF Streams
<1>1. /\ buffer \in [Ends -> Seq(Bytes)] /\ got \in [Ends -> Seq(Bytes)]
      /\ \A x \in Ends : StreamAt(x) /\ AlignedAt(x)
    BY CalmNext DEF Sizes, Chunks, Reads, Streams, Aligned, IInv
<1>2. \A x \in Ends : \A a, b :
        (MayFollow(x, a, b)' <=> MayFollow(x, a, b)) /\ (Complete(x, a)' <=> Complete(x, a))
    BY SeenGrows DEF MayFollow, Complete, Frames, Calls, Size
<1>3. ASSUME NEW x \in Ends, got'[x] = got[x], buffer'[x] = buffer[x]
      PROVE  StreamAt(x)'
    BY <1>1, <1>2, <1>3 DEF StreamAt, Chain
<1>4. CASE UNCHANGED <<buffer, got>>
    BY <1>1, <1>3, <1>4
<1>5. ASSUME NEW e \in Ends, TakeRead(e) \/ ReadPayload(e)
      PROVE  \A x \in Ends : StreamAt(x)'
  <2>1. /\ got' = got \/ \E new : got' = [got EXCEPT ![e] = new]
        /\ buffer' = buffer \/ \E rest : buffer' = [buffer EXCEPT ![e] = rest]
    <3>1. CASE TakeRead(e)
        BY <3>1 DEF TakeRead
    <3>2. CASE ReadPayload(e)
        BY <3>2 DEF ReadPayload
    <3> QED BY <1>5, <3>1, <3>2
  <2>2. \A x \in Ends : x # e => got'[x] = got[x] /\ buffer'[x] = buffer[x]
      BY <1>1, <2>1
  <2>3. StreamAt(e)'
      BY <1>1, <1>2, <1>5, ReadStreams DEF StreamAt, Chain
  <2> QED BY <1>3, <2>2, <2>3
<1>6. CASE Next /\ ~UNCHANGED <<buffer, got>>
  <2>1. PICK e \in Ends : UserNext(e) \/ ReaderNext(e) \/ WriterNext(e) \/ AckerNext(e)
                          \/ Overtakes(e) \/ \E m \in Directions : Expire(e, m)
      BY <1>6 DEF Next
  <2>2. ReaderNext(e)
      BY <1>6, <2>1 DEF UserNext, Call, WriterNext, TakeWrite, PutOn, WriteHeader, WritePayload,
         WriteTimesOut, WriteFails, AbandonFrame, NotifyReader, SendDone, AckerNext,
         Acknowledged, AckTimeout, AskRepeat, Overtakes, Expire, readVars
  <2>3. TakeRead(e) \/ ReadPayload(e)
      BY <1>6, <2>2 DEF ReaderNext, ParseHeader, ReadTimesOut, ReadFails, PushNumbers, readVars
  <2> QED BY <1>5, <2>3
<1> QED BY <1>4, <1>6 DEF vars, readVars

\* However a user splits its Reads, and however late a payload comes, no byte within
\* a frame is skipped as long as the network loses, doubles and reorders nothing:
\* for frames and headers of any lengths, any calls and any number of failed waits,
\* reads and deadlines.
THEOREM NothingSkipped == Spec => []NoByteSkipped
<1>1. Init => Aligned /\ Streams
  <2> SUFFICES ASSUME Init PROVE Aligned /\ Streams
      OBVIOUS
  <2>1. \A e \in Ends : Chain(e, <<>>) /\ Paired(<<>>, Idle) /\ Awaits(Idle, <<>>, Idle)
      BY DEF Chain, Paired, Awaits, Expects, Idle
  <2>2. Aligned
      BY <2>1, PeerFacts DEF Init, Aligned, AlignedAt
  <2>3. Streams
      BY <2>1 DEF Init, Streams, StreamAt
  <2> QED BY <2>2, <2>3
<1>2. IInv /\ Sizes /\ Reads /\ Aligned /\ Streams /\ [Next]_vars => Aligned' /\ Streams'
    BY AlignedNext, StreamsNext
<1>3. IInv /\ Sizes /\ Reads /\ [Next]_vars => Sizes' /\ Reads'
    BY RoomNext, ArgsNext, ChunksNext, ReadsNext DEF Sizes
<1>4. Streams => NoByteSkipped
    BY DEF Streams, StreamAt, Chain, NoByteSkipped
<1> QED BY InitSizes, InitReads, Inductive, <1>1, <1>2, <1>3, <1>4, PTL DEF Spec

=============================================================================
