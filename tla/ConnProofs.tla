---------------------------- MODULE ConnProofs ----------------------------
(***************************************************************************)
(* Theorems about Conn: what holds of an open connection for any calls of  *)
(* its users, any number of failures and any size of frames and buffers.   *)
(***************************************************************************)
EXTENDS Conn, TLAPS, FiniteSetTheorems, SequenceTheorems, WellFoundedInduction

-----------------------------------------------------------------------------
(* What the variables hold.                                                *)

Datagrams == [kind : {"DATAGRAM", "DATA_ACK", "payload", "RMT_CLOSING"}, n : Nat]
Events == [flag : {"READ1", "WRITE1", "WRITE2", "DEADLINE", "CLOSING", "DATA_ACK", "DATAGRAM",
                   "REPEAT"},
           arg : Nat]
Slots == {<<>>} \cup {<<ev>> : ev \in Events}
ReaderStates ==
    {Idle} \cup [pc : {"parse"}, size : Nat] \cup [pc : {"payload"}, size : Nat, n : Nat]
    \cup [pc : {"push"}, size : Nat, flag : {"DATAGRAM", "DATA_ACK"}, n : Nat]
WriterStates == {Idle} \cup [pc : {"put", "header", "payload", "notify", "done"}, n : Nat]

DeadlineTypes == [Ends -> [Directions -> [open : Nat, err : BOOLEAN]]]

CallTypes ==
    /\ plan \in Plans
    /\ user \in [Ends -> [Directions -> {"idle", "waiting", "closed"}]]
    /\ made \in [Ends -> [Directions -> Nat]]
    /\ \A e \in Ends, m \in Directions : made[e][m] <= Len(Calls(e, m))
NetTypes ==
    /\ inbox \in [Ends -> Seq(Datagrams)]
    /\ faults \in [Kinds -> Nat] /\ \A k \in Kinds : faults[k] <= plan.faults[k]
    /\ deadline \in DeadlineTypes
ThreadTypes ==
    /\ tpt \in [Ends -> [Directions -> Slots]]
    /\ reader \in [Ends -> ReaderStates]
    /\ writer \in [Ends -> WriterStates]
FrameTypes ==
    /\ taken \in [Ends -> Nat]
    /\ frames \in [Ends -> SUBSET Nat]
    /\ seen \in [Ends -> SUBSET Nat]
    /\ doneCh = [e \in Ends |-> doneCh[e]] /\ acker = [e \in Ends |-> acker[e]]
    /\ \A e \in Ends :
        /\ doneCh[e] \in [Frames(e) -> {"none", "empty", "full"}]
        /\ acker[e] \in [Frames(e) -> {"none", "waiting", "repeat", "gone"}]
Types == CallTypes /\ NetTypes /\ ThreadTypes /\ FrameTypes

-----------------------------------------------------------------------------
(* The inductive invariant: where a number may be tells how far its frame  *)
(* has come.                                                               *)

Asked(e, flag) == tpt[e]["W"] # <<>> /\ Head(tpt[e]["W"]).flag = flag
Number(e) == Head(tpt[e]["W"]).arg

\* A number is taken for one call, in their order.
CountingAt(e) ==
    /\ taken[e] <= made[e]["W"]
    /\ Asked(e, "WRITE1") => taken[e] < made[e]["W"]
    /\ frames[e] \subseteq 1 .. taken[e]
    /\ writer[e].pc = "put" =>
        /\ writer[e].n = taken[e] /\ writer[e].n \in Frames(e) \ frames[e]
        /\ acker[e][writer[e].n] = "none"
    /\ \A n \in Frames(e) : acker[e][n] # "none" => n <= taken[e]

\* A frame that is being written has its entry and no goroutine yet; a goroutine
\* that waits, or asks for a repetition, has an entry.
WritingAt(e) ==
    /\ Asked(e, "WRITE2") =>
        writer[e] = Idle /\ Number(e) \in frames[e] /\ acker[e][Number(e)] = "none"
    /\ writer[e].pc \in {"header", "payload"} =>
        writer[e].n \in frames[e] /\ acker[e][writer[e].n] = "none"
    /\ \A n \in Frames(e) : acker[e][n] \in {"waiting", "repeat"} => n \in frames[e]

\* The number of an acknowledgement, wherever it is, has been seen at the other end.
AckAt(e) ==
    /\ seen[e] \subseteq 1 .. taken[Peer(e)]
    /\ reader[e].pc = "push" =>
        reader[e].n \in IF reader[e].flag = "DATAGRAM" THEN seen[e] ELSE seen[Peer(e)]
    /\ Asked(e, "DATAGRAM") => Number(e) \in seen[e]
    /\ Asked(e, "DATA_ACK") => Number(e) \in seen[Peer(e)]
    /\ writer[e].pc = "done" => writer[e].n \in seen[Peer(e)]
    /\ \A n \in Frames(e) :
        /\ doneCh[e][n] = "full" => n \in seen[Peer(e)]
        /\ acker[e][n] = "gone" /\ n \notin frames[e] => n \in seen[Peer(e)]
TravelAt(e) ==
    \A i \in 1 .. Len(inbox[e]) :
        /\ inbox[e][i].kind \in {"DATAGRAM", "payload"} => inbox[e][i].n \in 1 .. taken[Peer(e)]
        /\ inbox[e][i].kind = "DATA_ACK" => inbox[e][i].n \in seen[Peer(e)]

Local(e) == CountingAt(e) /\ WritingAt(e) /\ AckAt(e)
IInv == Types /\ \A e \in Ends : Local(e) /\ TravelAt(e)

-----------------------------------------------------------------------------
(* Lemmas about the network and the channels.                              *)

LEMMA PeerFacts ==
    ASSUME NEW e \in Ends
    PROVE  Peer(e) \in Ends /\ Peer(e) # e /\ Peer(Peer(e)) = e
BY DEF Ends, Peer

LEMMA EventFacts ==
    ASSUME NEW s \in Slots, s # <<>>
    PROVE  Head(s) \in Events /\ s = <<Head(s)>>
BY DEF Slots

LEMMA SlotFacts == <<>> \in Slots /\ \A ev \in Events : <<ev>> \in Slots
BY DEF Slots

LEMMA HoldsFacts ==
    ASSUME NEW s \in Slots, s # <<>>
    PROVE  Head(s) = Event(Head(s).flag, Head(s).arg) /\ Head(s).arg \in Nat
BY EventFacts DEF Events, Event

FaultTypes == faults \in [Kinds -> Nat] /\ \A k \in Kinds : faults[k] <= plan.faults[k]

LEMMA FaultFacts ==
    ASSUME Types, plan' = plan, NEW kind \in Kinds, Fault(kind) \/ UNCHANGED faults
    PROVE  FaultTypes'
<1>1. faults \in [Kinds -> Nat] /\ plan.faults \in [Kinds -> Nat]
      /\ \A k \in Kinds : faults[k] <= plan.faults[k]
    BY PlansAssumption DEF Types, NetTypes, CallTypes
<1>2. CASE UNCHANGED faults
    BY <1>1, <1>2 DEF FaultTypes
<1>3. CASE Fault(kind)
  <2>1. faults[kind] < plan.faults[kind] /\ faults[kind] \in Nat /\ plan.faults[kind] \in Nat
        /\ faults' = [faults EXCEPT ![kind] = faults[kind] + 1]
      BY <1>1, <1>3 DEF Fault
  <2>2. \A k \in Kinds : faults'[k] = IF k = kind THEN faults[kind] + 1 ELSE faults[k]
      BY <1>1, <2>1
  <2>3. faults' \in [Kinds -> Nat]
      BY <1>1, <2>1
  <2> QED BY <1>1, <2>1, <2>2, <2>3 DEF FaultTypes
<1> QED BY <1>2, <1>3

LEMMA DeadlineMoves ==
    ASSUME Types, NEW e \in Ends, NEW m \in Directions, NEW v \in [open : Nat, err : BOOLEAN],
           deadline' = [deadline EXCEPT ![e][m] = v]
    PROVE  deadline' \in DeadlineTypes
BY DEF Types, NetTypes, DeadlineTypes

LEMMA DeadlineFacts ==
    ASSUME Types, NEW e \in Ends, NEW m \in Directions,
           SetDeadline(e, m) \/ Ready(e, m) \/ TimedOut(e, m)
    PROVE  deadline' \in DeadlineTypes
<1> DEFINE old == deadline[e][m]
<1>1. old \in [open : Nat, err : BOOLEAN] /\ deadline \in DeadlineTypes
    BY DEF Types, NetTypes, DeadlineTypes
<1>2. ASSUME NEW k \in Nat, deadline' = [deadline EXCEPT ![e][m].open = k]
      PROVE  deadline' \in DeadlineTypes
  <2>1. [old EXCEPT !.open = k] \in [open : Nat, err : BOOLEAN]
      BY <1>1
  <2>2. deadline' = [deadline EXCEPT ![e][m] = [old EXCEPT !.open = k]]
      BY <1>2
  <2> HIDE DEF old
  <2> QED BY <2>1, <2>2, DeadlineMoves
<1>3. CASE SetDeadline(e, m)
  <2>1. deadline' = [deadline EXCEPT ![e][m].open = old.open + 1] /\ old.open + 1 \in Nat
      BY <1>1, <1>3 DEF SetDeadline
  <2> QED BY <1>2, <2>1
<1>4. CASE Ready(e, m)
  <2>1. PICK left \in 0 .. old.open : deadline' = [deadline EXCEPT ![e][m].open = left]
      BY <1>4 DEF Ready
  <2>2. left \in Nat
      BY <1>1
  <2> QED BY <1>2, <2>1, <2>2
<1>5. CASE TimedOut(e, m)
  <2>1. CASE UNCHANGED deadline
      BY <1>1, <2>1
  <2>2. CASE old.open > 0 /\ deadline' = [deadline EXCEPT ![e][m].open = old.open - 1]
    <3>1. old.open - 1 \in Nat
        BY <1>1, <2>2
    <3> QED BY <1>2, <2>2, <3>1
  <2> QED BY <1>5, <2>1, <2>2 DEF TimedOut
<1> QED BY <1>3, <1>4, <1>5

\* A datagram that Transmit leaves at the peer was there before or is the new one.
LEMMA Transmitted ==
    ASSUME Types, NEW e \in Ends, NEW d \in Datagrams, Transmit(e, d)
    PROVE  /\ inbox' \in [Ends -> Seq(Datagrams)]
           /\ inbox'[e] = inbox[e]
           /\ plan' = plan => FaultTypes'
           /\ \A i \in 1 .. Len(inbox'[Peer(e)]) :
                \/ inbox'[Peer(e)][i] = d
                \/ \E j \in 1 .. Len(inbox[Peer(e)]) : inbox'[Peer(e)][i] = inbox[Peer(e)][j]
<1> DEFINE p == Peer(e)
           q == inbox[p]
<1>1. p \in Ends /\ p # e /\ q \in Seq(Datagrams) /\ inbox \in [Ends -> Seq(Datagrams)]
    BY PeerFacts DEF Types, NetTypes
<1>2. plan' = plan => FaultTypes'
    BY FaultFacts DEF Transmit, Kinds
<1>6. CASE UNCHANGED inbox
    BY <1>1, <1>2, <1>6
<1>3. ASSUME NEW k \in {1, 2}, inbox' = Delivered(e, d, k)
      PROVE  /\ inbox' \in [Ends -> Seq(Datagrams)]
             /\ inbox'[e] = inbox[e]
             /\ \A i \in 1 .. Len(inbox'[p]) :
                   inbox'[p][i] = d \/ \E j \in 1 .. Len(q) : inbox'[p][i] = q[j]
  <2> DEFINE new == [i \in 1 .. k |-> d]
  <2>1. new \in Seq(Datagrams) /\ Len(new) = k /\ \A i \in 1 .. k : new[i] = d
    <3>1. k \in Nat
        BY <1>3
    <3> QED BY <3>1
  <2>2. q \o new \in Seq(Datagrams) /\ Len(q \o new) = Len(q) + k
        /\ \A i \in 1 .. Len(q) + k :
              (q \o new)[i] = IF i <= Len(q) THEN q[i] ELSE new[i - Len(q)]
      BY <1>1, <2>1
  <2>3. inbox' = [inbox EXCEPT ![p] = q \o new]
      BY <1>3 DEF Delivered
  <2>4. inbox'[p] = q \o new /\ inbox'[e] = inbox[e] /\ inbox' \in [Ends -> Seq(Datagrams)]
      BY <1>1, <2>2, <2>3
  <2>5. Len(q) \in Nat /\ k \in Nat
      BY <1>1
  <2>6. ASSUME NEW i \in 1 .. Len(q) + k PROVE
          (q \o new)[i] = d \/ \E j \in 1 .. Len(q) : (q \o new)[i] = q[j]
    <3>1. CASE i <= Len(q)
        BY <2>2, <2>5, <3>1
    <3>2. CASE ~(i <= Len(q))
      <4>1. i - Len(q) \in 1 .. k
          BY <2>5, <3>2
      <4> QED BY <2>1, <2>2, <3>2, <4>1
    <3> QED BY <3>1, <3>2
  <2> QED BY <2>2, <2>4, <2>6
<1>4. CASE inbox' = Delivered(e, d, 1)
    BY <1>1, <1>2, <1>3, <1>4
<1>5. CASE inbox' = Delivered(e, d, 2)
    BY <1>1, <1>2, <1>3, <1>5
<1> QED BY <1>4, <1>5, <1>6 DEF Transmit

-----------------------------------------------------------------------------
(* A step of one end, seen from the other.                                 *)

Same(x) ==
    /\ plan' = plan /\ made'[x] = made[x] /\ tpt'[x] = tpt[x] /\ reader'[x] = reader[x]
    /\ writer'[x] = writer[x] /\ taken'[x] = taken[x] /\ frames'[x] = frames[x]
    /\ seen'[x] = seen[x] /\ doneCh'[x] = doneCh[x] /\ acker'[x] = acker[x]
Onward(e) == seen[e] \subseteq seen'[e] /\ taken[e] <= taken'[e]

LEMMA Elsewhere ==
    ASSUME IInv, Types', NEW e \in Ends, Same(Peer(e)), Onward(e)
    PROVE  /\ Local(Peer(e))'
           /\ inbox'[Peer(e)] = inbox[Peer(e)] => TravelAt(Peer(e))'
<1> DEFINE x == Peer(e)
<1>1. x \in Ends /\ Peer(x) = e /\ Local(x) /\ TravelAt(x)
    BY PeerFacts DEF IInv
<1>2. Frames(x)' = Frames(x) /\ taken[e] \in Nat /\ taken'[e] \in Nat
    BY <1>1 DEF Same, Frames, Calls, IInv, Types, FrameTypes
<1>3. CountingAt(x)' /\ WritingAt(x)'
    BY <1>1, <1>2 DEF Local, CountingAt, WritingAt, Same, Asked, Number
<1>4. AckAt(x)'
    BY <1>1, <1>2 DEF Local, AckAt, Same, Onward, Asked, Number
<1>5. ASSUME inbox'[x] = inbox[x] PROVE TravelAt(x)'
    BY <1>1, <1>2, <1>5 DEF TravelAt, Same, Onward
<1> QED BY <1>3, <1>4, <1>5 DEF Local

LEMMA EndsFacts ==
    ASSUME NEW e \in Ends, Local(e)', Local(Peer(e))', TravelAt(e)', TravelAt(Peer(e))', Types'
    PROVE  IInv'
<1>1. \A x \in Ends : x = e \/ x = Peer(e)
    BY DEF Ends, Peer
<1> QED BY <1>1 DEF IInv

LEMMA CallStep ==
    ASSUME IInv, NEW e \in Ends, NEW m \in Directions, Call(e, m)
    PROVE  IInv'
<1>1. PICK req \in Calls(e, m)[made[e][m] + 1] : 
        /\ tpt' = [tpt EXCEPT ![e][m] = <<req>>]
        /\ user' = [user EXCEPT ![e][m] =
                      IF req.flag = "CLOSING" THEN "closed" ELSE "waiting"]
    BY DEF Call
<1>2. req \in Events /\ req.flag \in Flags(m)
  <2>1. plan \in Plans /\ made[e][m] \in Nat /\ made[e][m] < Len(Calls(e, m))
      BY DEF Call, IInv, Types, CallTypes
  <2>2. Calls(e, m) \in Seq(SUBSET [flag : Flags(m), arg : Nat])
      BY <2>1, PlansAssumption DEF Calls
  <2>3. made[e][m] + 1 \in 1 .. Len(Calls(e, m))
      BY <2>1, <2>2
  <2>4. req \in [flag : Flags(m), arg : Nat]
      BY <2>2, <2>3
  <2> QED BY <2>4 DEF Events, Flags
<1>3. Types'
  <2>1. CallTypes'
      BY <1>1 DEF Call, IInv, Types, CallTypes, Calls, called
  <2>2. NetTypes' /\ FrameTypes'
      BY DEF Call, IInv, Types, NetTypes, FrameTypes, Frames, Calls, readVars, ackVars
  <2>3. ThreadTypes'
      BY <1>1, <1>2, SlotFacts DEF Call, IInv, Types, ThreadTypes
  <2> QED BY <2>1, <2>2, <2>3 DEF Types
<1>4. Same(Peer(e)) /\ Onward(e) /\ inbox' = inbox
  <2>1. taken[e] \in Nat
      BY DEF IInv, Types, FrameTypes
  <2>2. made'[Peer(e)] = made[Peer(e)] /\ tpt'[Peer(e)] = tpt[Peer(e)]
      BY <1>1, PeerFacts DEF Call, IInv, Types, CallTypes, ThreadTypes
  <2> QED BY <2>1, <2>2 DEF Call, Same, Onward, readVars, ackVars
<1>5. CountingAt(e)' /\ WritingAt(e)' /\ AckAt(e)' /\ TravelAt(e)'
  <2>1. /\ Local(e) /\ TravelAt(e) /\ Frames(e)' = Frames(e)
        /\ made[e]["W"] \in Nat /\ taken[e] \in Nat
      BY DEF IInv, Call, Frames, Calls, Types, CallTypes, FrameTypes, Directions
  <2>2. /\ \/ tpt'[e]["W"] = tpt[e]["W"]
           \/ m = "W" /\ tpt'[e]["W"] = <<req>> /\ made'[e]["W"] = made[e]["W"] + 1
        /\ made'[e]["W"] \in Nat /\ made'[e]["W"] >= made[e]["W"]
    <3>1. /\ made' = [made EXCEPT ![e][m] = @ + 1] /\ m \in {"R", "W"}
          /\ made \in [Ends -> [Directions -> Nat]] /\ tpt \in [Ends -> [Directions -> Slots]]
        BY DEF IInv, Types, CallTypes, ThreadTypes, Call, Directions
    <3>2. m = "R" => tpt'[e]["W"] = tpt[e]["W"] /\ made'[e]["W"] = made[e]["W"]
        BY <1>1, <3>1 DEF Directions
    <3>3. m = "W" => tpt'[e]["W"] = <<req>> /\ made'[e]["W"] = made[e]["W"] + 1
        BY <1>1, <3>1 DEF Directions
    <3> QED BY <2>1, <3>1, <3>2, <3>3
  <2>3. m = "W" => /\ req.flag \in {"DEADLINE", "WRITE1", "CLOSING"}
                   /\ <<req>> # <<>> /\ Head(<<req>>) = req
      BY <1>2 DEF Flags
  <2>4. UNCHANGED <<inbox, reader, seen, writer, taken, frames, doneCh, acker>>
      BY DEF Call, readVars, ackVars
  <2>5. CountingAt(e)'
    <3>1. Asked(e, "WRITE1")' => taken[e] < made'[e]["W"]
        BY <2>1, <2>2, <2>3 DEF Local, CountingAt, Asked
    <3> QED BY <2>1, <2>2, <2>4, <3>1 DEF Local, CountingAt
  <2>6. WritingAt(e)'
      BY <2>1, <2>2, <2>3, <2>4 DEF Local, WritingAt, Asked, Number
  <2>7. AckAt(e)' /\ TravelAt(e)'
      BY <2>1, <2>2, <2>3, <2>4 DEF Local, AckAt, TravelAt, Asked, Number
  <2> QED BY <2>5, <2>6, <2>7
<1> QED BY <1>3, <1>4, <1>5, Elsewhere, EndsFacts DEF Local

-----------------------------------------------------------------------------
(* The reader.                                                             *)

\* The reader only takes datagrams out of its inbox.
Drained(e) ==
    /\ inbox'[Peer(e)] = inbox[Peer(e)]
    /\ \A i \in 1 .. Len(inbox'[e]) : \E j \in 1 .. Len(inbox[e]) : inbox'[e][i] = inbox[e][j]

LEMMA SuffixFacts ==
    ASSUME NEW S, NEW s \in Seq(S), NEW k \in 0 .. Len(s)
    PROVE  /\ SubSeq(s, k + 1, Len(s)) \in Seq(S)
           /\ Len(SubSeq(s, k + 1, Len(s))) = Len(s) - k
           /\ \A i \in 1 .. Len(s) - k :
                SubSeq(s, k + 1, Len(s))[i] = s[k + i] /\ k + i \in 1 .. Len(s)
<1>1. Len(s) \in Nat /\ k + 1 \in 1 .. Len(s) + 1 /\ \A i \in k + 1 .. Len(s) : s[i] \in S
    OBVIOUS
<1>2. /\ SubSeq(s, k + 1, Len(s)) \in Seq(S)
      /\ Len(SubSeq(s, k + 1, Len(s))) = Len(s) - k
      /\ \A i \in 1 .. Len(s) - k : SubSeq(s, k + 1, Len(s))[i] = s[(k + 1) + i - 1]
    BY <1>1, SubSeqProperties
<1>3. \A i \in 1 .. Len(s) - k : (k + 1) + i - 1 = k + i /\ k + i \in 1 .. Len(s)
    BY <1>1
<1> QED BY <1>2, <1>3

LEMMA DrainedFacts ==
    ASSUME Types, NEW e \in Ends, NEW k \in 0 .. Len(inbox[e]),
           inbox' = [inbox EXCEPT ![e] = SubSeq(@, k + 1, Len(@))]
    PROVE  Drained(e) /\ inbox' \in [Ends -> Seq(Datagrams)]
<1> DEFINE q == inbox[e]
           r == SubSeq(q, k + 1, Len(q))
<1>1. inbox \in [Ends -> Seq(Datagrams)] /\ q \in Seq(Datagrams)
    BY DEF Types, NetTypes
<1>2. r \in Seq(Datagrams) /\ Len(r) = Len(q) - k
      /\ \A i \in 1 .. Len(q) - k : r[i] = q[k + i] /\ k + i \in 1 .. Len(q)
    BY <1>1, SuffixFacts
<1>3. inbox' = [inbox EXCEPT ![e] = r]
    OBVIOUS
<1> HIDE DEF r
<1>4. inbox' \in [Ends -> Seq(Datagrams)] /\ inbox'[e] = r /\ inbox'[Peer(e)] = inbox[Peer(e)]
    BY <1>1, <1>2, <1>3, PeerFacts
<1> QED BY <1>2, <1>4 DEF Drained

LEMMA TailFacts ==
    ASSUME Types, NEW e \in Ends, inbox[e] # <<>>, inbox' = [inbox EXCEPT ![e] = Tail(@)]
    PROVE  Drained(e) /\ inbox' \in [Ends -> Seq(Datagrams)]
<1>1. inbox[e] \in Seq(Datagrams)
    BY DEF Types, NetTypes
<1>2. Tail(inbox[e]) = SubSeq(inbox[e], 1 + 1, Len(inbox[e])) /\ 1 \in 0 .. Len(inbox[e])
    BY <1>1 DEF Tail
<1>3. inbox' = [inbox EXCEPT ![e] = SubSeq(@, 1 + 1, Len(@))]
    BY <1>2
<1> QED BY <1>2, <1>3, DrainedFacts

LEMMA UntouchedFacts ==
    ASSUME Types, NEW e \in Ends, inbox' = inbox
    PROVE  Drained(e) /\ inbox' \in [Ends -> Seq(Datagrams)]
BY DEF Drained, Types, NetTypes

LEMMA ReadingStep ==
    ASSUME IInv, Types', NEW e \in Ends,
           UNCHANGED <<called, taken, writer, frames, ackVars>>,
           tpt'[e]["W"] = tpt[e]["W"], tpt'[Peer(e)] = tpt[Peer(e)],
           reader'[Peer(e)] = reader[Peer(e)], seen'[Peer(e)] = seen[Peer(e)],
           seen[e] \subseteq seen'[e], seen'[e] \subseteq 1 .. taken[Peer(e)],
           reader'[e].pc = "push" =>
               reader'[e].n \in IF reader'[e].flag = "DATAGRAM" THEN seen'[e] ELSE seen[Peer(e)],
           Drained(e)
    PROVE  IInv'
<1>1. Local(e) /\ TravelAt(e) /\ Frames(e)' = Frames(e) /\ Peer(e) \in Ends /\ Peer(e) # e
    BY PeerFacts DEF IInv, called, Frames, Calls
<1>2. CountingAt(e)' /\ WritingAt(e)'
    BY <1>1 DEF Local, CountingAt, WritingAt, Asked, Number, called, ackVars
<1>3. AckAt(e)'
    BY <1>1 DEF Local, AckAt, Asked, Number, called, ackVars
<1>5. TravelAt(e)'
    BY <1>1 DEF TravelAt, Drained
<1>6. inbox'[Peer(e)] = inbox[Peer(e)] /\ Same(Peer(e)) /\ Onward(e)
    BY <1>1 DEF Drained, Same, Onward, called, ackVars, IInv, Types, FrameTypes
<1> QED BY <1>2, <1>3, <1>5, <1>6, Elsewhere, EndsFacts DEF Local

LEMMA RespondFacts ==
    ASSUME Types, NEW e \in Ends, NEW m \in Directions, Respond(e, m)
    PROVE  user' \in [Ends -> [Directions -> {"idle", "waiting", "closed"}]]
BY DEF Respond, Types, CallTypes

LEMMA EndReadFacts ==
    ASSUME Types, NEW e \in Ends, NEW size \in Nat, EndRead(e, size)
    PROVE  /\ reader' = [reader EXCEPT ![e] = Idle] /\ reader' \in [Ends -> ReaderStates]
           /\ reader'[e].pc # "push" /\ reader'[Peer(e)] = reader[Peer(e)]
           /\ user' \in [Ends -> [Directions -> {"idle", "waiting", "closed"}]]
<1>1. reader' = [reader EXCEPT ![e] = Idle] /\ reader \in [Ends -> ReaderStates]
    BY DEF EndRead, Types, ThreadTypes
<1>2. Idle \in ReaderStates /\ Idle.pc = "idle"
    BY DEF ReaderStates, Idle
<1>3. user' \in [Ends -> [Directions -> {"idle", "waiting", "closed"}]]
  <2>1. user' = user \/ Respond(e, "R")
      BY DEF EndRead
  <2> QED BY <2>1, RespondFacts DEF Types, CallTypes, Directions
<1> QED BY <1>1, <1>2, <1>3, PeerFacts

LEMMA TakeReadStep ==
    ASSUME IInv, NEW e \in Ends, TakeRead(e)
    PROVE  IInv'
<1> DEFINE req == Head(tpt[e]["R"])
<1>1. Types /\ tpt[e]["R"] \in Slots /\ tpt[e]["R"] # <<>> /\ "R" \in Directions
    BY DEF IInv, Types, ThreadTypes, TakeRead, Directions
<1>2. req \in Events
    BY <1>1, EventFacts
<1>3. reader' = reader \/ \E size \in Nat : reader' = [reader EXCEPT ![e] = Parsing(size)]
    BY <1>1, <1>2 DEF TakeRead, Events
<1>4. reader' \in [Ends -> ReaderStates]
      /\ (reader'[e].pc = "push" => reader'[e] = reader[e])
      /\ reader'[Peer(e)] = reader[Peer(e)]
  <2>1. \A size \in Nat : Parsing(size) \in ReaderStates /\ Parsing(size).pc = "parse"
      BY DEF Parsing, ReaderStates
  <2>2. reader \in [Ends -> ReaderStates] /\ Peer(e) # e
      BY <1>1, PeerFacts DEF Types, ThreadTypes
  <2> QED BY <1>3, <2>1, <2>2, PeerFacts
<1>5. tpt' \in [Ends -> [Directions -> Slots]] /\ tpt'[e]["W"] = tpt[e]["W"]
      /\ tpt'[Peer(e)] = tpt[Peer(e)]
  <2>1. tpt' = [tpt EXCEPT ![e]["R"] = <<>>] /\ tpt \in [Ends -> [Directions -> Slots]]
      BY <1>1 DEF TakeRead, Types, ThreadTypes
  <2> QED BY <1>1, <2>1, SlotFacts, PeerFacts DEF Directions
<1>6. UNCHANGED <<called, inbox, seen, taken, writer, frames, ackVars, faults>>
    BY DEF TakeRead
<1>7. Types'
  <2>1. user' \in [Ends -> [Directions -> {"idle", "waiting", "closed"}]]
    <3>1. user' = user \/ Respond(e, "R")
        BY DEF TakeRead
    <3> QED BY <1>1, <3>1, RespondFacts DEF Types, CallTypes
  <2>2. deadline' \in DeadlineTypes
    <3>1. deadline' = deadline \/ SetDeadline(e, "R")
        BY DEF TakeRead
    <3> QED BY <1>1, <3>1, DeadlineFacts DEF Types, NetTypes
  <2> QED
    BY <1>1, <2>1, <2>2, <1>4, <1>5, <1>6
    DEF Types, CallTypes, NetTypes, ThreadTypes, FrameTypes, called, ackVars, Calls, Frames
<1>8. seen[e] \subseteq 1 .. taken[Peer(e)] /\ AckAt(e)
    BY DEF IInv, Local, AckAt
<1>9. reader'[e].pc = "push" =>
         reader'[e].n \in IF reader'[e].flag = "DATAGRAM" THEN seen[e] ELSE seen[Peer(e)]
    BY <1>4, <1>8 DEF AckAt
<1>10. Drained(e)
    BY <1>1, <1>6, UntouchedFacts
<1> QED BY <1>4, <1>5, <1>6, <1>7, <1>8, <1>9, <1>10, ReadingStep

LEMMA ParseHeaderStep ==
    ASSUME IInv, NEW e \in Ends, ParseHeader(e)
    PROVE  IInv'
<1> DEFINE d == Head(inbox[e])
           size == reader[e].size
           push == [pc |-> "push", size |-> size, flag |-> d.kind, n |-> d.n]
<1>1. /\ Types /\ Local(e) /\ TravelAt(e) /\ inbox[e] # <<>>
      /\ inbox \in [Ends -> Seq(Datagrams)] /\ seen \in [Ends -> SUBSET Nat]
      /\ reader \in [Ends -> ReaderStates] /\ reader[e].pc = "parse"
    BY DEF IInv, Types, NetTypes, ThreadTypes, FrameTypes, ParseHeader
<1>2. d \in Datagrams /\ d = inbox[e][1] /\ 1 \in 1 .. Len(inbox[e])
    BY <1>1
<1>3. size \in Nat
    BY <1>1 DEF ReaderStates, Idle
<1>4. Drained(e) /\ inbox' \in [Ends -> Seq(Datagrams)]
    BY <1>1, TailFacts DEF ParseHeader
<1>5. deadline' \in DeadlineTypes
    BY <1>1, DeadlineFacts DEF ParseHeader, Directions
<1>6. UNCHANGED <<tpt, called, taken, writer, frames, ackVars, faults>>
    BY DEF ParseHeader
<1>7. CASE d.kind \in {"DATAGRAM", "DATA_ACK"}
  <2>1. reader' = [reader EXCEPT ![e] = push] /\ user' = user
        /\ seen' = IF d.kind = "DATAGRAM" THEN [seen EXCEPT ![e] = @ \cup {d.n}] ELSE seen
      BY <1>7 DEF ParseHeader
  <2>2. /\ push \in ReaderStates /\ push.pc = "push"
        /\ push.n = d.n /\ push.flag = d.kind /\ d.n \in Nat
      BY <1>2, <1>3, <1>7 DEF ReaderStates, Datagrams
  <2>3. /\ reader' \in [Ends -> ReaderStates] /\ reader'[e] = push
        /\ reader'[Peer(e)] = reader[Peer(e)]
      BY <1>1, <2>1, <2>2, PeerFacts
  <2>4. /\ d.kind = "DATAGRAM" => d.n \in 1 .. taken[Peer(e)]
        /\ d.kind = "DATA_ACK" => d.n \in seen[Peer(e)]
        /\ seen[e] \subseteq 1 .. taken[Peer(e)]
      BY <1>1, <1>2 DEF TravelAt, Local, AckAt
  <2>5. /\ seen'[e] = IF d.kind = "DATAGRAM" THEN seen[e] \cup {d.n} ELSE seen[e]
        /\ seen'[Peer(e)] = seen[Peer(e)] /\ seen' \in [Ends -> SUBSET Nat]
      BY <1>1, <2>1, <2>2, PeerFacts
  <2>6. Types'
      BY <1>1, <1>4, <1>5, <1>6, <2>1, <2>3, <2>5
      DEF Types, CallTypes, NetTypes, ThreadTypes, FrameTypes, called, ackVars, Calls, Frames
  <2>7. reader'[e].n \in IF reader'[e].flag = "DATAGRAM" THEN seen'[e] ELSE seen[Peer(e)]
      BY <1>7, <2>2, <2>3, <2>4, <2>5
  <2>8. seen[e] \subseteq seen'[e] /\ seen'[e] \subseteq 1 .. taken[Peer(e)]
      BY <2>4, <2>5
  <2> QED BY <1>1, <1>4, <1>6, <2>3, <2>5, <2>6, <2>7, <2>8, ReadingStep
<1>8. CASE d.kind \in {"payload", "RMT_CLOSING"}
  <2>1. EndRead(e, size) /\ seen' = seen
      BY <1>8 DEF ParseHeader
  <2>2. Types'
      BY <1>1, <1>3, <1>4, <1>5, <1>6, <2>1, EndReadFacts
      DEF Types, CallTypes, NetTypes, ThreadTypes, FrameTypes, called, ackVars, Calls, Frames
  <2>3. seen[e] \subseteq 1 .. taken[Peer(e)]
      BY <1>1 DEF Local, AckAt
  <2> QED BY <1>1, <1>3, <1>4, <1>6, <2>1, <2>2, <2>3, EndReadFacts, ReadingStep
<1> QED BY <1>2, <1>7, <1>8 DEF Datagrams

LEMMA ReadEndsStep ==
    ASSUME IInv, NEW e \in Ends, ReadTimesOut(e) \/ ReadFails(e) \/ ReadPayload(e)
    PROVE  IInv'
<1>1. /\ Types /\ EndRead(e, reader[e].size) /\ reader[e].size \in Nat
      /\ UNCHANGED <<tpt, called, seen, taken, writer, frames, ackVars>>
  <2>1. reader[e].size \in Nat
    <3>1. reader[e] \in ReaderStates /\ reader[e].pc \in {"parse", "payload"}
        BY DEF IInv, Types, ThreadTypes, ReadTimesOut, ReadFails, ReadPayload
    <3> QED BY <3>1 DEF ReaderStates, Idle
  <2>2. EndRead(e, reader[e].size)
        /\ UNCHANGED <<tpt, called, seen, taken, writer, frames, ackVars>>
    <3>1. CASE ReadTimesOut(e)
        BY <3>1 DEF ReadTimesOut, readVars
    <3>2. CASE ReadFails(e)
        BY <3>2 DEF ReadFails, readVars
    <3>3. CASE ReadPayload(e)
        BY <3>3 DEF ReadPayload
    <3> QED BY <3>1, <3>2, <3>3
  <2> QED BY <2>1, <2>2 DEF IInv
<1>2. Drained(e) /\ inbox' \in [Ends -> Seq(Datagrams)]
  <2>1. CASE ReadTimesOut(e) \/ ReadFails(e)
      BY <1>1, <2>1, UntouchedFacts DEF ReadTimesOut, ReadFails
  <2>2. CASE ReadPayload(e)
    <3>1. PICK here \in 0 .. Len(inbox[e]) :
            \/ inbox' = inbox
            \/ here > 0 /\ inbox' = [inbox EXCEPT ![e] = Tail(@)]
            \/ \E j \in 1 .. here : inbox' = [inbox EXCEPT ![e] = SubSeq(@, j + 1, Len(@))]
            \/ inbox' = [inbox EXCEPT ![e] = SubSeq(@, here + 1, Len(@))]
        BY <2>2 DEF ReadPayload
    <3>2. here > 0 => inbox[e] # <<>>
        OBVIOUS
    <3>3. inbox[e] \in Seq(Datagrams) /\ \A j \in 1 .. here : j \in 0 .. Len(inbox[e])
        BY <1>1 DEF Types, NetTypes
    <3> QED BY <1>1, <3>1, <3>2, <3>3, UntouchedFacts, TailFacts, DrainedFacts
  <2> QED BY <2>1, <2>2
<1>3. deadline' \in DeadlineTypes
  <2>1. UNCHANGED deadline \/ Ready(e, "R") \/ TimedOut(e, "R")
      BY DEF ReadTimesOut, ReadFails, ReadPayload
  <2> QED BY <1>1, <2>1, DeadlineFacts DEF Types, NetTypes, Directions
<1>4. FaultTypes'
  <2>1. plan' = plan /\ (UNCHANGED faults \/ Fault("failed"))
      BY DEF ReadTimesOut, ReadFails, ReadPayload, called
  <2> QED BY <1>1, <2>1, FaultFacts DEF Kinds
<1>5. Types'
    BY <1>1, <1>2, <1>3, <1>4, EndReadFacts
    DEF FaultTypes, Types, CallTypes, NetTypes, ThreadTypes, FrameTypes, called, ackVars, Calls, Frames
<1>6. seen[e] \subseteq 1 .. taken[Peer(e)]
    BY DEF IInv, Local, AckAt
<1> QED BY <1>1, <1>2, <1>5, <1>6, EndReadFacts, ReadingStep

LEMMA PushNumbersStep ==
    ASSUME IInv, NEW e \in Ends, PushNumbers(e)
    PROVE  IInv'
<1> DEFINE ev == Event(reader[e].flag, reader[e].n)
           more == [pc |-> "payload", size |-> reader[e].size, n |-> reader[e].n]
<1>1. /\ Types /\ Local(e) /\ TravelAt(e) /\ reader[e].pc = "push" /\ tpt[e]["W"] = <<>>
      /\ tpt \in [Ends -> [Directions -> Slots]] /\ reader \in [Ends -> ReaderStates]
      /\ tpt' = [tpt EXCEPT ![e]["W"] = <<ev>>]
    BY DEF IInv, Types, ThreadTypes, PushNumbers
<1>2. reader[e].size \in Nat /\ reader[e].n \in Nat /\ reader[e].flag \in {"DATAGRAM", "DATA_ACK"}
    BY <1>1 DEF ReaderStates, Idle
<1>3. ev \in Events /\ <<ev>> \in Slots /\ <<ev>> # <<>> /\ Head(<<ev>>) = ev
      /\ ev.flag = reader[e].flag /\ ev.arg = reader[e].n
    BY <1>2, SlotFacts DEF Events, Event
<1>4. tpt' \in [Ends -> [Directions -> Slots]] /\ tpt'[e]["W"] = <<ev>>
      /\ tpt'[Peer(e)] = tpt[Peer(e)]
    BY <1>1, <1>3, PeerFacts DEF Directions
<1>5. UNCHANGED <<inbox, called, seen, taken, writer, frames, ackVars, deadline, faults>>
    BY DEF PushNumbers, readVars
<1>6. /\ reader' \in [Ends -> ReaderStates] /\ reader'[e].pc # "push"
      /\ reader'[Peer(e)] = reader[Peer(e)]
      /\ user' \in [Ends -> [Directions -> {"idle", "waiting", "closed"}]]
  <2>1. more \in ReaderStates /\ more.pc = "payload"
      BY <1>2 DEF ReaderStates
  <2>2. CASE EndRead(e, reader[e].size)
      BY <1>1, <1>2, <2>2, EndReadFacts
  <2>3. CASE reader' = [reader EXCEPT ![e] = more] /\ user' = user
    <3>1. user \in [Ends -> [Directions -> {"idle", "waiting", "closed"}]]
        BY <1>1 DEF Types, CallTypes
    <3>2. reader'[e] = more
        BY <1>1, <2>3
    <3> QED BY <1>1, <2>1, <2>3, <3>1, <3>2, PeerFacts
  <2>4. EndRead(e, reader[e].size) \/ (reader' = [reader EXCEPT ![e] = more] /\ user' = user)
      BY DEF PushNumbers
  <2> QED BY <2>2, <2>3, <2>4
<1>7. Types'
    BY <1>1, <1>4, <1>5, <1>6
    DEF Types, CallTypes, NetTypes, ThreadTypes, FrameTypes, called, ackVars, Calls, Frames
<1>8. Frames(e)' = Frames(e)
    BY <1>5 DEF Frames, Calls, called
<1>9. CountingAt(e)' /\ WritingAt(e)'
    BY <1>1, <1>2, <1>3, <1>4, <1>5, <1>8
    DEF Local, CountingAt, WritingAt, Asked, Number, called, ackVars
<1>10. AckAt(e)'
    BY <1>1, <1>2, <1>3, <1>4, <1>5, <1>6, <1>8 DEF Local, AckAt, Asked, Number, ackVars
<1>11. TravelAt(e)'
    BY <1>1, <1>5 DEF TravelAt
<1>12. Same(Peer(e)) /\ Onward(e)
    BY <1>4, <1>5, <1>6, <1>1 DEF Same, Onward, called, ackVars, Types, FrameTypes
<1> QED BY <1>5, <1>7, <1>9, <1>10, <1>11, <1>12, Elsewhere, EndsFacts DEF Local

-----------------------------------------------------------------------------
(* The writer.                                                             *)

DoneStates == {"none", "empty", "full"}
AckerStates == {"none", "waiting", "repeat", "gone"}

LEMMA DoneChFacts ==
    ASSUME Types, NEW e \in Ends, NEW n, NEW v \in DoneStates,
           doneCh' = [doneCh EXCEPT ![e][n] = v]
    PROVE  /\ doneCh' = [x \in Ends |-> doneCh'[x]] /\ doneCh'[Peer(e)] = doneCh[Peer(e)]
           /\ doneCh'[e] \in [Frames(e) -> DoneStates]
           /\ \A k \in Frames(e) : doneCh'[e][k] = IF k = n THEN v ELSE doneCh[e][k]
<1>1. doneCh = [x \in Ends |-> doneCh[x]] /\ doneCh[e] \in [Frames(e) -> DoneStates]
    BY DEF Types, FrameTypes, DoneStates
<1>2. Peer(e) \in Ends /\ Peer(e) # e /\ DOMAIN doneCh = Ends
    BY <1>1, PeerFacts
<1>3. doneCh' = [doneCh EXCEPT ![e] = [doneCh[e] EXCEPT ![n] = v]]
    OBVIOUS
<1>4. /\ [doneCh[e] EXCEPT ![n] = v] \in [Frames(e) -> DoneStates]
      /\ \A k \in Frames(e) :
            [doneCh[e] EXCEPT ![n] = v][k] = IF k = n THEN v ELSE doneCh[e][k]
    BY <1>1
<1>5. doneCh'[e] = [doneCh[e] EXCEPT ![n] = v] /\ doneCh'[Peer(e)] = doneCh[Peer(e)]
      /\ doneCh' = [x \in Ends |-> doneCh'[x]]
    BY <1>2, <1>3
<1> QED BY <1>4, <1>5

LEMMA AckerFacts ==
    ASSUME Types, NEW e \in Ends, NEW n, NEW v \in AckerStates,
           acker' = [acker EXCEPT ![e][n] = v]
    PROVE  /\ acker' = [x \in Ends |-> acker'[x]] /\ acker'[Peer(e)] = acker[Peer(e)]
           /\ acker'[e] \in [Frames(e) -> AckerStates]
           /\ \A k \in Frames(e) : acker'[e][k] = IF k = n THEN v ELSE acker[e][k]
<1>1. acker = [x \in Ends |-> acker[x]] /\ acker[e] \in [Frames(e) -> AckerStates]
    BY DEF Types, FrameTypes, AckerStates
<1>2. Peer(e) \in Ends /\ Peer(e) # e /\ DOMAIN acker = Ends
    BY <1>1, PeerFacts
<1>3. acker' = [acker EXCEPT ![e] = [acker[e] EXCEPT ![n] = v]]
    OBVIOUS
<1>4. /\ [acker[e] EXCEPT ![n] = v] \in [Frames(e) -> AckerStates]
      /\ \A k \in Frames(e) :
            [acker[e] EXCEPT ![n] = v][k] = IF k = n THEN v ELSE acker[e][k]
    BY <1>1
<1>5. acker'[e] = [acker[e] EXCEPT ![n] = v] /\ acker'[Peer(e)] = acker[Peer(e)]
      /\ acker' = [x \in Ends |-> acker'[x]]
    BY <1>2, <1>3
<1> QED BY <1>4, <1>5

\* What a step of the writer, or of a goroutine that it has left, has to leave alone.
Apart(e) ==
    /\ UNCHANGED <<called, reader, seen>>
    /\ tpt'[Peer(e)] = tpt[Peer(e)] /\ writer'[Peer(e)] = writer[Peer(e)]
    /\ taken'[Peer(e)] = taken[Peer(e)] /\ frames'[Peer(e)] = frames[Peer(e)]
    /\ doneCh'[Peer(e)] = doneCh[Peer(e)] /\ acker'[Peer(e)] = acker[Peer(e)]
    /\ taken[e] <= taken'[e]

LEMMA WriterStep ==
    ASSUME IInv, NEW e \in Ends, Types', Apart(e), Local(e)', inbox'[e] = inbox[e],
           inbox'[Peer(e)] = inbox[Peer(e)] \/ TravelAt(Peer(e))'
    PROVE  IInv'
<1>1. Same(Peer(e)) /\ Onward(e)
    BY DEF Apart, Same, Onward, called
<1>2. TravelAt(e)'
    BY PeerFacts DEF IInv, TravelAt, Apart
<1> QED BY <1>1, <1>2, Elsewhere, EndsFacts

\* A datagram may be sent if its number is taken, or seen, at the sending end.
LEMMA SendStep ==
    ASSUME IInv, NEW e \in Ends, NEW d \in Datagrams, Transmit(e, d),
           d.kind \in {"DATAGRAM", "payload"} => d.n \in 1 .. taken[e],
           d.kind = "DATA_ACK" => d.n \in seen[e],
           taken'[e] = taken[e], seen' = seen
    PROVE  TravelAt(Peer(e))' /\ inbox'[e] = inbox[e]
<1>1. Types /\ TravelAt(Peer(e)) /\ Peer(Peer(e)) = e
    BY PeerFacts DEF IInv
<1>2. inbox'[e] = inbox[e]
      /\ \A i \in 1 .. Len(inbox'[Peer(e)]) :
            \/ inbox'[Peer(e)][i] = d
            \/ \E j \in 1 .. Len(inbox[Peer(e)]) : inbox'[Peer(e)][i] = inbox[Peer(e)][j]
    BY <1>1, Transmitted
<1> QED BY <1>1, <1>2 DEF TravelAt

LEMMA TakeWriteFacts ==
    ASSUME IInv, NEW e \in Ends, TakeWrite(e)
    PROVE  /\ Head(tpt[e]["W"]) \in Events /\ tpt[e]["W"] # <<>> /\ writer[e] = Idle
           /\ tpt' \in [Ends -> [Directions -> Slots]] /\ tpt'[e]["W"] = <<>>
           /\ tpt'[Peer(e)] = tpt[Peer(e)]
           /\ UNCHANGED <<called, reader, readVars, frames, acker>>
           /\ Types /\ Local(e) /\ Frames(e)' = Frames(e)
<1>1. Types /\ Local(e) /\ tpt \in [Ends -> [Directions -> Slots]] /\ tpt[e]["W"] # <<>>
      /\ writer[e] = Idle /\ tpt' = [tpt EXCEPT ![e]["W"] = <<>>]
      /\ UNCHANGED <<called, reader, readVars, frames, acker>>
    BY DEF TakeWrite, IInv, Types, ThreadTypes
<1>2. tpt[e]["W"] \in Slots /\ "W" \in Directions
    BY <1>1 DEF Directions
<1>3. Head(tpt[e]["W"]) \in Events
    BY <1>1, <1>2, EventFacts
<1>4. tpt' \in [Ends -> [Directions -> Slots]] /\ tpt'[e]["W"] = <<>>
      /\ tpt'[Peer(e)] = tpt[Peer(e)]
    BY <1>1, <1>2, SlotFacts, PeerFacts
<1> QED BY <1>1, <1>3, <1>4 DEF Frames, Calls, called

\* The writer puts the request aside without a trace.
LEMMA PutAside ==
    ASSUME IInv, NEW e \in Ends, TakeWrite(e), Types', UNCHANGED <<writer, taken, doneCh>>,
           inbox'[e] = inbox[e], inbox'[Peer(e)] = inbox[Peer(e)] \/ TravelAt(Peer(e))'
    PROVE  IInv'
<1>1. Local(e) /\ Frames(e)' = Frames(e) /\ tpt'[e]["W"] = <<>> /\ UNCHANGED <<called, reader,
          readVars, frames, acker>> /\ tpt'[Peer(e)] = tpt[Peer(e)] /\ taken[e] \in Nat
    BY TakeWriteFacts DEF Types, FrameTypes
<1>2. Local(e)'
    BY <1>1 DEF Local, CountingAt, WritingAt, AckAt, Asked, called, readVars
<1>3. Apart(e)
    BY <1>1 DEF Apart, readVars
<1> QED BY <1>2, <1>3, WriterStep

LEMMA TakeWrite1 ==
    ASSUME IInv, NEW e \in Ends, TakeWrite(e), Head(tpt[e]["W"]).flag = "WRITE1"
    PROVE  IInv'
<1>1. PutFrame(e) /\ UNCHANGED <<inbox, doneCh, deadline, faults>>
    BY DEF TakeWrite
<1>2. /\ tpt' \in [Ends -> [Directions -> Slots]] /\ tpt'[e]["W"] = <<>>
      /\ tpt'[Peer(e)] = tpt[Peer(e)] /\ Asked(e, "WRITE1")
      /\ UNCHANGED <<called, reader, readVars, frames, acker>>
      /\ Types /\ Local(e) /\ Frames(e)' = Frames(e)
    BY TakeWriteFacts DEF Asked
<1>3. CASE Respond(e, "W") /\ UNCHANGED <<writer, taken>>
  <2>1. user' \in [Ends -> [Directions -> {"idle", "waiting", "closed"}]]
      BY <1>2, <1>3, RespondFacts DEF Directions
  <2>2. Types'
      BY <1>1, <1>2, <1>3, <2>1
      DEF Types, CallTypes, NetTypes, ThreadTypes, FrameTypes, called, readVars, Calls, Frames
  <2> QED BY <1>1, <1>3, <2>2, PutAside
<1>4. CASE /\ taken' = [taken EXCEPT ![e] = @ + 1]
           /\ writer' = [writer EXCEPT ![e] = Doing("put", taken[e] + 1)]
           /\ user' = user
  <2> DEFINE n == taken[e] + 1
  <2>1. taken \in [Ends -> Nat] /\ writer \in [Ends -> WriterStates] /\ taken[e] \in Nat
      BY <1>2 DEF Types, ThreadTypes, FrameTypes
  <2>2. Doing("put", n) \in WriterStates /\ Doing("put", n).pc = "put" /\ Doing("put", n).n = n
      BY <2>1 DEF Doing, WriterStates
  <2>3. taken' \in [Ends -> Nat] /\ taken'[e] = n /\ taken'[Peer(e)] = taken[Peer(e)]
        /\ writer' \in [Ends -> WriterStates] /\ writer'[e] = Doing("put", n)
        /\ writer'[Peer(e)] = writer[Peer(e)]
      BY <1>4, <2>1, <2>2, PeerFacts
  <2>4. Types'
      BY <1>1, <1>2, <1>4, <2>3
      DEF Types, CallTypes, NetTypes, ThreadTypes, FrameTypes, called, readVars, Calls, Frames
  <2>5. n \in Frames(e) /\ n <= made[e]["W"] /\ n \notin frames[e] /\ acker[e][n] = "none"
    <3>1. taken[e] < made[e]["W"] /\ frames[e] \subseteq 1 .. taken[e]
          /\ \A k \in Frames(e) : acker[e][k] # "none" => k <= taken[e]
        BY <1>2 DEF Local, CountingAt
    <3>2. made[e]["W"] \in Nat /\ made[e]["W"] <= Len(Calls(e, "W"))
        BY <1>2 DEF Types, CallTypes, Directions
    <3>3. Len(Calls(e, "W")) \in Nat
        BY <1>2, PlansAssumption DEF Types, CallTypes, Calls, Directions
    <3>4. n \in Frames(e)
        BY <2>1, <3>1, <3>2, <3>3 DEF Frames
    <3>5. ~(n <= taken[e]) /\ n \notin 1 .. taken[e]
        BY <2>1
    <3> QED BY <2>1, <3>1, <3>2, <3>4, <3>5
  <2>6. CountingAt(e)'
    <3>1. 1 .. taken[e] \subseteq 1 .. n /\ \A k \in Frames(e) : k <= taken[e] => k <= n
        BY <2>1 DEF Frames
    <3> QED BY <1>2, <2>2, <2>3, <2>5, <3>1 DEF Local, CountingAt, Asked, called
  <2>7. WritingAt(e)' /\ AckAt(e)'
      BY <1>1, <1>2, <2>2, <2>3 DEF Local, WritingAt, AckAt, Asked, called, readVars
  <2>8. Apart(e)
      BY <1>1, <1>2, <2>1, <2>3 DEF Apart, readVars
  <2> QED BY <1>1, <2>4, <2>6, <2>7, <2>8, WriterStep DEF Local
<1> QED BY <1>1, <1>3, <1>4 DEF PutFrame

LEMMA TakeWrite2 ==
    ASSUME IInv, NEW e \in Ends, TakeWrite(e), Head(tpt[e]["W"]).flag = "WRITE2"
    PROVE  IInv'
<1> DEFINE n == Number(e)
           w == Doing("header", n)
<1>1. writer' = [writer EXCEPT ![e] = w]
      /\ UNCHANGED <<inbox, user, taken, doneCh, deadline, faults>>
    BY DEF TakeWrite, Number
<1>2. /\ tpt' \in [Ends -> [Directions -> Slots]] /\ tpt'[e]["W"] = <<>>
      /\ tpt'[Peer(e)] = tpt[Peer(e)] /\ Asked(e, "WRITE2") /\ Head(tpt[e]["W"]) \in Events
      /\ UNCHANGED <<called, reader, readVars, frames, acker>>
      /\ Types /\ Local(e) /\ Frames(e)' = Frames(e)
    BY TakeWriteFacts DEF Asked
<1>3. n \in Nat /\ writer \in [Ends -> WriterStates] /\ taken[e] \in Nat
    BY <1>2 DEF Number, Events, Types, ThreadTypes, FrameTypes
<1>4. w \in WriterStates /\ w.pc = "header" /\ w.n = n
    BY <1>3 DEF Doing, WriterStates
<1>5. writer' \in [Ends -> WriterStates] /\ writer'[e] = w /\ writer'[Peer(e)] = writer[Peer(e)]
    BY <1>1, <1>3, <1>4, PeerFacts
<1>6. Types'
    BY <1>1, <1>2, <1>5
    DEF Types, CallTypes, NetTypes, ThreadTypes, FrameTypes, called, readVars, Calls, Frames
<1>7. Local(e)'
    BY <1>1, <1>2, <1>4, <1>5
    DEF Local, CountingAt, WritingAt, AckAt, Asked, called, readVars
<1>8. Apart(e)
    BY <1>1, <1>2, <1>3, <1>5 DEF Apart, readVars
<1> QED BY <1>1, <1>6, <1>7, <1>8, WriterStep

LEMMA TakeAck ==
    ASSUME IInv, NEW e \in Ends, TakeWrite(e), Head(tpt[e]["W"]).flag = "DATA_ACK"
    PROVE  IInv'
<1> DEFINE n == Number(e)
           w == Doing("done", n)
<1>1. ResetAckSeqnum(e, n) /\ UNCHANGED <<inbox, user, taken, deadline, faults>>
    BY DEF TakeWrite, Number
<1>2. /\ tpt' \in [Ends -> [Directions -> Slots]] /\ tpt'[e]["W"] = <<>>
      /\ tpt'[Peer(e)] = tpt[Peer(e)] /\ Asked(e, "DATA_ACK") /\ Head(tpt[e]["W"]) \in Events
      /\ UNCHANGED <<called, reader, readVars, frames, acker>>
      /\ Types /\ Local(e) /\ Frames(e)' = Frames(e)
    BY TakeWriteFacts DEF Asked
<1>3. n \in Nat /\ writer \in [Ends -> WriterStates] /\ taken[e] \in Nat /\ n \in seen[Peer(e)]
    BY <1>2 DEF Number, Events, Types, ThreadTypes, FrameTypes, Local, AckAt
<1>4. CASE UNCHANGED <<writer, doneCh>>
  <2>1. Types'
      BY <1>1, <1>2, <1>4
      DEF Types, CallTypes, NetTypes, ThreadTypes, FrameTypes, called, readVars, Calls, Frames
  <2> QED BY <1>1, <1>4, <2>1, PutAside
<1>5. CASE doneCh' = [doneCh EXCEPT ![e][n] = "full"] /\ writer' = writer
  <2>1. /\ doneCh = [x \in Ends |-> doneCh[x]]
        /\ doneCh[e] \in [Frames(e) -> {"none", "empty", "full"}]
        /\ \A x \in Ends : x = e \/ x = Peer(e)
      BY <1>2 DEF Types, FrameTypes, Ends, Peer
  <2>2. /\ doneCh' = [x \in Ends |-> doneCh'[x]] /\ doneCh'[Peer(e)] = doneCh[Peer(e)]
        /\ doneCh'[e] \in [Frames(e) -> {"none", "empty", "full"}]
        /\ \A k \in Frames(e) : doneCh'[e][k] = IF k = n THEN "full" ELSE doneCh[e][k]
      BY <1>2, <1>5, DoneChFacts DEF DoneStates
  <2>3. Types'
    <3>1. \A x \in Ends : Frames(x)' = Frames(x)
        BY <1>2 DEF Frames, Calls, called
    <3>2. FrameTypes'
        BY <1>1, <1>2, <2>1, <2>2, <3>1 DEF Types, FrameTypes, readVars
    <3> QED
      BY <1>1, <1>2, <1>5, <3>2 DEF Types, CallTypes, NetTypes, ThreadTypes, called, Calls
  <2>4. Local(e)'
      BY <1>1, <1>2, <1>3, <1>5, <2>2
      DEF Local, CountingAt, WritingAt, AckAt, Asked, called, readVars
  <2>5. Apart(e)
      BY <1>1, <1>2, <1>3, <1>5, <2>2 DEF Apart, readVars
  <2> QED BY <1>1, <2>3, <2>4, <2>5, WriterStep
<1>6. CASE writer' = [writer EXCEPT ![e] = w] /\ doneCh' = doneCh
  <2>1. w \in WriterStates /\ w.pc = "done" /\ w.n = n
      BY <1>3 DEF Doing, WriterStates
  <2>2. writer' \in [Ends -> WriterStates] /\ writer'[e] = w /\ writer'[Peer(e)] = writer[Peer(e)]
      BY <1>3, <1>6, <2>1, PeerFacts
  <2>3. Types'
    BY <1>1, <1>2, <1>6, <2>2
    DEF Types, CallTypes, NetTypes, ThreadTypes, FrameTypes, called, readVars, Calls, Frames
  <2>4. Local(e)'
      BY <1>1, <1>2, <1>3, <1>6, <2>1, <2>2
      DEF Local, CountingAt, WritingAt, AckAt, Asked, called, readVars
  <2>5. Apart(e)
      BY <1>1, <1>2, <1>3, <1>6, <2>2 DEF Apart, readVars
  <2> QED BY <1>1, <2>3, <2>4, <2>5, WriterStep
<1> QED BY <1>1, <1>4, <1>5, <1>6 DEF ResetAckSeqnum

\* The events that leave the writer where it is.
LEMMA TakeOther ==
    ASSUME IInv, NEW e \in Ends, TakeWrite(e),
           Head(tpt[e]["W"]).flag \in {"DATAGRAM", "CLOSING", "DEADLINE", "REPEAT"}
    PROVE  IInv'
<1> DEFINE req == Head(tpt[e]["W"])
<1>1. /\ tpt' \in [Ends -> [Directions -> Slots]]
      /\ UNCHANGED <<called, reader, readVars, frames, acker>> /\ req \in Events
      /\ Types /\ Local(e) /\ Frames(e)' = Frames(e) /\ "W" \in Directions
    BY TakeWriteFacts DEF Directions
<1>2. UNCHANGED <<writer, taken, doneCh>>
    BY DEF TakeWrite
<1>3. ASSUME inbox' \in [Ends -> Seq(Datagrams)], FaultTypes',
             user' \in [Ends -> [Directions -> {"idle", "waiting", "closed"}]],
             deadline' \in DeadlineTypes
      PROVE  Types'
    BY <1>1, <1>2, <1>3
    DEF FaultTypes, Types, CallTypes, NetTypes, ThreadTypes, FrameTypes, called, readVars, Calls,
        Frames
<1>4. ASSUME NEW d \in Datagrams, Transmit(e, d), UNCHANGED <<user, deadline>>,
             d.kind \notin {"DATAGRAM", "payload"}, d.kind = "DATA_ACK" => d.n \in seen[e]
      PROVE  IInv'
  <2>1. inbox' \in [Ends -> Seq(Datagrams)] /\ FaultTypes'
      BY <1>1, <1>4, Transmitted DEF called
  <2>2. TravelAt(Peer(e))' /\ inbox'[e] = inbox[e]
      BY <1>1, <1>2, <1>4, SendStep DEF readVars
  <2>3. Types'
      BY <1>1, <1>3, <1>4, <2>1 DEF Types, CallTypes, NetTypes
  <2> QED BY <1>2, <2>2, <2>3, PutAside
<1>5. CASE req.flag = "DATAGRAM"
  <2>1. AcknowSeqnum(e, req.arg) /\ UNCHANGED <<user, deadline>>
      BY <1>5 DEF TakeWrite
  <2>2. CASE Transmit(e, Datagram("DATA_ACK", req.arg))
    <3>1. req.arg \in seen[e] /\ req.arg \in Nat
        BY <1>1, <1>5, TakeWriteFacts DEF Local, AckAt, Asked, Number, Events
    <3>2. Datagram("DATA_ACK", req.arg) \in Datagrams
        BY <3>1 DEF Datagram, Datagrams
    <3> QED BY <1>4, <2>1, <2>2, <3>1, <3>2 DEF Datagram
  <2>3. CASE Stored
    <3>1. Types'
        BY <1>1, <1>3, <2>1, <2>3 DEF Stored, FaultTypes, Types, CallTypes, NetTypes, called
    <3> QED BY <1>2, <2>3, <3>1, PutAside DEF Stored
  <2> QED BY <2>1, <2>2, <2>3 DEF AcknowSeqnum
<1>6. CASE req.flag = "CLOSING"
  <2>1. Transmit(e, Datagram("RMT_CLOSING", 0)) /\ UNCHANGED <<user, deadline>>
      BY <1>6 DEF TakeWrite, SendClosing
  <2>2. Datagram("RMT_CLOSING", 0) \in Datagrams
      BY DEF Datagram, Datagrams
  <2> QED BY <1>4, <2>1, <2>2 DEF Datagram
<1>7. CASE req.flag = "DEADLINE"
  <2>1. SetDeadline(e, "W") /\ Respond(e, "W") /\ UNCHANGED <<inbox, faults>>
      BY <1>7 DEF TakeWrite
  <2>2. Types'
      BY <1>1, <1>3, <2>1, DeadlineFacts, RespondFacts DEF FaultTypes, Types, NetTypes, called
  <2> QED BY <1>2, <2>1, <2>2, PutAside
<1>8. CASE req.flag = "REPEAT"
  <2>1. UNCHANGED <<inbox, faults, user, deadline>>
      BY <1>8 DEF TakeWrite
  <2>2. Types'
      BY <1>1, <1>3, <2>1 DEF FaultTypes, Types, CallTypes, NetTypes, called
  <2> QED BY <1>2, <2>1, <2>2, PutAside
<1> QED BY <1>5, <1>6, <1>7, <1>8

LEMMA TakeWriteStep ==
    ASSUME IInv, NEW e \in Ends, TakeWrite(e)
    PROVE  IInv'
<1>1. Head(tpt[e]["W"]).flag \in
        {"WRITE1", "WRITE2", "DATAGRAM", "DATA_ACK", "CLOSING", "DEADLINE", "REPEAT"}
    BY DEF TakeWrite
<1> QED BY <1>1, TakeWrite1, TakeWrite2, TakeAck, TakeOther

\* What the other steps of the writer have in common.
LEMMA WriterFacts ==
    ASSUME IInv, NEW e \in Ends
    PROVE  /\ Types /\ Local(e) /\ "W" \in Directions /\ "R" \in Directions
           /\ writer \in [Ends -> WriterStates] /\ tpt \in [Ends -> [Directions -> Slots]]
           /\ taken[e] \in Nat /\ frames \in [Ends -> SUBSET Nat]
           /\ (writer[e] # Idle => writer[e].n \in Nat)
<1>1. Types /\ Local(e) /\ writer \in [Ends -> WriterStates] /\ taken[e] \in Nat
      /\ tpt \in [Ends -> [Directions -> Slots]] /\ frames \in [Ends -> SUBSET Nat]
    BY DEF IInv, Types, ThreadTypes, FrameTypes
<1>2. writer[e] # Idle => writer[e].n \in Nat
    BY <1>1 DEF WriterStates
<1> QED BY <1>1, <1>2 DEF Directions

LEMMA IdleFacts == Idle \in WriterStates /\ Idle.pc = "idle"
BY DEF WriterStates, Idle

LEMMA DoingFacts ==
    ASSUME NEW pc \in {"put", "header", "payload", "notify", "done"}, NEW n \in Nat
    PROVE  Doing(pc, n) \in WriterStates /\ Doing(pc, n).pc = pc /\ Doing(pc, n).n = n
BY DEF Doing, WriterStates

LEMMA WriterGoes ==
    ASSUME IInv, NEW e \in Ends, NEW w \in WriterStates, writer' = [writer EXCEPT ![e] = w]
    PROVE  /\ writer' \in [Ends -> WriterStates] /\ writer'[e] = w
           /\ writer'[Peer(e)] = writer[Peer(e)]
<1>1. writer \in [Ends -> WriterStates]
    BY DEF IInv, Types, ThreadTypes
<1> QED BY <1>1, PeerFacts

LEMMA WriterRests ==
    ASSUME IInv, NEW e \in Ends, writer' = [writer EXCEPT ![e] = Idle]
    PROVE  /\ writer' \in [Ends -> WriterStates] /\ writer'[e] = Idle /\ Idle.pc = "idle"
           /\ writer'[Peer(e)] = writer[Peer(e)]
BY IdleFacts, WriterGoes

LEMMA PutOnStep ==
    ASSUME IInv, NEW e \in Ends, PutOn(e)
    PROVE  IInv'
<1> DEFINE n == writer[e].n
           ev == Event("WRITE2", n)
<1>1. UNCHANGED <<inbox, userVars, reader, readVars, taken, ackVars, deadline, faults>>
      /\ writer[e].pc = "put" /\ writer[e] # Idle
    BY IdleFacts DEF PutOn
<1>2. Types /\ Local(e) /\ n \in Nat /\ Frames(e)' = Frames(e)
    BY <1>1, WriterFacts DEF userVars, called, Frames, Calls
<1>3. n = taken[e] /\ n \in Frames(e) /\ acker[e][n] = "none" /\ n \in 1 .. taken[e]
    BY <1>1, <1>2, WriterFacts DEF Local, CountingAt, Frames
<1>4. ev \in Events /\ <<ev>> \in Slots /\ <<ev>> # <<>> /\ Head(<<ev>>) = ev
      /\ ev.flag = "WRITE2" /\ ev.arg = n
    BY <1>2, SlotFacts DEF Events, Event
<1>5. tpt' \in [Ends -> [Directions -> Slots]] /\ tpt'[e]["W"] = <<ev>>
      /\ tpt'[Peer(e)] = tpt[Peer(e)]
    BY <1>4, WriterFacts, PeerFacts DEF PutOn
<1>6. frames' \in [Ends -> SUBSET Nat] /\ frames'[e] = frames[e] \cup {n}
      /\ frames'[Peer(e)] = frames[Peer(e)]
    BY <1>2, WriterFacts, PeerFacts DEF PutOn
<1>7. writer' \in [Ends -> WriterStates] /\ writer'[e] = Idle /\ Idle.pc = "idle"
      /\ writer'[Peer(e)] = writer[Peer(e)]
  <2>1. writer' = [writer EXCEPT ![e] = Idle]
      BY DEF PutOn
  <2> QED BY <2>1, WriterRests
<1>8. Types'
    BY <1>1, <1>2, <1>5, <1>6, <1>7
    DEF Types, CallTypes, NetTypes, ThreadTypes, FrameTypes, userVars, called, readVars, ackVars,
        Calls, Frames
<1>9. CountingAt(e)' /\ WritingAt(e)'
    BY <1>1, <1>2, <1>3, <1>4, <1>5, <1>6, <1>7
    DEF Local, CountingAt, WritingAt, Asked, Number, userVars, called, ackVars
<1>10. AckAt(e)'
    BY <1>1, <1>2, <1>3, <1>4, <1>5, <1>6, <1>7 DEF Local, AckAt, Asked, readVars, ackVars
<1>11. Apart(e)
    BY <1>1, <1>5, <1>6, <1>7, WriterFacts DEF Apart, userVars, readVars, ackVars
<1> QED BY <1>1, <1>8, <1>9, <1>10, <1>11, WriterStep DEF Local

LEMMA WriteHeaderStep ==
    ASSUME IInv, NEW e \in Ends, WriteHeader(e)
    PROVE  IInv'
<1> DEFINE n == writer[e].n
           d == Datagram("DATAGRAM", n)
           w == Doing("payload", n)
<1>1. UNCHANGED <<tpt, userVars, reader, readVars, taken, frames, ackVars>>
      /\ writer[e].pc = "header" /\ writer[e] # Idle /\ Transmit(e, d)
      /\ writer' = [writer EXCEPT ![e] = w]
      /\ Ready(e, "W")
    BY IdleFacts DEF WriteHeader
<1>2. Types /\ Local(e) /\ n \in Nat /\ Frames(e)' = Frames(e)
    BY <1>1, WriterFacts DEF userVars, called, Frames, Calls
<1>3. n \in frames[e] /\ n \in 1 .. taken[e] /\ acker[e][n] = "none"
    BY <1>1, <1>2 DEF Local, CountingAt, WritingAt
<1>4. d \in Datagrams /\ d.kind = "DATAGRAM" /\ d.n = n
    BY <1>2 DEF Datagram, Datagrams
<1>5. inbox' \in [Ends -> Seq(Datagrams)] /\ FaultTypes'
    BY <1>1, <1>2, <1>4, Transmitted DEF userVars, called
<1>6. TravelAt(Peer(e))' /\ inbox'[e] = inbox[e]
    BY <1>1, <1>3, <1>4, SendStep DEF readVars
<1>7. w.pc = "payload" /\ w.n = n /\ writer' \in [Ends -> WriterStates] /\ writer'[e] = w
      /\ writer'[Peer(e)] = writer[Peer(e)]
  <2>1. w \in WriterStates /\ w.pc = "payload" /\ w.n = n
      BY <1>2, DoingFacts
  <2> HIDE DEF w
  <2> QED BY <1>1, <2>1, WriterGoes
<1>8. deadline' \in DeadlineTypes
    BY <1>1, <1>2, DeadlineFacts DEF Directions
<1>9. Types'
    BY <1>1, <1>2, <1>5, <1>7, <1>8
    DEF FaultTypes, Types, CallTypes, NetTypes, ThreadTypes, FrameTypes, userVars, called, readVars, ackVars,
        Calls, Frames
<1>10. CountingAt(e)' /\ WritingAt(e)' /\ AckAt(e)'
    BY <1>1, <1>2, <1>3, <1>7
    DEF Local, CountingAt, WritingAt, AckAt, Asked, Number, userVars, called, readVars, ackVars
<1>11. Apart(e)
    BY <1>1, <1>7, WriterFacts DEF Apart, userVars, readVars, ackVars
<1> QED BY <1>6, <1>9, <1>10, <1>11, WriterStep DEF Local

LEMMA WritePayloadStep ==
    ASSUME IInv, NEW e \in Ends, WritePayload(e)
    PROVE  IInv'
<1> DEFINE n == writer[e].n
           d == Datagram("payload", n)
           w == Doing("notify", n)
<1>1. UNCHANGED <<tpt, userVars, reader, readVars, taken, frames, deadline>>
      /\ writer[e].pc = "payload" /\ writer[e] # Idle /\ Transmit(e, d)
      /\ writer' = [writer EXCEPT ![e] = w]
      /\ doneCh' = [doneCh EXCEPT ![e][n] = "empty"]
      /\ acker' = [acker EXCEPT ![e][n] = "waiting"]
    BY IdleFacts DEF WritePayload
<1>2. Types /\ Local(e) /\ n \in Nat /\ \A x \in Ends : Frames(x)' = Frames(x)
    BY <1>1, WriterFacts DEF userVars, called, Frames, Calls
<1>3. n \in frames[e] /\ n \in 1 .. taken[e]
    BY <1>1, <1>2 DEF Local, CountingAt, WritingAt
<1>4. d \in Datagrams /\ d.kind = "payload" /\ d.n = n
    BY <1>2 DEF Datagram, Datagrams
<1>5. inbox' \in [Ends -> Seq(Datagrams)] /\ FaultTypes'
    BY <1>1, <1>2, <1>4, Transmitted DEF userVars, called
<1>6. TravelAt(Peer(e))' /\ inbox'[e] = inbox[e]
    BY <1>1, <1>3, <1>4, SendStep DEF readVars
<1>7. w.pc = "notify" /\ writer' \in [Ends -> WriterStates] /\ writer'[e] = w
      /\ writer'[Peer(e)] = writer[Peer(e)]
  <2>1. w \in WriterStates /\ w.pc = "notify"
      BY <1>2, DoingFacts
  <2> HIDE DEF w
  <2> QED BY <1>1, <2>1, WriterGoes
<1>8. /\ doneCh' = [x \in Ends |-> doneCh'[x]] /\ doneCh'[Peer(e)] = doneCh[Peer(e)]
      /\ doneCh'[e] \in [Frames(e) -> {"none", "empty", "full"}]
      /\ \A k \in Frames(e) : doneCh'[e][k] = IF k = n THEN "empty" ELSE doneCh[e][k]
    BY <1>1, <1>2, DoneChFacts DEF DoneStates
<1>9. /\ acker' = [x \in Ends |-> acker'[x]] /\ acker'[Peer(e)] = acker[Peer(e)]
      /\ acker'[e] \in [Frames(e) -> {"none", "waiting", "repeat", "gone"}]
      /\ \A k \in Frames(e) : acker'[e][k] = IF k = n THEN "waiting" ELSE acker[e][k]
    BY <1>1, <1>2, AckerFacts DEF AckerStates
<1>10. \A x \in Ends : x = e \/ x = Peer(e)
    BY DEF Ends, Peer
<1>11. FrameTypes'
    BY <1>1, <1>2, <1>8, <1>9, <1>10 DEF Types, FrameTypes, readVars
<1>12. Types'
    BY <1>1, <1>2, <1>5, <1>7, <1>11
    DEF FaultTypes, Types, CallTypes, NetTypes, ThreadTypes, userVars, called, Calls
<1>13. CountingAt(e)' /\ WritingAt(e)'
  <2>1. ~Asked(e, "WRITE2")
      BY <1>1, <1>2 DEF Local, WritingAt
  <2>2. n <= taken[e]
      BY <1>2, <1>3, WriterFacts
  <2>3. CountingAt(e)'
      BY <1>1, <1>2, <1>7, <1>9, <2>2 DEF Local, CountingAt, Asked, userVars, called
  <2>4. WritingAt(e)'
      BY <1>1, <1>2, <1>3, <1>7, <1>9, <2>1 DEF Local, WritingAt, Asked
  <2> QED BY <2>3, <2>4
<1>14. AckAt(e)'
    BY <1>1, <1>2, <1>7, <1>8, <1>9 DEF Local, AckAt, Asked, Number, readVars
<1>15. Apart(e)
    BY <1>1, <1>7, <1>8, <1>9, WriterFacts DEF Apart, userVars, readVars
<1> QED BY <1>6, <1>12, <1>13, <1>14, <1>15, WriterStep DEF Local

LEMMA AbandonStep ==
    ASSUME IInv, NEW e \in Ends, WriteTimesOut(e) \/ WriteFails(e)
    PROVE  IInv'
<1>1. AbandonFrame(e)
    BY DEF WriteTimesOut, WriteFails
<1>2. UNCHANGED <<inbox, tpt, called, reader, readVars, taken, frames, ackVars>>
      /\ writer' = [writer EXCEPT ![e] = Idle] /\ Respond(e, "W")
    BY <1>1 DEF AbandonFrame
<1>3. Types /\ Local(e) /\ Frames(e)' = Frames(e)
    BY <1>2, WriterFacts DEF called, Frames, Calls
<1>4. FaultTypes'
  <2>1. plan' = plan /\ (UNCHANGED faults \/ Fault("failed") \/ Fault("lost"))
      BY <1>2 DEF WriteTimesOut, WriteFails, called
  <2> QED BY <1>3, <2>1, FaultFacts DEF Kinds
<1>10. deadline' \in DeadlineTypes
  <2>1. UNCHANGED deadline \/ Ready(e, "W") \/ TimedOut(e, "W")
      BY DEF WriteTimesOut, WriteFails
  <2> QED BY <1>3, <2>1, DeadlineFacts DEF Types, NetTypes, Directions
<1>5. writer' \in [Ends -> WriterStates] /\ writer'[e] = Idle /\ Idle.pc = "idle"
      /\ writer'[Peer(e)] = writer[Peer(e)]
    BY <1>2, WriterRests
<1>6. user' \in [Ends -> [Directions -> {"idle", "waiting", "closed"}]]
    BY <1>2, WriterFacts, RespondFacts
<1>7. Types'
    BY <1>2, <1>3, <1>4, <1>5, <1>6, <1>10
    DEF FaultTypes, Types, CallTypes, NetTypes, ThreadTypes, FrameTypes, called, readVars, ackVars,
        Calls, Frames
<1>8. Local(e)'
    BY <1>2, <1>3, <1>5
    DEF Local, CountingAt, WritingAt, AckAt, Asked, Number, called, readVars, ackVars
<1>9. Apart(e)
    BY <1>2, <1>5, WriterFacts DEF Apart, readVars, ackVars
<1> QED BY <1>2, <1>7, <1>8, <1>9, WriterStep

LEMMA NotifyReaderStep ==
    ASSUME IInv, NEW e \in Ends, NotifyReader(e)
    PROVE  IInv'
<1> DEFINE ev == Event("DATA_ACK", 0)
<1>1. UNCHANGED <<inbox, called, reader, readVars, taken, frames, ackVars, deadline, faults>>
      /\ writer' = [writer EXCEPT ![e] = Idle] /\ Respond(e, "W")
      /\ tpt' = [tpt EXCEPT ![e]["R"] = <<ev>>] /\ writer[e].pc = "notify" /\ writer[e] # Idle
    BY IdleFacts DEF NotifyReader
<1>2. Types /\ Local(e) /\ Frames(e)' = Frames(e)
    BY <1>1, WriterFacts DEF called, Frames, Calls
<1>3. ev \in Events /\ <<ev>> \in Slots
    BY SlotFacts DEF Events, Event
<1>4. tpt' \in [Ends -> [Directions -> Slots]] /\ tpt'[e]["W"] = tpt[e]["W"]
      /\ tpt'[Peer(e)] = tpt[Peer(e)]
    BY <1>1, <1>3, WriterFacts, PeerFacts DEF Directions
<1>5. writer' \in [Ends -> WriterStates] /\ writer'[e] = Idle /\ Idle.pc = "idle"
      /\ writer'[Peer(e)] = writer[Peer(e)]
    BY <1>1, WriterRests
<1>6. user' \in [Ends -> [Directions -> {"idle", "waiting", "closed"}]]
    BY <1>1, WriterFacts, RespondFacts
<1>7. Types'
    BY <1>1, <1>2, <1>4, <1>5, <1>6
    DEF Types, CallTypes, NetTypes, ThreadTypes, FrameTypes, called, readVars, ackVars,
        Calls, Frames
<1>8. Local(e)'
    BY <1>1, <1>2, <1>4, <1>5
    DEF Local, CountingAt, WritingAt, AckAt, Asked, Number, called, readVars, ackVars
<1>9. Apart(e)
    BY <1>1, <1>4, <1>5, WriterFacts DEF Apart, readVars, ackVars
<1> QED BY <1>1, <1>7, <1>8, <1>9, WriterStep

LEMMA SendDoneStep ==
    ASSUME IInv, NEW e \in Ends, SendDone(e)
    PROVE  IInv'
<1> DEFINE n == writer[e].n
<1>1. UNCHANGED <<inbox, tpt, userVars, reader, readVars, taken, frames, acker, deadline, faults>>
      /\ writer' = [writer EXCEPT ![e] = Idle] /\ writer[e].pc = "done" /\ writer[e] # Idle
      /\ doneCh' = [doneCh EXCEPT ![e][n] = "full"]
    BY IdleFacts DEF SendDone
<1>2. Types /\ Local(e) /\ \A x \in Ends : Frames(x)' = Frames(x)
    BY <1>1, WriterFacts DEF userVars, called, Frames, Calls
<1>3. n \in seen[Peer(e)]
    BY <1>1, <1>2 DEF Local, AckAt
<1>4. writer' \in [Ends -> WriterStates] /\ writer'[e] = Idle /\ Idle.pc = "idle"
      /\ writer'[Peer(e)] = writer[Peer(e)]
    BY <1>1, WriterRests
<1>5. /\ doneCh' = [x \in Ends |-> doneCh'[x]] /\ doneCh'[Peer(e)] = doneCh[Peer(e)]
      /\ doneCh'[e] \in [Frames(e) -> {"none", "empty", "full"}]
      /\ \A k \in Frames(e) : doneCh'[e][k] = IF k = n THEN "full" ELSE doneCh[e][k]
    BY <1>1, <1>2, DoneChFacts DEF DoneStates
<1>6. \A x \in Ends : x = e \/ x = Peer(e)
    BY DEF Ends, Peer
<1>7. FrameTypes'
    BY <1>1, <1>2, <1>5, <1>6 DEF Types, FrameTypes, readVars
<1>8. Types'
    BY <1>1, <1>2, <1>4, <1>7
    DEF Types, CallTypes, NetTypes, ThreadTypes, userVars, called, Calls
<1>9. Local(e)'
  <2>1. CountingAt(e)' /\ WritingAt(e)'
      BY <1>1, <1>2, <1>4 DEF Local, CountingAt, WritingAt, Asked, Number, userVars, called
  <2>2. AckAt(e)'
      BY <1>1, <1>2, <1>3, <1>4, <1>5 DEF Local, AckAt, Asked, Number, readVars
  <2> QED BY <2>1, <2>2 DEF Local
<1>10. Apart(e)
    BY <1>1, <1>4, <1>5, WriterFacts DEF Apart, userVars, readVars
<1> QED BY <1>1, <1>8, <1>9, <1>10, WriterStep

-----------------------------------------------------------------------------
(* The goroutine of a frame, and the timers.                               *)

LEMMA AckerStep ==
    ASSUME IInv, NEW e \in Ends, NEW n \in Frames(e), NEW v \in {"repeat", "gone"},
           acker' = [acker EXCEPT ![e][n] = v], acker[e][n] # "none",
           UNCHANGED <<inbox, userVars, reader, readVars, writer, taken, deadline, faults>>,
           frames' = frames \/ frames' = [frames EXCEPT ![e] = @ \ {n}],
           IF n \in frames'[e] THEN TRUE ELSE v = "gone" /\ n \in seen[Peer(e)],
           doneCh' = doneCh \/ doneCh' = [doneCh EXCEPT ![e][n] = "empty"],
           \/ tpt' = tpt
           \/ tpt[e]["W"] = <<>> /\ tpt' = [tpt EXCEPT ![e]["W"] = <<Event("REPEAT", n)>>]
    PROVE  IInv'
<1> DEFINE ev == Event("REPEAT", n)
<1>1. Types /\ Local(e) /\ (\A x \in Ends : Frames(x)' = Frames(x)) /\ n \in Nat
    BY WriterFacts DEF userVars, called, Frames, Calls
<1>2. /\ acker' = [x \in Ends |-> acker'[x]] /\ acker'[Peer(e)] = acker[Peer(e)]
      /\ acker'[e] \in [Frames(e) -> {"none", "waiting", "repeat", "gone"}]
      /\ \A k \in Frames(e) : acker'[e][k] = IF k = n THEN v ELSE acker[e][k]
    BY <1>1, AckerFacts DEF AckerStates
<1>3. /\ doneCh' = [x \in Ends |-> doneCh'[x]] /\ doneCh'[Peer(e)] = doneCh[Peer(e)]
      /\ doneCh'[e] \in [Frames(e) -> {"none", "empty", "full"}]
      /\ \A k \in Frames(e) : doneCh'[e][k] = "full" => doneCh[e][k] = "full"
  <2>1. CASE doneCh' = doneCh
      BY <1>1, <2>1 DEF Types, FrameTypes
  <2>2. CASE doneCh' = [doneCh EXCEPT ![e][n] = "empty"]
      BY <1>1, <2>2, DoneChFacts DEF DoneStates
  <2> QED BY <2>1, <2>2
<1>4. frames' \in [Ends -> SUBSET Nat] /\ frames'[Peer(e)] = frames[Peer(e)]
      /\ frames'[e] \subseteq frames[e] /\ frames[e] \ {n} \subseteq frames'[e]
    BY WriterFacts, PeerFacts
<1>5. /\ tpt' \in [Ends -> [Directions -> Slots]] /\ tpt'[Peer(e)] = tpt[Peer(e)]
      /\ tpt'[e]["W"] = tpt[e]["W"]
         \/ (tpt'[e]["W"] = <<ev>> /\ <<ev>> # <<>> /\ Head(<<ev>>).flag = "REPEAT")
  <2>1. ev \in Events /\ <<ev>> \in Slots /\ <<ev>> # <<>> /\ Head(<<ev>>).flag = "REPEAT"
      BY <1>1, SlotFacts DEF Events, Event
  <2>2. tpt \in [Ends -> [Directions -> Slots]] /\ "W" \in Directions
      BY WriterFacts
  <2> HIDE DEF ev
  <2>3. CASE tpt' = tpt
      BY <2>2, <2>3
  <2>4. CASE tpt' = [tpt EXCEPT ![e]["W"] = <<ev>>]
      BY <2>1, <2>2, <2>4, PeerFacts
  <2> QED BY <2>3, <2>4 DEF ev
<1>6. \A x \in Ends : x = e \/ x = Peer(e)
    BY DEF Ends, Peer
<1>7. FrameTypes'
    BY <1>1, <1>2, <1>3, <1>4, <1>6 DEF Types, FrameTypes, readVars
<1>8. Types'
    BY <1>1, <1>5, <1>7 DEF Types, CallTypes, NetTypes, ThreadTypes, userVars, called, Calls
<1>9. CountingAt(e)'
  <2>1. n <= taken[e]
      BY <1>1 DEF Local, CountingAt
  <2> QED
    BY <1>1, <1>2, <1>4, <1>5, <2>1 DEF Local, CountingAt, Asked, Number, userVars, called
<1>10. WritingAt(e)'
    BY <1>1, <1>2, <1>4, <1>5 DEF Local, WritingAt, Asked, Number, userVars, called
<1>11. AckAt(e)'
    BY <1>1, <1>2, <1>3, <1>4, <1>5 DEF Local, AckAt, Asked, Number, readVars
<1>12. Apart(e)
    BY <1>2, <1>3, <1>4, <1>5, WriterFacts DEF Apart, userVars, readVars
<1> QED BY <1>8, <1>9, <1>10, <1>11, <1>12, WriterStep DEF Local

LEMMA AckerNextStep ==
    ASSUME IInv, NEW e \in Ends, AckerNext(e)
    PROVE  IInv'
<1>1. PICK n \in Frames(e) : Acknowledged(e, n) \/ AckTimeout(e, n) \/ AskRepeat(e, n)
    BY DEF AckerNext
<1>2. WritingAt(e) /\ AckAt(e) /\ frames \in [Ends -> SUBSET Nat]
    BY WriterFacts DEF Local
<1>3. CASE Acknowledged(e, n)
  <2>1. n \in seen[Peer(e)]
      BY <1>2, <1>3 DEF Acknowledged, AckAt
  <2>2. n \notin frames'[e]
      BY <1>2, <1>3 DEF Acknowledged
  <2> QED BY <1>3, <2>1, <2>2, AckerStep DEF Acknowledged
<1>4. CASE AckTimeout(e, n)
  <2>1. n \in frames'[e]
      BY <1>2, <1>4 DEF AckTimeout, WritingAt
  <2>2. UNCHANGED <<doneCh, tpt, frames>>
      BY <1>4 DEF AckTimeout
  <2> QED BY <1>4, <2>1, <2>2, AckerStep DEF AckTimeout
<1>5. CASE AskRepeat(e, n)
  <2>1. n \in frames'[e]
      BY <1>2, <1>5 DEF AskRepeat, WritingAt
  <2> QED BY <1>5, <2>1, AckerStep DEF AskRepeat
<1> QED BY <1>1, <1>3, <1>4, <1>5

LEMMA ExpireStep ==
    ASSUME IInv, NEW e \in Ends, NEW m \in Directions, Expire(e, m)
    PROVE  IInv'
<1>1. UNCHANGED <<inbox, tpt, userVars, reader, readVars, writer, taken, frames, ackVars, faults>>
    BY DEF Expire
<1>2. deadline' \in DeadlineTypes
  <2> DEFINE old == deadline[e][m]
             new == [open |-> old.open - 1, err |-> TRUE]
  <2>1. old \in [open : Nat, err : BOOLEAN] /\ old.open > 0
      BY DEF Expire, IInv, Types, NetTypes, DeadlineTypes
  <2>2. new \in [open : Nat, err : BOOLEAN] /\ deadline' = [deadline EXCEPT ![e][m] = new]
      BY <2>1 DEF Expire
  <2> HIDE DEF new
  <2> QED BY <2>2, DeadlineMoves DEF IInv
<1>3. Types'
    BY <1>1, <1>2
    DEF IInv, Types, CallTypes, NetTypes, ThreadTypes, FrameTypes, userVars, called, readVars,
        ackVars, Calls, Frames
<1>4. \A x \in Ends : Frames(x)' = Frames(x)
    BY <1>1 DEF userVars, called, Frames, Calls
<1>5. \A x \in Ends : Local(x)' /\ TravelAt(x)'
    BY <1>1, <1>4
    DEF IInv, Local, CountingAt, WritingAt, AckAt, TravelAt, Asked, Number, userVars, called,
        readVars, ackVars
<1> QED BY <1>3, <1>5 DEF IInv

LEMMA OvertakesStep ==
    ASSUME IInv, NEW e \in Ends, Overtakes(e)
    PROVE  IInv'
<1> DEFINE q == inbox[e]
<1>1. PICK i \in 1 .. Len(q) - 1 :
        inbox' = [inbox EXCEPT ![e][i] = q[i + 1], ![e][i + 1] = q[i]]
    BY DEF Overtakes
<1>2. UNCHANGED <<tpt, userVars, reader, readVars, writer, taken, frames, ackVars, deadline>>
      /\ Fault("overtaken")
    BY DEF Overtakes
<1>3. Types /\ inbox \in [Ends -> Seq(Datagrams)] /\ q \in Seq(Datagrams)
    BY DEF IInv, Types, NetTypes
<1> DEFINE r == [q EXCEPT ![i] = q[i + 1], ![i + 1] = q[i]]
<1>4. r \in Seq(Datagrams) /\ Len(r) = Len(q)
      /\ \A k \in 1 .. Len(r) : \E j \in 1 .. Len(q) : r[k] = q[j]
  <2>1. Len(q) \in Nat /\ i \in 1 .. Len(q) /\ i + 1 \in 1 .. Len(q)
      BY <1>3
  <2>2. \A k \in 1 .. Len(q) :
            r[k] = IF k = i + 1 THEN q[i] ELSE IF k = i THEN q[i + 1] ELSE q[k]
      BY <1>3, <2>1
  <2>3. r \in Seq(Datagrams) /\ Len(r) = Len(q)
      BY <1>3, <2>1
  <2> QED BY <2>1, <2>2, <2>3
<1>5. inbox' = [inbox EXCEPT ![e] = r]
    BY <1>1
<1> HIDE DEF r
<1>6. inbox' \in [Ends -> Seq(Datagrams)] /\ inbox'[e] = r /\ inbox'[Peer(e)] = inbox[Peer(e)]
    BY <1>3, <1>4, <1>5, PeerFacts
<1>7. FaultTypes'
    BY <1>2, <1>3, FaultFacts DEF Kinds, userVars, called
<1>8. Types'
    BY <1>2, <1>3, <1>6, <1>7
    DEF FaultTypes, Types, CallTypes, NetTypes, ThreadTypes, FrameTypes, userVars, called,
        readVars, ackVars, Calls, Frames
<1>9. Drained(e)
    BY <1>4, <1>6 DEF Drained
<1>10. /\ seen[e] \subseteq 1 .. taken[Peer(e)]
       /\ reader[e].pc = "push" =>
            reader[e].n \in IF reader[e].flag = "DATAGRAM" THEN seen[e] ELSE seen[Peer(e)]
    BY DEF IInv, Local, AckAt
<1> QED BY <1>2, <1>8, <1>9, <1>10, ReadingStep DEF userVars, readVars

LEMMA StutterStep ==
    ASSUME IInv, UNCHANGED vars
    PROVE  IInv'
<1>1. Types'
    BY DEF IInv, Types, CallTypes, NetTypes, ThreadTypes, FrameTypes, vars, userVars, called,
           readVars, ackVars, Calls, Frames
<1>2. \A x \in Ends : Frames(x)' = Frames(x)
    BY DEF vars, userVars, called, Frames, Calls
<1>3. \A x \in Ends : Local(x)' /\ TravelAt(x)'
    BY <1>2
    DEF IInv, Local, CountingAt, WritingAt, AckAt, TravelAt, Asked, Number, vars, userVars, called,
        readVars, ackVars
<1> QED BY <1>1, <1>3 DEF IInv

-----------------------------------------------------------------------------
(* The invariant and what follows from it.                                 *)

LEMMA InitIInv == Init => IInv
<1> SUFFICES ASSUME Init PROVE IInv
    OBVIOUS
<1>1. plan \in Plans /\ plan.faults \in [Kinds -> Nat]
      /\ \A e \in Ends, m \in Directions : Len(Calls(e, m)) \in Nat
    BY PlansAssumption DEF Init, Calls
<1>2. Types
    BY <1>1, SlotFacts
    DEF Init, Types, CallTypes, NetTypes, DeadlineTypes, ThreadTypes, FrameTypes, ReaderStates,
        WriterStates
<1>3. \A e \in Ends : Local(e) /\ TravelAt(e)
    BY <1>1 DEF Init, Local, CountingAt, WritingAt, AckAt, TravelAt, Asked, Idle, Directions
<1> QED BY <1>2, <1>3 DEF IInv

LEMMA NextIInv == IInv /\ [Next]_vars => IInv'
<1> SUFFICES ASSUME IInv, [Next]_vars PROVE IInv'
    OBVIOUS
<1>1. CASE Next
  <2>1. PICK e \in Ends :
          \/ UserNext(e) \/ ReaderNext(e) \/ WriterNext(e) \/ AckerNext(e)
          \/ Overtakes(e) \/ \E m \in Directions : Expire(e, m)
      BY <1>1 DEF Next
  <2>2. CASE UserNext(e)
      BY <2>2, CallStep DEF UserNext
  <2>3. CASE ReaderNext(e)
      BY <2>3, TakeReadStep, ParseHeaderStep, ReadEndsStep, PushNumbersStep DEF ReaderNext
  <2>4. CASE WriterNext(e)
      BY <2>4, TakeWriteStep, PutOnStep, WriteHeaderStep, WritePayloadStep, AbandonStep,
         NotifyReaderStep, SendDoneStep DEF WriterNext
  <2>5. CASE AckerNext(e)
      BY <2>5, AckerNextStep
  <2>6. CASE \E m \in Directions : Expire(e, m)
      BY <2>6, ExpireStep
  <2>7. CASE Overtakes(e)
      BY <2>7, OvertakesStep
  <2> QED BY <2>1, <2>2, <2>3, <2>4, <2>5, <2>6, <2>7
<1>2. CASE UNCHANGED vars
    BY <1>2, StutterStep
<1> QED BY <1>1, <1>2

\* Every state of a connection satisfies IInv, whatever its users call and
\* whatever the network and the deadlines do.
THEOREM Inductive == Spec => []IInv
<1>1. Init => IInv
    BY InitIInv
<1>2. IInv /\ [Next]_vars => IInv'
    BY NextIInv
<1> QED BY <1>1, <1>2, PTL DEF Spec

\* A frame leaves BuffrW as acknowledged only after the other end has parsed its
\* header, for any calls, any number of failures, any maxsize.
THEOREM AcknowledgedWereRead == Spec => []AckedWereRead
<1>1. IInv => AckedWereRead
    BY DEF IInv, Local, AckAt, AckedWereRead, Confirmed
<1> QED BY <1>1, Inductive, PTL

-----------------------------------------------------------------------------
(* The sizes of BuffrW and BufferR, by a second invariant beside the first. *)

\* What putFrame found free is still free when it adds the entry.
RoomAt(e) ==
    /\ IsFiniteSet(frames[e]) /\ Cardinality(frames[e]) <= MaxSize
    /\ writer[e].pc = "put" => Cardinality(frames[e]) < MaxSize

\* A Read asks for at least one byte, and for the payload of a frame it has seen.
ArgsAt(e) ==
    /\ reader[e].pc = "payload" => reader[e].size > 0 /\ reader[e].n \in seen[e]
    /\ tpt[e]["R"] # <<>> /\ Head(tpt[e]["R"]).flag = "READ1" => Head(tpt[e]["R"]).arg > 0

\* What BufferR keeps is less than a frame.
Bytes == Nat \X Nat
Chunks ==
    /\ buffer \in [Ends -> Seq(Bytes)]
    /\ \A e \in Ends :
        buffer[e] = <<>> \/ \E n \in seen[e] : Len(buffer[e]) < Size(Peer(e), n)

Sizes == Chunks /\ \A e \in Ends : RoomAt(e) /\ ArgsAt(e)

LEMMA RoomMoves ==
    ASSUME IInv, [Next]_vars, NEW x \in Ends
    PROVE  \/ frames'[x] = frames[x]
              /\ (writer'[x].pc = "put" => writer[x].pc = "put" \/ ~isFull(x))
           \/ writer[x].pc = "put" /\ writer'[x].pc = "idle"
              /\ \E n : frames'[x] = frames[x] \cup {n}
           \/ writer'[x] = writer[x] /\ \E n : frames'[x] = frames[x] \ {n}
<1>1. writer \in [Ends -> WriterStates] /\ frames \in [Ends -> SUBSET Nat]
    BY WriterFacts
<1>2. \A pc, n : Doing(pc, n).pc = pc /\ Idle.pc = "idle"
    BY DEF Doing, Idle
<1>3. CASE UNCHANGED <<frames, writer>>
    BY <1>3
<1>4. ASSUME NEW e \in Ends, WriterNext(e), ~UNCHANGED <<frames, writer>>
      PROVE  \/ frames' = frames /\ \E w : writer' = [writer EXCEPT ![e] = w]
                /\ (w.pc = "put" => ~isFull(e))
             \/ writer[e].pc = "put" /\ writer' = [writer EXCEPT ![e] = Idle]
                /\ \E n : frames' = [frames EXCEPT ![e] = @ \cup {n}]
  <2>1. CASE TakeWrite(e)
    <3>1. frames' = frames
        BY <2>1 DEF TakeWrite
    <3>2. CASE PutFrame(e)
        BY <1>2, <1>4, <3>1, <3>2 DEF PutFrame
    <3>3. CASE \E pc \in {"done", "header"} : \E n : writer' = [writer EXCEPT ![e] = Doing(pc, n)]
        BY <1>2, <3>1, <3>3
    <3>4. ResetAckSeqnum(e, Head(tpt[e]["W"]).arg) =>
            writer' = writer \/ \E n : writer' = [writer EXCEPT ![e] = Doing("done", n)]
        BY DEF ResetAckSeqnum
    <3> QED BY <1>4, <2>1, <3>1, <3>2, <3>3, <3>4 DEF TakeWrite
  <2>2. CASE PutOn(e)
      BY <2>2 DEF PutOn
  <2>3. CASE WriteHeader(e) \/ WritePayload(e)
      BY <1>2, <2>3 DEF WriteHeader, WritePayload
  <2>4. CASE WriteTimesOut(e) \/ WriteFails(e) \/ NotifyReader(e) \/ SendDone(e)
      BY <1>2, <2>4 DEF WriteTimesOut, WriteFails, AbandonFrame, NotifyReader, SendDone
  <2> QED BY <1>4, <2>1, <2>2, <2>3, <2>4 DEF WriterNext
<1>5. ASSUME NEW e \in Ends, AckerNext(e), ~UNCHANGED <<frames, writer>>
      PROVE  writer' = writer /\ \E n : frames' = [frames EXCEPT ![e] = @ \ {n}]
  <2>1. PICK n \in Frames(e) : Acknowledged(e, n) \/ AckTimeout(e, n) \/ AskRepeat(e, n)
      BY <1>5 DEF AckerNext
  <2> QED BY <1>5, <2>1 DEF Acknowledged, AckTimeout, AskRepeat
<1>6. ASSUME NEW e \in Ends,
             UserNext(e) \/ ReaderNext(e) \/ Overtakes(e) \/ \E m \in Directions : Expire(e, m)
      PROVE  UNCHANGED <<frames, writer>>
  <2>1. CASE UserNext(e)
      BY <2>1 DEF UserNext, Call
  <2>2. CASE ReaderNext(e)
      BY <2>2 DEF ReaderNext, TakeRead, ParseHeader, ReadTimesOut, ReadFails, PushNumbers,
                  ReadPayload
  <2>3. CASE Overtakes(e) \/ \E m \in Directions : Expire(e, m)
      BY <2>3 DEF Overtakes, Expire
  <2> QED BY <1>6, <2>1, <2>2, <2>3
<1>7. CASE Next /\ ~UNCHANGED <<frames, writer>>
  <2>1. PICK e \in Ends : WriterNext(e) \/ AckerNext(e)
      BY <1>6, <1>7 DEF Next
  <2>2. CASE WriterNext(e)
    <3>1. CASE \E w : frames' = frames /\ writer' = [writer EXCEPT ![e] = w]
                     /\ (w.pc = "put" => ~isFull(e))
        BY <1>1, <3>1
    <3>2. CASE \E n : writer[e].pc = "put" /\ writer' = [writer EXCEPT ![e] = Idle]
                     /\ frames' = [frames EXCEPT ![e] = @ \cup {n}]
        BY <1>1, <1>2, <3>2
    <3> QED BY <1>4, <1>7, <2>2, <3>1, <3>2
  <2>3. CASE AckerNext(e)
      BY <1>1, <1>5, <1>7, <2>3
  <2> QED BY <2>1, <2>2, <2>3
<1> QED BY <1>3, <1>7 DEF vars

LEMMA RoomNext ==
    ASSUME IInv, [Next]_vars, NEW x \in Ends, RoomAt(x)
    PROVE  RoomAt(x)'
<1>1. Cardinality(frames[x]) \in Nat /\ MaxSize \in Nat /\ IsFiniteSet(frames[x])
    BY FS_CardinalityType, SizesAssumption DEF RoomAt
<1>2. CASE frames'[x] = frames[x] /\ (writer'[x].pc = "put" => writer[x].pc = "put" \/ ~isFull(x))
    BY <1>1, <1>2 DEF RoomAt, isFull
<1>3. ASSUME writer[x].pc = "put", writer'[x].pc = "idle", NEW n, frames'[x] = frames[x] \cup {n}
      PROVE  RoomAt(x)'
  <2>1. IsFiniteSet(frames'[x]) /\ Cardinality(frames'[x]) \in Nat
        /\ Cardinality(frames'[x]) <= Cardinality(frames[x]) + 1
    <3> DEFINE F == frames[x]
    <3>1. IsFiniteSet(F) /\ Cardinality(F) \in Nat
        BY <1>1
    <3> HIDE DEF F
    <3>2. IsFiniteSet(F \cup {n})
          /\ Cardinality(F \cup {n}) = IF n \in F THEN Cardinality(F) ELSE Cardinality(F) + 1
        BY <3>1, FS_AddElement
    <3>3. IsFiniteSet(F \cup {n}) /\ Cardinality(F \cup {n}) \in Nat
          /\ Cardinality(F \cup {n}) <= Cardinality(F) + 1
        BY <3>1, <3>2
    <3> QED BY <1>3, <3>3 DEF F
  <2> QED BY <1>1, <1>3, <2>1 DEF RoomAt
<1>4. ASSUME writer'[x] = writer[x], NEW n, frames'[x] = frames[x] \ {n}
      PROVE  RoomAt(x)'
  <2>1. IsFiniteSet(frames'[x]) /\ Cardinality(frames'[x]) \in Nat
        /\ Cardinality(frames'[x]) <= Cardinality(frames[x])
    <3> DEFINE F == frames[x]
    <3>1. IsFiniteSet(F) /\ Cardinality(F) \in Nat
        BY <1>1
    <3> HIDE DEF F
    <3>2. IsFiniteSet(F \ {n}) /\ Cardinality(F \ {n}) \in Nat
          /\ Cardinality(F \ {n}) = IF n \in F THEN Cardinality(F) - 1 ELSE Cardinality(F)
        BY <3>1, FS_RemoveElement, FS_CardinalityType
    <3>3. IsFiniteSet(F \ {n}) /\ Cardinality(F \ {n}) \in Nat
          /\ Cardinality(F \ {n}) <= Cardinality(F)
        BY <3>1, <3>2
    <3> QED BY <1>4, <3>3 DEF F
  <2> QED BY <1>1, <1>4, <2>1 DEF RoomAt
<1> QED BY <1>2, <1>3, <1>4, RoomMoves

\* writeTo leaves no more than it found.
LEMMA KeptFacts ==
    ASSUME NEW chunk \in Seq(Bytes), NEW size \in Nat, size > 0
    PROVE  Kept(chunk, size) \in Seq(Bytes) /\ Len(Kept(chunk, size)) <= Len(chunk)
<1>1. CASE size >= Len(chunk)
    BY <1>1 DEF Kept
<1>2. CASE ~(size >= Len(chunk))
  <2>1. /\ Kept(chunk, size) = SubSeq(chunk, size, Len(chunk))
        /\ Len(chunk) \in Nat /\ size <= Len(chunk)
      BY <1>2 DEF Kept
  <2>2. \A i \in size .. Len(chunk) : chunk[i] \in Bytes
      BY <2>1
  <2>3. SubSeq(chunk, size, Len(chunk)) \in Seq(Bytes)
        /\ Len(SubSeq(chunk, size, Len(chunk))) = Len(chunk) - size + 1
      BY <2>1, <2>2, SubSeqProperties
  <2> QED BY <2>1, <2>3
<1> QED BY <1>1, <1>2

\* The frames that were taken have a size.
LEMMA SizeFacts ==
    ASSUME IInv, NEW e \in Ends, NEW n \in 1 .. taken[Peer(e)]
    PROVE  n \in Frames(Peer(e)) /\ Size(Peer(e), n) \in Nat \ {0}
<1>1. /\ Peer(e) \in Ends /\ plan \in Plans /\ taken[Peer(e)] \in Nat
      /\ taken[Peer(e)] <= made[Peer(e)]["W"] /\ made[Peer(e)]["W"] <= Len(Calls(Peer(e), "W"))
      /\ made[Peer(e)]["W"] \in Nat
    BY PeerFacts DEF IInv, Types, CallTypes, FrameTypes, Local, CountingAt, Directions
<1>2. Len(Calls(Peer(e), "W")) \in Nat
      /\ plan.size[Peer(e)] \in [1 .. Len(Calls(Peer(e), "W")) -> Nat \ {0}]
    BY <1>1, PlansAssumption DEF Calls, Directions
<1>3. n \in 1 .. Len(Calls(Peer(e), "W"))
    BY <1>1, <1>2
<1> QED BY <1>2, <1>3 DEF Frames, Size

\* The datagram a byte of several comes from: the last one that begins before it.
LEMMA SourceFacts ==
    ASSUME NEW j \in Nat \ {0}, NEW at \in [1 .. j -> Nat], at[1] = 0, NEW p \in Nat \ {0}
    PROVE  /\ Source(at, j, p) \in 1 .. j /\ at[Source(at, j, p)] < p
           /\ \A h \in 1 .. j : at[h] < p => h <= Source(at, j, p)
<1> DEFINE C == {j - i : i \in {h \in 1 .. j : at[h] < p}}
           Last(i) == at[i] < p /\ \A h \in 1 .. j : at[h] < p => h <= i
<1>1. C \subseteq Nat /\ j - 1 \in C
    OBVIOUS
<1>2. \A h \in 1 .. j : at[h] < p => j - h \in C
    OBVIOUS
<1>3. \A c \in C : \E i \in 1 .. j : c = j - i /\ at[i] < p
    OBVIOUS
<1> HIDE DEF C
<1>4. PICK c \in C : \A b \in C : <<b, c>> \notin OpToRel(<, Nat)
    BY <1>1, NatLessThanWellFounded, WFMin
<1>5. \A b \in C : ~(b < c)
    BY <1>1, <1>4 DEF OpToRel
<1>6. PICK i \in 1 .. j : c = j - i /\ at[i] < p
    BY <1>3
<1>7. \A h \in 1 .. j : at[h] < p => h <= i
    BY <1>2, <1>5, <1>6
<1>8. \E x \in 1 .. j : Last(x)
    BY <1>6, <1>7
<1>9. Source(at, j, p) = CHOOSE x \in 1 .. j : Last(x)
    BY DEF Source
<1> HIDE DEF Last
<1>10. Source(at, j, p) \in 1 .. j /\ Last(Source(at, j, p))
    BY <1>8, <1>9
<1> QED BY <1>10 DEF Last

LEMMA ByteFacts == \A d \in Datagrams, i \in Nat : Byte(d, i) \in Bytes
BY DEF Byte, Bytes, Datagrams

\* What the reader fills the frame with comes from the datagrams it has read.
LEMMA JoinedFacts ==
    ASSUME NEW e \in Ends, NEW q \in Seq(Datagrams), NEW j \in 1 .. Len(q), NEW k \in Nat \ {0},
           NEW at \in Offsets(e, q, j, k)
    PROVE  /\ Joined(q, at, j, k) \in Seq(Bytes) /\ Len(Joined(q, at, j, k)) = k
           /\ \A p \in 1 .. k :
                /\ Source(at, j, p) \in 1 .. j /\ at[Source(at, j, p)] < p
                /\ Joined(q, at, j, k)[p] =
                     Byte(q[Source(at, j, p)], p - at[Source(at, j, p)])
<1> DEFINE F(p) == Byte(q[Source(at, j, p)], p - at[Source(at, j, p)])
<1>1. j \in Nat \ {0} /\ at \in [1 .. j -> Nat] /\ at[1] = 0
    BY DEF Offsets
<1>2. ASSUME NEW p \in 1 .. k
      PROVE  Source(at, j, p) \in 1 .. j /\ at[Source(at, j, p)] < p
  <2>1. p \in Nat \ {0}
      OBVIOUS
  <2> QED BY <1>1, <2>1, SourceFacts
<1>3. ASSUME NEW p \in 1 .. k PROVE F(p) \in Bytes
  <2>1. q[Source(at, j, p)] \in Datagrams /\ p - at[Source(at, j, p)] \in Nat
      BY <1>1, <1>2
  <2> QED BY <2>1, ByteFacts
<1>4. Joined(q, at, j, k) = [p \in 1 .. k |-> F(p)]
    BY DEF Joined
<1>5. \A p \in 1 .. k : Joined(q, at, j, k)[p] = F(p)
    BY <1>4
<1> HIDE DEF F
<1>6. Joined(q, at, j, k) \in Seq(Bytes) /\ Len(Joined(q, at, j, k)) = k
    BY <1>3, <1>4
<1> QED BY <1>2, <1>5, <1>6 DEF F

LEMMA FirstFacts ==
    ASSUME NEW d \in Datagrams, NEW k \in Nat
    PROVE  /\ First(d, k) \in Seq(Bytes) /\ Len(First(d, k)) = k
           /\ \A p \in 1 .. k : First(d, k)[p] = Byte(d, p)
<1>1. \A p \in 1 .. k : Byte(d, p) \in Bytes
    BY ByteFacts
<1> QED BY <1>1 DEF First

\* What ReadPayload may return and keep.
Dropped(e, j) == inbox' = [inbox EXCEPT ![e] = SubSeq(@, j + 1, Len(@))]
Whole(e, d, n, k) ==
    /\ Matches(d, n) /\ buffer' = buffer /\ Dropped(e, 1)
    /\ got' = [got EXCEPT ![e] = @ \o First(d, k)]
Part(e, q, m, k) ==
    /\ got' = [got EXCEPT ![e] = @ \o First(q[1], m)]
    /\ \/ buffer' = buffer /\ Dropped(e, Len(q))
       \/ \E j \in 1 .. Len(q) : \E at \in Fills(e, q, j, k) :
            /\ buffer' = [buffer EXCEPT ![e] = SubSeq(Joined(q, at, j, k), m + 1, k)]
            /\ Dropped(e, j)

LEMMA PayloadFacts ==
    ASSUME IInv, NEW e \in Ends, ArgsAt(e), ReadPayload(e)
    PROVE  LET n == reader[e].n
               k == Size(Peer(e), n) IN
           /\ n \in seen[e] /\ n \in 1 .. taken[Peer(e)] /\ k \in Nat \ {0}
           /\ \/ UNCHANGED <<buffer, got>> /\ (inbox' = inbox \/ (inbox[e] # <<>> /\ Dropped(e, 1)))
              \/ inbox[e] # <<>> /\ Whole(e, inbox[e][1], n, k)
              \/ \E here \in 1 .. Len(inbox[e]) : \E m \in 1 .. k - 1 :
                    /\ m <= Length(e, inbox[e][1])
                    /\ m < Length(e, inbox[e][1]) => m = reader[e].size
                    /\ Part(e, SubSeq(inbox[e], 1, here), m, k)
<1> DEFINE n == reader[e].n
           k == Size(Peer(e), n)
           size == reader[e].size
           d == Head(inbox[e])
           m == IF size < Length(e, d) THEN size ELSE Length(e, d)
<1>1. /\ reader[e].pc = "payload" /\ reader[e] \in ReaderStates /\ inbox[e] \in Seq(Datagrams)
      /\ seen[e] \subseteq 1 .. taken[Peer(e)] /\ n \in seen[e] /\ size > 0
    BY DEF ReadPayload, IInv, Types, ThreadTypes, NetTypes, Local, AckAt, ArgsAt
<1>2. size \in Nat /\ n \in 1 .. taken[Peer(e)] /\ k \in Nat \ {0}
    BY <1>1, SizeFacts DEF ReaderStates, Idle
<1>3. ASSUME inbox[e] # <<>>
      PROVE  d = inbox[e][1] /\ d \in Datagrams /\ Length(e, d) \in Nat \ {0}
  <2>1. d = inbox[e][1] /\ 1 \in 1 .. Len(inbox[e]) /\ d \in Datagrams
      BY <1>1, <1>3
  <2>2. d.kind = "payload" => d.n \in 1 .. taken[Peer(e)]
      BY <2>1 DEF IInv, TravelAt
  <2> QED BY <2>1, <2>2, SizeFacts, SizesAssumption DEF Length
<1> HIDE DEF k, size, n, d
<1>4. PICK here \in 0 .. Len(inbox[e]) :
        \/ UNCHANGED <<inbox, buffer, got>>
        \/ here > 0 /\ UNCHANGED <<buffer, got>> /\ Dropped(e, 1)
        \/ here > 0 /\ Whole(e, d, n, k)
        \/ /\ here > 0 /\ size < k
           /\ got' = [got EXCEPT ![e] = @ \o First(d, m)]
           /\ \/ buffer' = buffer /\ Dropped(e, here)
              \/ \E j \in 1 .. here : \E at \in Fills(e, SubSeq(inbox[e], 1, here), j, k) :
                   /\ buffer' = [buffer EXCEPT ![e] =
                                   SubSeq(Joined(SubSeq(inbox[e], 1, here), at, j, k), m + 1, k)]
                   /\ Dropped(e, j)
  <2>1. PICK here \in 0 .. Len(inbox[e]) :
        LET q == SubSeq(inbox[e], 1, here)
            Counts == {j \in 1 .. here : j <= k} IN
        \/ UNCHANGED <<inbox, buffer, got>>
        \/ /\ here > 0 /\ inbox' = [inbox EXCEPT ![e] = Tail(@)]
           /\ got' = IF Matches(d, n) THEN [got EXCEPT ![e] = @ \o First(d, k)] ELSE got
           /\ UNCHANGED buffer
        \/ /\ here > 0 /\ size < k
           /\ got' = [got EXCEPT ![e] = @ \o First(d, m)]
           /\ \/ \E j \in Counts : \E at \in Fills(e, q, j, k) :
                  /\ inbox' = [inbox EXCEPT ![e] = SubSeq(@, j + 1, Len(@))]
                  /\ buffer' = [buffer EXCEPT ![e] = SubSeq(Joined(q, at, j, k), m + 1, k)]
              \/ /\ inbox' = [inbox EXCEPT ![e] = SubSeq(@, here + 1, Len(@))]
                 /\ UNCHANGED buffer
      BY DEF ReadPayload, k, size, n, d
  <2>2. {j \in 1 .. here : j <= k} \subseteq 1 .. here
      OBVIOUS
  <2>3. Tail(inbox[e]) = SubSeq(inbox[e], 1 + 1, Len(inbox[e]))
      BY DEF Tail
  <2>4. inbox' = [inbox EXCEPT ![e] = Tail(@)] => Dropped(e, 1)
      BY <2>3 DEF Dropped
  <2> HIDE DEF m
  <2> QED BY <2>1, <2>2, <2>4 DEF Whole, Dropped
<1>5. CASE UNCHANGED <<buffer, got>> /\ (inbox' = inbox \/ (here > 0 /\ Dropped(e, 1)))
  <2>1. here > 0 => inbox[e] # <<>>
      BY <1>1
  <2> QED BY <1>1, <1>2, <1>5, <2>1 DEF k, n
<1>6. CASE here > 0 /\ Whole(e, d, n, k)
  <2>1. inbox[e] # <<>>
      BY <1>1, <1>6
  <2> QED BY <1>1, <1>2, <1>3, <1>6, <2>1 DEF k, n
<1>7. CASE /\ here > 0 /\ size < k
           /\ got' = [got EXCEPT ![e] = @ \o First(d, m)]
           /\ \/ buffer' = buffer /\ Dropped(e, here)
              \/ \E j \in 1 .. here : \E at \in Fills(e, SubSeq(inbox[e], 1, here), j, k) :
                   /\ buffer' = [buffer EXCEPT ![e] =
                                   SubSeq(Joined(SubSeq(inbox[e], 1, here), at, j, k), m + 1, k)]
                   /\ Dropped(e, j)
  <2> DEFINE q == SubSeq(inbox[e], 1, here)
  <2>1. inbox[e] # <<>> /\ here \in 1 .. Len(inbox[e])
      BY <1>1, <1>7
  <2>2. d = inbox[e][1] /\ Length(e, d) \in Nat \ {0}
      BY <1>3, <2>1
  <2>3. m \in 1 .. k - 1 /\ m <= Length(e, d) /\ (m < Length(e, d) => m = size)
      BY <1>1, <1>2, <1>7, <2>2 DEF size
  <2>4. q[1] = d /\ Len(q) = here
      BY <1>1, <2>1, <2>2
  <2> HIDE DEF q, m
  <2>5. Part(e, q, m, k)
      BY <1>7, <2>4 DEF Part, q
  <2> QED BY <1>1, <1>2, <2>1, <2>2, <2>3, <2>5 DEF q, k, n, size
<1> QED BY <1>4, <1>5, <1>6, <1>7

\* Headers that were seen stay seen.
LEMMA SeenGrows ==
    ASSUME IInv, [Next]_vars
    PROVE  plan' = plan /\ \A e \in Ends : seen[e] \subseteq seen'[e]
<1>1. CASE UNCHANGED vars
    BY <1>1 DEF vars, userVars, called, readVars
<1>2. CASE Next
  <2>1. PICK e \in Ends : UserNext(e) \/ ReaderNext(e) \/ WriterNext(e) \/ AckerNext(e)
                          \/ Overtakes(e) \/ \E m \in Directions : Expire(e, m)
      BY <1>2 DEF Next
  <2>2. CASE ParseHeader(e)
    <3>1. plan' = plan /\ (seen' = seen \/ seen' = [seen EXCEPT ![e] = @ \cup {Head(inbox[e]).n}])
        BY <2>2 DEF ParseHeader, called
    <3>2. seen \in [Ends -> SUBSET Nat]
        BY DEF IInv, Types, FrameTypes
    <3> QED BY <3>1, <3>2
  <2>3. CASE ~ParseHeader(e)
      BY <2>1, <2>3 DEF UserNext, Call, ReaderNext, TakeRead, ReadTimesOut, ReadFails, PushNumbers,
         ReadPayload, WriterNext, TakeWrite, PutOn, WriteHeader, WritePayload,
         WriteTimesOut, WriteFails, AbandonFrame, NotifyReader, SendDone, AckerNext,
         Acknowledged, AckTimeout, AskRepeat, Overtakes, Expire, readVars, userVars, called
  <2> QED BY <2>2, <2>3
<1> QED BY <1>1, <1>2

LEMMA ChunksNext ==
    ASSUME IInv, [Next]_vars, Chunks, \A e \in Ends : ArgsAt(e)
    PROVE  Chunks'
<1>0. \A e \in Ends : seen[e] \subseteq seen'[e]
                      /\ \A n : Size(Peer(e), n)' = Size(Peer(e), n)
    BY SeenGrows DEF Size
<1>1. CASE buffer' = buffer
    BY <1>0, <1>1 DEF Chunks
<1>2. ASSUME NEW e \in Ends, NEW chunk \in Seq(Bytes), NEW n \in seen[e],
             Len(chunk) < Size(Peer(e), n), buffer' = [buffer EXCEPT ![e] = chunk]
      PROVE  Chunks'
  <2>1. buffer' \in [Ends -> Seq(Bytes)]
      BY <1>2 DEF Chunks
  <2>2. ASSUME NEW x \in Ends
        PROVE  buffer'[x] = <<>> \/ \E i \in seen'[x] : Len(buffer'[x]) < Size(Peer(x), i)'
    <3>1. CASE x = e
        BY <1>0, <1>2, <3>1 DEF Chunks
    <3>2. CASE x # e
        BY <1>0, <1>2, <3>2 DEF Chunks
    <3> QED BY <3>1, <3>2
  <2> QED BY <2>1, <2>2 DEF Chunks
<1>3. ASSUME NEW e \in Ends, TakeRead(e), buffer' # buffer
      PROVE  Chunks'
  <2> DEFINE req == Head(tpt[e]["R"])
  <2>1. req.flag = "READ1" /\ tpt[e]["R"] # <<>> /\ buffer[e] # <<>>
        /\ buffer' = [buffer EXCEPT ![e] = Kept(@, req.arg)]
      BY <1>3 DEF TakeRead, Buffered
  <2>2. req.arg \in Nat /\ req.arg > 0
    <3>1. tpt[e]["R"] \in Slots
        BY WriterFacts
    <3> QED BY <2>1, <3>1, HoldsFacts DEF ArgsAt
  <2>3. buffer[e] \in Seq(Bytes) /\ Len(buffer[e]) \in Nat
      BY DEF Chunks
  <2>4. PICK n \in seen[e] : Len(buffer[e]) < Size(Peer(e), n)
      BY <2>1 DEF Chunks
  <2>5. Size(Peer(e), n) \in Nat
      BY <2>4, SizeFacts DEF IInv, Local, AckAt
  <2> DEFINE rest == Kept(buffer[e], req.arg)
  <2>6. rest \in Seq(Bytes) /\ Len(rest) <= Len(buffer[e])
      BY <2>2, <2>3, KeptFacts
  <2>7. buffer' = [buffer EXCEPT ![e] = rest]
      BY <2>1
  <2> HIDE DEF rest
  <2>8. Len(rest) < Size(Peer(e), n)
      BY <2>3, <2>4, <2>5, <2>6
  <2> QED BY <1>2, <2>6, <2>7, <2>8
<1>4. ASSUME NEW e \in Ends, ReadPayload(e), buffer' # buffer
      PROVE  Chunks'
  <2> DEFINE n == reader[e].n
             k == Size(Peer(e), n)
  <2>1. n \in seen[e] /\ k \in Nat \ {0}
      BY <1>4, PayloadFacts
  <2>2. PICK here \in 1 .. Len(inbox[e]) : \E m \in 1 .. k - 1 :
            Part(e, SubSeq(inbox[e], 1, here), m, k)
      BY <1>4, PayloadFacts DEF Whole
  <2>3. PICK m \in 1 .. k - 1 : Part(e, SubSeq(inbox[e], 1, here), m, k)
      BY <2>2
  <2> DEFINE q == SubSeq(inbox[e], 1, here)
  <2>4. q \in Seq(Datagrams) /\ Len(q) = here
    <3>1. inbox[e] \in Seq(Datagrams)
        BY DEF IInv, Types, NetTypes
    <3> QED BY <3>1
  <2> HIDE DEF q
  <2>5. Part(e, q, m, k)
      BY <2>3 DEF q
  <2> HIDE DEF k
  <2>6. PICK j \in 1 .. Len(q) : \E at \in Fills(e, q, j, k) :
            buffer' = [buffer EXCEPT ![e] = SubSeq(Joined(q, at, j, k), m + 1, k)]
      BY <1>4, <2>5 DEF Part
  <2>7. PICK at \in Fills(e, q, j, k) :
            buffer' = [buffer EXCEPT ![e] = SubSeq(Joined(q, at, j, k), m + 1, k)]
      BY <2>6
  <2>8. SubSeq(Joined(q, at, j, k), m + 1, k) \in Seq(Bytes)
        /\ Len(SubSeq(Joined(q, at, j, k), m + 1, k)) < k
    <3> DEFINE b == Joined(q, at, j, k)
    <3>1. b \in Seq(Bytes) /\ Len(b) = k
        BY <2>1, <2>4, <2>7, JoinedFacts DEF Fills
    <3> HIDE DEF b
    <3>2. m + 1 \in Int /\ k \in Int /\ m + 1 <= k /\ \A i \in m + 1 .. k : b[i] \in Bytes
        BY <2>1, <2>3, <3>1
    <3>3. SubSeq(b, m + 1, k) \in Seq(Bytes) /\ Len(SubSeq(b, m + 1, k)) = k - (m + 1) + 1
        BY <3>2, SubSeqProperties
    <3> QED BY <2>1, <2>3, <3>3 DEF b
  <2> QED BY <1>2, <2>1, <2>7, <2>8 DEF k
<1>5. CASE Next /\ buffer' # buffer
  <2>1. PICK e \in Ends : UserNext(e) \/ ReaderNext(e) \/ WriterNext(e) \/ AckerNext(e)
                          \/ Overtakes(e) \/ \E m \in Directions : Expire(e, m)
      BY <1>5 DEF Next
  <2>2. ReaderNext(e)
      BY <1>5, <2>1 DEF UserNext, Call, WriterNext, TakeWrite, PutOn, WriteHeader, WritePayload,
         WriteTimesOut, WriteFails, AbandonFrame, NotifyReader, SendDone, AckerNext,
         Acknowledged, AckTimeout, AskRepeat, Overtakes, Expire, readVars
  <2>3. TakeRead(e) \/ ReadPayload(e)
      BY <1>5, <2>2 DEF ReaderNext, ParseHeader, ReadTimesOut, ReadFails, PushNumbers, readVars
  <2> QED BY <1>3, <1>4, <1>5, <2>3
<1> QED BY <1>1, <1>5 DEF vars, readVars

LEMMA ArgsNext ==
    ASSUME IInv, [Next]_vars, NEW x \in Ends, ArgsAt(x)
    PROVE  ArgsAt(x)'
<1>1. reader \in [Ends -> ReaderStates] /\ tpt \in [Ends -> [Directions -> Slots]]
      /\ "R" \in Directions /\ "R" # "W"
    BY DEF IInv, Types, ThreadTypes, Directions
<1>2. \A size : Idle.pc # "payload" /\ Parsing(size).pc # "payload"
    BY DEF Idle, Parsing
<1>3. ASSUME NEW e \in Ends, ReaderNext(e)
      PROVE  reader'[x].pc = "payload" =>
                reader'[x] = reader[x] \/ (reader'[x].size > 0 /\ reader'[x].n \in seen[x])
  <2>1. CASE TakeRead(e)
      BY <1>1, <1>2, <2>1 DEF TakeRead
  <2>2. CASE ParseHeader(e)
    <3> DEFINE push == [pc |-> "push", size |-> reader[e].size,
                        flag |-> Head(inbox[e]).kind, n |-> Head(inbox[e]).n]
    <3>1. reader' = [reader EXCEPT ![e] = Idle] \/ reader' = [reader EXCEPT ![e] = push]
        BY <2>2 DEF ParseHeader, EndRead
    <3>2. push.pc # "payload"
        OBVIOUS
    <3> HIDE DEF push
    <3> QED BY <1>1, <1>2, <3>1, <3>2
  <2>3. CASE ReadTimesOut(e) \/ ReadFails(e) \/ ReadPayload(e)
      BY <1>1, <1>2, <2>3 DEF ReadTimesOut, ReadFails, ReadPayload, EndRead
  <2>4. CASE PushNumbers(e)
    <3> DEFINE more == [pc |-> "payload", size |-> reader[e].size, n |-> reader[e].n]
    <3>1. \/ reader' = [reader EXCEPT ![e] = Idle]
          \/ /\ reader[e].size > 0 /\ reader[e].n \in seen[e]
             /\ reader' = [reader EXCEPT ![e] = more]
        BY <2>4 DEF PushNumbers, EndRead, IInv, Local, AckAt
    <3>2. more.size = reader[e].size /\ more.n = reader[e].n
        OBVIOUS
    <3> HIDE DEF more
    <3> QED BY <1>1, <1>2, <3>1, <3>2
  <2> QED BY <1>3, <2>1, <2>2, <2>3, <2>4 DEF ReaderNext
<1>4. ASSUME NEW e \in Ends, NEW s, tpt' = [tpt EXCEPT ![e]["W"] = s]
      PROVE  tpt'[x]["R"] = tpt[x]["R"]
    BY <1>1, <1>4
<1>5. ASSUME NEW e \in Ends, NEW s, tpt' = [tpt EXCEPT ![e]["R"] = s]
      PROVE  tpt'[x]["R"] = tpt[x]["R"] \/ tpt'[x]["R"] = s
    BY <1>1, <1>5
<1>6. ASSUME NEW e \in Ends, ReaderNext(e)
      PROVE  tpt'[x]["R"] = tpt[x]["R"] \/ tpt'[x]["R"] = <<>>
  <2>1. CASE TakeRead(e)
      BY <1>5, <2>1 DEF TakeRead
  <2>2. CASE PushNumbers(e)
      BY <1>4, <2>2 DEF PushNumbers
  <2>3. CASE ParseHeader(e) \/ ReadTimesOut(e) \/ ReadFails(e) \/ ReadPayload(e)
      BY <2>3 DEF ParseHeader, ReadTimesOut, ReadFails, ReadPayload
  <2> QED BY <1>6, <2>1, <2>2, <2>3 DEF ReaderNext
<1>7. ASSUME NEW e \in Ends, UserNext(e)
      PROVE  reader' = reader /\ ArgsAt(x)'
  <2>1. PICK m \in Directions : Call(e, m)
      BY <1>7 DEF UserNext
  <2>2. PICK req \in Calls(e, m)[made[e][m] + 1] : tpt' = [tpt EXCEPT ![e][m] = <<req>>]
      BY <2>1 DEF Call
  <2>3. reader' = reader
      BY <2>1 DEF Call
  <2>4. req.flag = "READ1" => req.arg > 0
    <3>1. plan \in Plans /\ made[e][m] \in Nat /\ made[e][m] < Len(Calls(e, m))
        BY <2>1 DEF Call, IInv, Types, CallTypes
    <3>2. /\ Calls(e, m) \in Seq(SUBSET [flag : Flags(m), arg : Nat])
          /\ \A i \in DOMAIN Calls(e, m) : \A r \in Calls(e, m)[i] : r.flag = "READ1" <=> r.arg > 0
        BY <3>1, PlansAssumption DEF Calls
    <3>3. made[e][m] + 1 \in DOMAIN Calls(e, m)
        BY <3>1, <3>2
    <3> QED BY <3>2, <3>3
  <2>5. tpt'[x]["R"] = tpt[x]["R"] \/ tpt'[x]["R"] = <<req>>
    <3>1. CASE m = "R"
        BY <1>5, <2>2, <3>1
    <3>2. CASE m = "W"
        BY <1>4, <2>2, <3>2
    <3> QED BY <3>1, <3>2 DEF Directions
  <2> QED BY <2>3, <2>4, <2>5, SeenGrows DEF ArgsAt
<1>8. ASSUME NEW e \in Ends, WriterNext(e)
      PROVE  reader' = reader /\ (tpt'[x]["R"] = tpt[x]["R"]
                                  \/ tpt'[x]["R"] = <<Event("DATA_ACK", 0)>>)
  <2>1. CASE TakeWrite(e)
      BY <1>4, <2>1 DEF TakeWrite
  <2>2. CASE PutOn(e)
      BY <1>4, <2>2 DEF PutOn
  <2>3. CASE NotifyReader(e)
      BY <1>5, <2>3 DEF NotifyReader
  <2>4. CASE WriteHeader(e) \/ WritePayload(e) \/ WriteTimesOut(e) \/ WriteFails(e) \/ SendDone(e)
      BY <2>4 DEF WriteHeader, WritePayload, WriteTimesOut, WriteFails, AbandonFrame, SendDone
  <2> QED BY <1>8, <2>1, <2>2, <2>3, <2>4 DEF WriterNext
<1>9. ASSUME NEW e \in Ends, AckerNext(e)
      PROVE  reader' = reader /\ tpt'[x]["R"] = tpt[x]["R"]
  <2>1. PICK n \in Frames(e) : Acknowledged(e, n) \/ AckTimeout(e, n) \/ AskRepeat(e, n)
      BY <1>9 DEF AckerNext
  <2>2. CASE Acknowledged(e, n) \/ AckTimeout(e, n)
      BY <2>2 DEF Acknowledged, AckTimeout
  <2>3. CASE AskRepeat(e, n)
      BY <1>4, <2>3 DEF AskRepeat
  <2> QED BY <2>1, <2>2, <2>3
<1>10. seen[x] \subseteq seen'[x]
    BY SeenGrows
<1>11. CASE UNCHANGED <<reader, tpt>>
    BY <1>11, <1>10 DEF ArgsAt
<1>12. ASSUME NEW e \in Ends, NEW m \in Directions, Overtakes(e) \/ Expire(e, m)
       PROVE  UNCHANGED <<reader, tpt>>
    BY <1>12 DEF Overtakes, Expire
<1>13. Event("DATA_ACK", 0).flag # "READ1"
    BY DEF Event
<1>14. CASE Next
  <2>1. PICK e \in Ends : UserNext(e) \/ ReaderNext(e) \/ WriterNext(e) \/ AckerNext(e)
                          \/ Overtakes(e) \/ \E m \in Directions : Expire(e, m)
      BY <1>14 DEF Next
  <2>2. CASE ReaderNext(e)
      BY <1>3, <1>6, <1>10, <2>2 DEF ArgsAt
  <2>3. CASE WriterNext(e)
      BY <1>8, <1>13, <1>10, <2>3 DEF ArgsAt
  <2>4. CASE AckerNext(e)
      BY <1>9, <1>10, <2>4 DEF ArgsAt
  <2>5. "R" \in Directions
      BY DEF Directions
  <2> QED BY <1>7, <1>11, <1>12, <2>1, <2>2, <2>3, <2>4, <2>5
<1> QED BY <1>11, <1>14 DEF vars

\* A reader with a caller has found the buffer empty, and nobody fills it.
FreshAt(e) ==
    reader[e].pc \in {"parse", "push", "payload"} /\ reader[e].size > 0 => buffer[e] = <<>>
Reads == got \in [Ends -> Seq(Bytes)] /\ \A e \in Ends : FreshAt(e)

LEMMA FreshNext ==
    ASSUME IInv, [Next]_vars, NEW x \in Ends, FreshAt(x), buffer \in [Ends -> Seq(Bytes)]
    PROVE  FreshAt(x)'
<1> DEFINE Reading(r) == r.pc \in {"parse", "push", "payload"} /\ r.size > 0
<1>1. reader \in [Ends -> ReaderStates] /\ (Reading(reader[x]) => buffer[x] = <<>>)
    BY DEF IInv, Types, ThreadTypes, FreshAt
<1>2. ~Reading(Idle) /\ \A size : Parsing(size).size = size
    BY DEF Idle, Parsing
<1> SUFFICES Reading(reader'[x]) => buffer'[x] = <<>>
    BY DEF FreshAt
<1> HIDE DEF Reading
<1>3. CASE UNCHANGED <<reader, buffer>>
    BY <1>1, <1>3
<1>4. ASSUME NEW e \in Ends, ReaderNext(e)
      PROVE  Reading(reader'[x]) => buffer'[x] = <<>>
  <2>1. CASE TakeRead(e)
    <3>1. CASE reader' = reader /\ Head(tpt[e]["R"]).flag = "READ1" /\ buffer[e] # <<>>
      <4>1. reader[e] = Idle /\ buffer' = [buffer EXCEPT ![e] = Kept(@, Head(tpt[e]["R"]).arg)]
          BY <2>1, <3>1 DEF TakeRead, Buffered
      <4>2. x # e => buffer'[x] = buffer[x]
          BY <4>1
      <4> QED BY <1>1, <1>2, <3>1, <4>1, <4>2
    <3>2. CASE buffer' = buffer /\ (reader' = reader \/ reader' = [reader EXCEPT ![e] = Parsing(0)])
      <4>1. ~Reading(Parsing(0))
          BY DEF Reading, Parsing
      <4> QED BY <1>1, <3>2, <4>1
    <3>3. CASE buffer' = buffer /\ buffer[e] = <<>>
               /\ reader' = [reader EXCEPT ![e] = Parsing(Head(tpt[e]["R"]).arg)]
        BY <1>1, <3>3
    <3> QED BY <2>1, <3>1, <3>2, <3>3 DEF TakeRead, Buffered
  <2>2. CASE ParseHeader(e)
    <3> DEFINE push == [pc |-> "push", size |-> reader[e].size,
                        flag |-> Head(inbox[e]).kind, n |-> Head(inbox[e]).n]
    <3>1. buffer' = buffer /\ reader[e].pc = "parse"
          /\ (reader' = [reader EXCEPT ![e] = Idle] \/ reader' = [reader EXCEPT ![e] = push])
        BY <2>2 DEF ParseHeader, EndRead
    <3>2. Reading(push) => Reading(reader[e])
        BY <3>1 DEF Reading
    <3> HIDE DEF push
    <3> QED BY <1>1, <1>2, <3>1, <3>2
  <2>3. CASE ReadTimesOut(e) \/ ReadFails(e)
      BY <1>1, <1>2, <2>3 DEF ReadTimesOut, ReadFails, EndRead, readVars
  <2>4. CASE ReadPayload(e)
    <3>1. reader' = [reader EXCEPT ![e] = Idle]
        BY <2>4 DEF ReadPayload, EndRead
    <3>2. buffer' = buffer \/ \E rest : buffer' = [buffer EXCEPT ![e] = rest]
        BY <2>4 DEF ReadPayload
    <3>3. x # e => reader'[x] = reader[x] /\ buffer'[x] = buffer[x]
        BY <3>1, <3>2
    <3> QED BY <1>1, <1>2, <3>1, <3>3
  <2>5. CASE PushNumbers(e)
    <3> DEFINE more == [pc |-> "payload", size |-> reader[e].size, n |-> reader[e].n]
    <3>1. buffer' = buffer /\ reader[e].pc = "push"
          /\ (reader' = [reader EXCEPT ![e] = Idle] \/ reader' = [reader EXCEPT ![e] = more])
        BY <2>5 DEF PushNumbers, EndRead, readVars
    <3>2. Reading(more) => Reading(reader[e])
        BY <3>1 DEF Reading
    <3> HIDE DEF more
    <3> QED BY <1>1, <1>2, <3>1, <3>2
  <2> QED BY <1>4, <2>1, <2>2, <2>3, <2>4, <2>5 DEF ReaderNext
<1>5. ASSUME NEW e \in Ends, UserNext(e) \/ WriterNext(e) \/ AckerNext(e)
                             \/ Overtakes(e) \/ \E m \in Directions : Expire(e, m)
      PROVE  UNCHANGED <<reader, buffer>>
    BY <1>5 DEF UserNext, Call, WriterNext, TakeWrite, PutOn, WriteHeader, WritePayload,
       WriteTimesOut, WriteFails, AbandonFrame, NotifyReader, SendDone, AckerNext,
       Acknowledged, AckTimeout, AskRepeat, Expire, Overtakes, readVars
<1>6. CASE Next
    BY <1>3, <1>4, <1>5, <1>6 DEF Next
<1> QED BY <1>3, <1>6 DEF vars, readVars

LEMMA GotNext ==
    ASSUME IInv, Sizes, [Next]_vars, got \in [Ends -> Seq(Bytes)]
    PROVE  got' \in [Ends -> Seq(Bytes)]
<1>1. CASE got' = got
    BY <1>1
<1>2. ASSUME NEW e \in Ends, NEW u \in Seq(Bytes), got' = [got EXCEPT ![e] = @ \o u]
      PROVE  got' \in [Ends -> Seq(Bytes)]
  <2>1. got[e] \o u \in Seq(Bytes)
      OBVIOUS
  <2> QED BY <1>2, <2>1
<1>3. ASSUME NEW e \in Ends, TakeRead(e), got' # got
      PROVE  got' \in [Ends -> Seq(Bytes)]
  <2> DEFINE req == Head(tpt[e]["R"])
             u == Copied(buffer[e], req.arg)
  <2>1. req.flag = "READ1" /\ tpt[e]["R"] # <<>> /\ got' = [got EXCEPT ![e] = @ \o u]
      BY <1>3 DEF TakeRead
  <2>2. buffer[e] \in Seq(Bytes) /\ req.arg \in Nat
    <3>1. tpt[e]["R"] \in Slots
        BY WriterFacts
    <3> QED BY <2>1, <3>1, HoldsFacts DEF Sizes, Chunks
  <2>3. u \in Seq(Bytes)
    <3>1. CASE req.arg >= Len(buffer[e])
        BY <2>2, <3>1 DEF Copied
    <3>2. CASE ~(req.arg >= Len(buffer[e]))
      <4>1. SubSeq(buffer[e], 1, req.arg) \in Seq(Bytes)
          BY <2>2, <3>2
      <4> QED BY <3>2, <4>1 DEF Copied
    <3> QED BY <3>1, <3>2
  <2> HIDE DEF u
  <2> QED BY <1>2, <2>1, <2>3
<1>4. ASSUME NEW e \in Ends, ReadPayload(e), got' # got
      PROVE  got' \in [Ends -> Seq(Bytes)]
  <2> DEFINE n == reader[e].n
             k == Size(Peer(e), n)
  <2>1. k \in Nat \ {0} /\ inbox[e] \in Seq(Datagrams)
        /\ \/ inbox[e] # <<>> /\ Whole(e, inbox[e][1], n, k)
           \/ \E here \in 1 .. Len(inbox[e]) : \E m \in 1 .. k - 1 :
                  Part(e, SubSeq(inbox[e], 1, here), m, k)
      BY <1>4, PayloadFacts DEF Sizes, IInv, Types, NetTypes
  <2> HIDE DEF k, n
  <2>2. CASE inbox[e] # <<>> /\ Whole(e, inbox[e][1], n, k)
    <3>1. inbox[e][1] \in Datagrams /\ k \in Nat
        BY <2>1, <2>2
    <3>2. First(inbox[e][1], k) \in Seq(Bytes)
        BY <3>1, FirstFacts
    <3> QED BY <1>2, <2>2, <3>2 DEF Whole
  <2>3. ASSUME NEW here \in 1 .. Len(inbox[e]), NEW m \in 1 .. k - 1,
               Part(e, SubSeq(inbox[e], 1, here), m, k)
        PROVE  got' \in [Ends -> Seq(Bytes)]
    <3> DEFINE d == SubSeq(inbox[e], 1, here)[1]
    <3>1. d \in Datagrams /\ m \in Nat
        BY <2>1
    <3> HIDE DEF d
    <3>2. First(d, m) \in Seq(Bytes)
        BY <3>1, FirstFacts
    <3>3. got' = [got EXCEPT ![e] = @ \o First(d, m)]
        BY <2>3 DEF Part, d
    <3> QED BY <1>2, <3>2, <3>3
  <2> QED BY <2>1, <2>2, <2>3
<1>5. CASE Next /\ got' # got
  <2>1. PICK e \in Ends : UserNext(e) \/ ReaderNext(e) \/ WriterNext(e) \/ AckerNext(e)
                          \/ Overtakes(e) \/ \E m \in Directions : Expire(e, m)
      BY <1>5 DEF Next
  <2>2. ReaderNext(e)
      BY <1>5, <2>1 DEF UserNext, Call, WriterNext, TakeWrite, PutOn, WriteHeader, WritePayload,
         WriteTimesOut, WriteFails, AbandonFrame, NotifyReader, SendDone, AckerNext,
         Acknowledged, AckTimeout, AskRepeat, Overtakes, Expire, readVars
  <2>3. TakeRead(e) \/ ReadPayload(e)
      BY <1>5, <2>2 DEF ReaderNext, ParseHeader, ReadTimesOut, ReadFails, PushNumbers, readVars
  <2> QED BY <1>3, <1>4, <1>5, <2>3
<1> QED BY <1>1, <1>5 DEF vars, readVars

LEMMA ReadsNext ==
    ASSUME IInv, Sizes, Reads, [Next]_vars
    PROVE  Reads'
BY GotNext, FreshNext DEF Reads, Sizes, Chunks

LEMMA InitReads == Init => Reads
<1>1. <<>> \in Seq(Bytes) /\ Idle.pc = "idle"
    BY DEF Idle
<1> QED BY <1>1 DEF Init, Reads, FreshAt

LEMMA InitSizes == Init => Sizes
<1> SUFFICES ASSUME Init PROVE Sizes
    OBVIOUS
<1>1. MaxSize \in Nat /\ MaxSize > 0
    BY SizesAssumption
<1>2. \A e \in Ends : RoomAt(e) /\ ArgsAt(e)
    BY <1>1, FS_EmptySet DEF Init, RoomAt, ArgsAt, Idle, Directions
<1>3. Chunks
    BY DEF Init, Chunks
<1> QED BY <1>2, <1>3 DEF Sizes

\* The variables have their types: putFrame never gives BuffrW more than maxsize
\* entries and what BufferR keeps is less than a frame, whatever the maximum size
\* and the lengths of the frames are and whatever the network does.
THEOREM TypeCorrect == Spec => []TypeOK
<1>1. IInv /\ Sizes /\ IInv' /\ [Next]_vars => Sizes'
    BY RoomNext, ArgsNext, ChunksNext DEF Sizes
<1>2. IInv /\ Sizes => TypeOK
  <2> SUFFICES ASSUME IInv, Sizes PROVE TypeOK
      OBVIOUS
  <2> USE DEF IInv, Types
  <2>1. plan \in Plans /\ faults \in [Kinds -> Nat] /\ \A k \in Kinds : faults[k] <= plan.faults[k]
      BY DEF CallTypes, NetTypes
  <2>2. ASSUME NEW e \in Ends, NEW m \in Directions
        PROVE  /\ Len(tpt[e][m]) <= 1
               /\ user[e][m] \in {"idle", "waiting", "closed"}
               /\ made[e][m] \in 0 .. Len(Calls(e, m))
               /\ deadline[e][m] \in [open : Nat, err : BOOLEAN]
    <3>1. Len(tpt[e][m]) <= 1
      <4>1. tpt[e][m] \in Slots
          BY DEF ThreadTypes
      <4>2. Len(<<>>) <= 1 /\ \A ev : Len(<<ev>>) <= 1
          OBVIOUS
      <4> QED BY <4>1, <4>2 DEF Slots
    <3>2. Len(Calls(e, m)) \in Nat
        BY PlansAssumption DEF CallTypes, Calls
    <3> QED BY <3>1, <3>2 DEF CallTypes, NetTypes, DeadlineTypes
  <2>3. ASSUME NEW e \in Ends
        PROVE  /\ reader[e].pc \in {"idle", "parse", "push", "payload"}
               /\ writer[e].pc \in {"idle", "put", "header", "payload", "notify", "done"}
    <3>1. reader[e] \in ReaderStates /\ writer[e] \in WriterStates
        BY DEF ThreadTypes
    <3> QED BY <3>1 DEF ReaderStates, WriterStates, Idle
  <2>4. ASSUME NEW e \in Ends
        PROVE  /\ taken[e] \in 0 .. made[e]["W"] /\ frames[e] \subseteq 1 .. taken[e]
               /\ Cardinality(frames[e]) <= MaxSize
               /\ buffer[e] = <<>> \/ \E n \in seen[e] : Len(buffer[e]) < Size(Peer(e), n)
               /\ doneCh[e] \in [Frames(e) -> {"none", "empty", "full"}]
               /\ acker[e] \in [Frames(e) -> {"none", "waiting", "repeat", "gone"}]
               /\ seen[e] \subseteq 1 .. taken[Peer(e)]
      BY DEF FrameTypes, CallTypes, Local, CountingAt, AckAt, Sizes, RoomAt, Chunks, Directions
  <2> QED BY <2>1, <2>2, <2>3, <2>4 DEF TypeOK
<1> QED BY InitSizes, Inductive, <1>1, <1>2, PTL DEF Spec

=============================================================================
