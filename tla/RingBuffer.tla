---------------------------- MODULE RingBuffer ----------------------------
(***************************************************************************)
(* The send window of a connection, src/ringbuffer.go, as hdpWrite2 uses   *)
(* it (src/transport1.go).  The writing goroutine takes a sequence number  *)
(* (nextSeqNum), writes the frame and only then records it (setNextItem);  *)
(* each recorded frame has a goroutine of its own that waits for the       *)
(* acknowledgement, calls updateAckSeqNum and takes the frame out of the   *)
(* write buffer (BuffrW), or gives up after ackTimeout.  Nothing locks the *)
(* ring: calls of other goroutines come in the middle of updateAckSeqNum,  *)
(* between its question whether the item is the oldest, the reset of the   *)
(* item, the look at each slot and the adoption of the next oldest item.   *)
(*                                                                         *)
(* A ringItem is named by the number it was created for.  Its seqNum field *)
(* is that number until reset() makes it 0.                                *)
(***************************************************************************)
EXTENDS Naturals, FiniteSets

CONSTANTS
    Window,    \* windowSize, a uint16 in the code
    MaxSize,   \* BuffrW.maxsize, 16 in the code
    Modulus,   \* 2^32 in the code, the width of seqNum
    LastTaken  \* the last number a run hands out (a bound)

ASSUME WindowAssumption == Window \in Nat \ {0} /\ MaxSize \in Nat \ {0}
ASSUME ModulusAssumption == Modulus \in Nat /\ Modulus > 2 * Window
ASSUME BoundAssumption == LastTaken \in 1 .. Modulus - 2

Numbers == 1 .. Modulus - 2
Slots == 0 .. Window - 1
Nil == 0  \* a nil *ringItem; no frame has this number

VARIABLES
    seqNum,       \* gyroNumber.seqNum: the next number to hand out
    oldestUnack,  \* gyroNumber.oldestUnack
    this,         \* ringBuffer.this: the item in each slot
    acknowledged, \* items whose reset() has been called
    buffered,     \* BuffrW.this: the numbers that have an entry
    handed,       \* the number the writing goroutine holds, or Nil
    ackers,       \* per number, what its acknowledgement goroutine is doing
    apart         \* so far no nextSeqNum and no updateAckSeqNum has been called
                  \* in the middle of an updateAckSeqNum (a history)

ringVars == <<seqNum, oldestUnack, this, acknowledged>>
vars == <<ringVars, buffered, handed, ackers, apart>>

NoAcker == [st |-> "none"]
Waiting == [st |-> "waiting"]
Resetting(ok) == [st |-> "resetting", oldest |-> ok]  \* its item is the oldest one
Scanning(i) == [st |-> "scanning", at |-> i]  \* at the i-th slot after its own
Popping == [st |-> "popping"]
Adopting(item) == [st |-> "adopting", item |-> item]
AckerStates ==
    {NoAcker, Waiting, Popping} \cup {Resetting(ok) : ok \in BOOLEAN}
    \cup {Scanning(i) : i \in 1 .. Window} \cup {Adopting(n) : n \in Numbers}

Init ==
    /\ seqNum = 1
    /\ oldestUnack = Nil
    /\ this = [i \in Slots |-> Nil]
    /\ acknowledged = {}
    /\ buffered = {}
    /\ handed = Nil
    /\ ackers = [n \in Numbers |-> NoAcker]
    /\ apart = TRUE

-----------------------------------------------------------------------------
(* Definitions named Bad... are slips this code could have; no action uses *)
(* them, they only show which property would notice.                       *)

\* The slot of a number.
modulus(n) == (n - 1) % Window

\* ringItem.seqNum
ItemNum(item) == IF item \in acknowledged THEN 0 ELSE item

\* seqNum - oldestUnack.seqNum in uint32.
Ahead == (seqNum + Modulus - ItemNum(oldestUnack)) % Modulus

BadwindowFull == oldestUnack # Nil /\ Ahead > Window  \* one frame too many

windowFull == oldestUnack # Nil /\ Ahead % Window = 0

\* gyroNumber.next
Following(n) == IF n + 1 = Modulus - 1 THEN 1 ELSE n + 1

\* Its goroutine is in the middle of updateAckSeqNum.
Looking(n) == ackers[n].st \in {"resetting", "scanning", "adopting"}
StaysApart == apart' = (apart /\ \A n \in Numbers : ~Looking(n))

isFull == Cardinality(buffered) = MaxSize

\* putFrame refuses while the buffer or the window is full; the event it sends
\* to its own channel is the next one the goroutine handles.
TakeNumber ==
    /\ handed = Nil /\ seqNum <= LastTaken
    /\ ~isFull /\ ~windowFull
    /\ handed' = seqNum
    /\ seqNum' = Following(seqNum)
    /\ buffered' = buffered \cup {seqNum}
    /\ StaysApart
    /\ UNCHANGED <<oldestUnack, this, acknowledged, ackers>>

\* writeFrame: the frame is on its way; setNextItem records it.
setNextItem ==
    /\ handed # Nil
    /\ this' = [this EXCEPT ![modulus(handed)] = handed]
    /\ acknowledged' = acknowledged \ {handed}
    /\ oldestUnack' = IF oldestUnack = Nil THEN handed ELSE oldestUnack
    /\ ackers' = [ackers EXCEPT ![handed] = Waiting]
    /\ handed' = Nil
    /\ UNCHANGED <<seqNum, buffered, apart>>

\* writeFrame returns early when a write fails; the number is not used again
\* and its entry in the buffer stays.
FrameLost ==
    /\ handed # Nil
    /\ handed' = Nil
    /\ UNCHANGED <<ringVars, buffered, ackers, apart>>

\* ackTimeout: HDP_REPEAT is sent and does nothing; item and entry stay.
AckTimeout(n) ==
    /\ ackers[n] = Waiting
    /\ ackers' = [ackers EXCEPT ![n] = NoAcker]
    /\ UNCHANGED <<ringVars, buffered, handed, apart>>

IsOldest(item) == oldestUnack \in {Nil, item}

\* updateAckSeqNum finds the item of the number and asks whether it is the oldest,
\* or returns an error nobody reads.
Acknowledge(n) ==
    LET item == this[modulus(n)] IN
    /\ ackers[n] = Waiting
    /\ ackers' = [ackers EXCEPT ![n] =
                    IF item # Nil /\ ItemNum(item) = n THEN Resetting(IsOldest(item)) ELSE Popping]
    /\ StaysApart
    /\ UNCHANGED <<ringVars, buffered, handed>>

\* ringItem.reset; only the oldest one makes it look for a new oldest.
Reset(n) ==
    /\ ackers[n].st = "resetting"
    /\ acknowledged' = acknowledged \cup {n}
    /\ ackers' = [ackers EXCEPT ![n] = IF ackers[n].oldest THEN Scanning(1) ELSE Popping]
    /\ UNCHANGED <<seqNum, oldestUnack, this, buffered, handed, apart>>

BadUnacknowledged(k) == this[k] \notin acknowledged  \* a nil item is not tested

Unacknowledged(k) == this[k] # Nil /\ this[k] \notin acknowledged

BadAfter(n, i) == i % Window  \* the scan starts at the first slot

\* The slots in the order they follow that of n, ending with its own.
After(n, i) == (modulus(n) + i) % Window

\* One turn of the loop; with nothing unacknowledged oldestUnack stays what it was.
Scan(n) ==
    /\ ackers[n].st = "scanning"
    /\ LET i == ackers[n].at  k == After(n, i) IN
       \/ /\ Unacknowledged(k)
          /\ ackers' = [ackers EXCEPT ![n] = Adopting(this[k])]
       \/ /\ ~Unacknowledged(k)
          /\ ackers' = [ackers EXCEPT ![n] = IF i < Window THEN Scanning(i + 1) ELSE Popping]
    /\ UNCHANGED <<ringVars, buffered, handed, apart>>

Adopt(n) ==
    /\ ackers[n].st = "adopting"
    /\ oldestUnack' = ackers[n].item
    /\ ackers' = [ackers EXCEPT ![n] = Popping]
    /\ UNCHANGED <<seqNum, this, acknowledged, buffered, handed, apart>>

BadPopped(n) == buffered \ {ItemNum(oldestUnack)}  \* the oldest entry instead

Popped(n) == buffered \ {n}

Pop(n) ==
    /\ ackers[n] = Popping
    /\ buffered' = Popped(n)
    /\ ackers' = [ackers EXCEPT ![n] = NoAcker]
    /\ UNCHANGED <<ringVars, handed, apart>>

-----------------------------------------------------------------------------

WriterNext == TakeNumber \/ setNextItem \/ FrameLost
AckerNext ==
    \E n \in Numbers :
        Acknowledge(n) \/ Reset(n) \/ Scan(n) \/ Adopt(n) \/ Pop(n) \/ AckTimeout(n)

Next == WriterNext \/ AckerNext

Spec == Init /\ [][Next]_vars

-----------------------------------------------------------------------------
(* Properties.                                                             *)

Outstanding == {this[k] : k \in {s \in Slots : Unacknowledged(s)}}

\* The variables have their types; in particular updateAckSeqNum never makes a
\* nil item of an unused slot the oldest one.
TypeOK ==
    /\ seqNum \in Numbers
    /\ oldestUnack \in Numbers \cup {Nil}
    /\ this \in [Slots -> Numbers \cup {Nil}]
    /\ acknowledged \subseteq Numbers
    /\ buffered \subseteq Numbers
    /\ handed \in Numbers \cup {Nil}
    /\ ackers \in [Numbers -> AckerStates]
    /\ apart \in BOOLEAN

\* The window is counted from the oldest frame that is unacknowledged, never from
\* a later one, whatever else runs in the middle of updateAckSeqNum, as long as no
\* other updateAckSeqNum and no nextSeqNum does (and the numbers have not wrapped).
OldestLeads ==
    apart /\ oldestUnack \in Outstanding => \A n \in Outstanding : oldestUnack <= n

\* acknowSeqnum takes an empty buffer to mean that nothing of this side is on
\* its way (src/transport1.go:241): a frame keeps its entry from the moment it
\* has a number until the ring has its acknowledgement.
EmptyMeansQuiet == Outstanding \cup ({handed} \ {Nil}) \subseteq buffered

\* An acknowledgement never hits another frame and at most Window frames are
\* unacknowledged, however calls overlap; and setNextItem never puts a frame over
\* another that is still unacknowledged, unless an updateAckSeqNum has had another
\* one or a nextSeqNum in the middle of it.
Frames == INSTANCE SendWindow WITH unacknowledged <- Outstanding
KeepsWindow == Frames!Spec

\* "ring buffer is full" (ErrRingBufferFull, src/utils.go:65) is what a writer is
\* told rather than be given a number whose place in the ring is still taken.
GivesFreePlaces == handed # Nil => this[modulus(handed)] \notin Outstanding

\* A writer is told "ring buffer is full" (ErrRingBufferFull, src/utils.go:65)
\* only while some frame is on its way, unacknowledged or being acknowledged.
RefusedOnlyIfBusy ==
    windowFull => handed # Nil \/ Outstanding # {} \/ \E n \in Numbers : Looking(n)

=============================================================================
