------------------------- MODULE RingBufferProofs -------------------------
(***************************************************************************)
(* Theorems about RingBuffer, for any window, size of the write buffer and *)
(* width of the numbers, with the goroutines that share the ring in any    *)
(* order, in the middle of one another's calls.                            *)
(***************************************************************************)
EXTENDS RingBuffer, Integers, TLAPS, FiniteSetTheorems

LEMMA SlotOfNumber == ASSUME NEW n \in Numbers PROVE modulus(n) \in Slots
BY WindowAssumption DEF modulus, Slots, Numbers

LEMMA SlotAfter == ASSUME NEW n \in Numbers, NEW i \in Nat PROVE After(n, i) \in Slots
<1>1. modulus(n) \in Nat
    BY SlotOfNumber DEF Slots
<1> QED BY <1>1, WindowAssumption DEF After, Slots

LEMMA FollowingIsNumber == ASSUME NEW n \in Numbers PROVE Following(n) \in Numbers
BY ModulusAssumption, WindowAssumption DEF Following, Numbers

LEMMA AckerStateTypes ==
    /\ NoAcker \in AckerStates /\ Waiting \in AckerStates /\ Popping \in AckerStates
    /\ \A ok \in BOOLEAN : Resetting(ok) \in AckerStates
    /\ \A i \in 1 .. Window : Scanning(i) \in AckerStates
    /\ \A m \in Numbers : Adopting(m) \in AckerStates
BY DEF AckerStates

\* A goroutine resets the oldest item or another one, scans a place of the ring
\* and adopts a number.
LEMMA AckerStateFields ==
    ASSUME NEW a \in AckerStates
    PROVE  /\ a.st = "resetting" => a.oldest \in BOOLEAN
           /\ a.st = "scanning" => a.at \in 1 .. Window
           /\ a.st = "adopting" => a.item \in Numbers
BY DEF AckerStates, NoAcker, Waiting, Resetting, Scanning, Popping, Adopting

LEMMA TypeInit == ASSUME Init PROVE TypeOK
<1>1. 1 \in Numbers
    BY ModulusAssumption, WindowAssumption DEF Numbers
<1>2. this \in [Slots -> Numbers \cup {Nil}] /\ ackers \in [Numbers -> AckerStates]
    BY AckerStateTypes DEF Init
<1> QED BY <1>1, <1>2 DEF Init, TypeOK

LEMMA WriterTypes == ASSUME TypeOK, WriterNext PROVE TypeOK'
<1>1. CASE TakeNumber
  <2>1. Following(seqNum) \in Numbers
      BY FollowingIsNumber DEF TypeOK
  <2> QED BY <1>1, <2>1 DEF TypeOK, TakeNumber, StaysApart
<1>2. CASE setNextItem
  <2>1. handed \in Numbers
      BY <1>2 DEF TypeOK, setNextItem
  <2>2. this' \in [Slots -> Numbers \cup {Nil}]
      BY <1>2, <2>1, SlotOfNumber DEF TypeOK, setNextItem
  <2>3. ackers' \in [Numbers -> AckerStates]
      BY <1>2, <2>1, AckerStateTypes DEF TypeOK, setNextItem
  <2> QED BY <1>2, <2>1, <2>2, <2>3 DEF TypeOK, setNextItem
<1>3. CASE FrameLost
    BY <1>3 DEF TypeOK, FrameLost, ringVars
<1> QED BY <1>1, <1>2, <1>3 DEF WriterNext

LEMMA AckerTypes == ASSUME TypeOK, AckerNext PROVE TypeOK'
<1> PICK n \in Numbers :
        Acknowledge(n) \/ Reset(n) \/ Scan(n) \/ Adopt(n) \/ Pop(n) \/ AckTimeout(n)
    BY DEF AckerNext
<1>1. CASE Acknowledge(n)
  <2>1. Resetting(IsOldest(this[modulus(n)])) \in AckerStates
    <3> DEFINE ok == IsOldest(this[modulus(n)])
    <3>1. ok \in BOOLEAN
        BY DEF IsOldest
    <3>2. Resetting(ok) \in AckerStates
      <4> HIDE DEF ok
      <4> QED BY <3>1, AckerStateTypes
    <3> QED BY <3>2
  <2>2. ackers' = [ackers EXCEPT ![n] = ackers'[n]]
        /\ ackers'[n] \in {Resetting(IsOldest(this[modulus(n)])), Popping}
      BY <1>1 DEF TypeOK, Acknowledge
  <2>3. ackers' \in [Numbers -> AckerStates]
      BY <2>1, <2>2, AckerStateTypes DEF TypeOK
  <2> QED BY <1>1, <2>3 DEF TypeOK, Acknowledge, StaysApart, ringVars
<1>2. CASE Scan(n)
  <2> DEFINE i == ackers[n].at
             k == After(n, i)
  <2>1. i \in 1 .. Window /\ i \in Nat /\ Window \in Nat
      BY <1>2, AckerStateFields, WindowAssumption DEF TypeOK, Scan
  <2>2. CASE Unacknowledged(k) /\ ackers' = [ackers EXCEPT ![n] = Adopting(this[k])]
    <3>1. this[k] \in Numbers
        BY <2>1, <2>2, SlotAfter DEF Unacknowledged, TypeOK
    <3>2. ackers' \in [Numbers -> AckerStates]
        BY <2>2, <3>1, AckerStateTypes DEF TypeOK
    <3> QED BY <1>2, <3>2 DEF TypeOK, Scan, ringVars
  <2>3. CASE ackers' = [ackers EXCEPT ![n] = IF i < Window THEN Scanning(i + 1) ELSE Popping]
    <3>1. i < Window => i + 1 \in 1 .. Window
        BY <2>1
    <3>2. ackers' \in [Numbers -> AckerStates]
        BY <2>3, <3>1, AckerStateTypes DEF TypeOK
    <3> QED BY <1>2, <3>2 DEF TypeOK, Scan, ringVars
  <2> QED BY <1>2, <2>2, <2>3 DEF Scan
<1>3. CASE Adopt(n)
  <2>1. ackers[n].item \in Numbers
      BY <1>3, AckerStateFields DEF TypeOK, Adopt
  <2>2. ackers' \in [Numbers -> AckerStates]
      BY <1>3, AckerStateTypes DEF TypeOK, Adopt
  <2> QED BY <1>3, <2>1, <2>2 DEF TypeOK, Adopt
<1>4. CASE Pop(n)
    BY <1>4, AckerStateTypes DEF TypeOK, Pop, Popped, ringVars
<1>5. CASE AckTimeout(n)
    BY <1>5, AckerStateTypes DEF TypeOK, AckTimeout, ringVars
<1>6. CASE Reset(n)
  <2>1. 1 \in 1 .. Window
      BY WindowAssumption
  <2>2. ackers' \in [Numbers -> AckerStates]
      BY <1>6, <2>1, AckerStateTypes DEF TypeOK, Reset
  <2> QED BY <1>6, <2>2 DEF TypeOK, Reset
<1> QED BY <1>1, <1>2, <1>3, <1>4, <1>5, <1>6

LEMMA TypeStep == ASSUME TypeOK, [Next]_vars PROVE TypeOK'
<1>1. CASE UNCHANGED vars
    BY <1>1 DEF TypeOK, vars, ringVars
<1> QED BY <1>1, WriterTypes, AckerTypes DEF Next

\* updateAckSeqNum never adopts a nil item (src/ringbuffer.go:157-172), whatever
\* the window and also when writer and acknowledgements overlap and numbers wrap.
THEOREM TypeCorrect == Spec => []TypeOK
<1>1. Init => TypeOK
    BY TypeInit
<1>2. TypeOK /\ [Next]_vars => TypeOK'
    BY TypeStep
<1> QED BY <1>1, <1>2, PTL DEF Spec

-----------------------------------------------------------------------------
(* An empty write buffer.  Entries leave in Pop, and a number that is about *)
(* to be popped must not be that of an unacknowledged item.  Before the    *)
(* numbers wrap, numbers are taken once: items and goroutines have numbers *)
(* below seqNum, the number in hand has neither yet.                       *)

Fresh ==
    /\ seqNum <= LastTaken + 1
    /\ handed # Nil => handed < seqNum /\ ackers[handed] = NoAcker /\ handed \in buffered
    /\ \A k \in Slots : this[k] # Nil =>
          this[k] < seqNum /\ this[k] # handed /\ modulus(this[k]) = k
    /\ \A n \in Numbers : ackers[n] # NoAcker => n < seqNum

\* The item of a goroutine that has its acknowledgement has been reset, or will be.
Busy(n) == ackers[n].st \notin {"none", "waiting"}

Settled ==
    \A n \in Numbers, k \in Slots :
        this[k] = n /\ Busy(n) => n \in acknowledged \/ ackers[n].st = "resetting"

Recorded == \A k \in Slots : Unacknowledged(k) => this[k] \in buffered

IInv == TypeOK /\ Fresh /\ Settled /\ Recorded

LEMMA QuietInit == ASSUME Init PROVE Fresh /\ Settled /\ Recorded
BY BoundAssumption, ModulusAssumption
   DEF Init, Fresh, Settled, Recorded, Unacknowledged, Nil, Busy, NoAcker

\* A number is taken and its entry made.
LEMMA QuietTake ==
    ASSUME LastTaken < Modulus - 2, IInv, TakeNumber
    PROVE  Fresh' /\ Settled' /\ Recorded'
<1>1. seqNum \in Nat /\ seqNum' = seqNum + 1 /\ handed' = seqNum
      /\ UNCHANGED <<this, ackers, acknowledged>> /\ buffered' = buffered \cup {seqNum}
    BY BoundAssumption, ModulusAssumption DEF IInv, TypeOK, TakeNumber, Following, Numbers
<1>2. seqNum \in Numbers /\ seqNum <= LastTaken /\ LastTaken \in Nat
    BY BoundAssumption, ModulusAssumption DEF IInv, TypeOK, TakeNumber
<1>3. ackers[seqNum] = NoAcker
    BY <1>2 DEF IInv, Fresh, Numbers
<1>4. ASSUME NEW k \in Slots, this[k] # Nil
      PROVE  this[k] \in Nat /\ this[k] < seqNum /\ modulus(this[k]) = k
    BY <1>4 DEF IInv, Fresh, TypeOK, Numbers, Nil
<1>5. Fresh'
  <2>1. \A n \in Numbers : ackers'[n] # NoAcker => n < seqNum'
      BY <1>1 DEF IInv, Fresh, Numbers
  <2>2. \A k \in Slots : this'[k] # Nil =>
            this'[k] < seqNum' /\ this'[k] # handed' /\ modulus(this'[k]) = k
      BY <1>1, <1>4
  <2> QED BY <1>1, <1>2, <1>3, <2>1, <2>2 DEF Fresh, modulus
<1>6. Settled' /\ Recorded'
    BY <1>1 DEF IInv, Settled, Recorded, Unacknowledged, Busy
<1> QED BY <1>5, <1>6

LEMMA QuietRecord ==
    ASSUME IInv, setNextItem
    PROVE  Fresh' /\ Settled' /\ Recorded'
<1>1. handed \in Numbers /\ handed # Nil /\ handed < seqNum /\ handed \in buffered
      /\ ackers[handed] = NoAcker
    BY DEF IInv, TypeOK, Fresh, setNextItem
<1>2. modulus(handed) \in Slots
    BY <1>1, SlotOfNumber
<1>3. \A k \in Slots : this'[k] = IF k = modulus(handed) THEN handed ELSE this[k]
    BY <1>2 DEF IInv, TypeOK, setNextItem
<1>4. \A n \in Numbers : ackers'[n] = IF n = handed THEN Waiting ELSE ackers[n]
    BY <1>1 DEF IInv, TypeOK, setNextItem
<1>5. handed' = Nil /\ UNCHANGED <<seqNum, buffered>>
      /\ acknowledged' = acknowledged \ {handed}
    BY DEF setNextItem
<1>6. Fresh'
    BY <1>1, <1>3, <1>4, <1>5 DEF IInv, Fresh, modulus
<1>7. Settled'
    BY <1>1, <1>3, <1>4, <1>5 DEF IInv, Settled, Fresh, Busy, Waiting
<1>8. Recorded'
    BY <1>1, <1>3, <1>5 DEF IInv, Recorded, Unacknowledged, Fresh
<1> QED BY <1>6, <1>7, <1>8

LEMMA QuietAcknowledge ==
    ASSUME IInv, NEW n \in Numbers, Acknowledge(n)
    PROVE  Fresh' /\ Settled' /\ Recorded'
<1> DEFINE item == this[modulus(n)]
           found == item # Nil /\ ItemNum(item) = n
<1>1. ackers[n] = Waiting /\ UNCHANGED <<seqNum, this, acknowledged, buffered, handed>>
    BY DEF Acknowledge, ringVars
<1>2. \A m \in Numbers : m # n => ackers'[m] = ackers[m]
    BY DEF IInv, TypeOK, Acknowledge
<1>3. ackers'[n] = IF found THEN Resetting(IsOldest(item)) ELSE Popping
    BY DEF IInv, TypeOK, Acknowledge
<1>4. n < seqNum /\ handed # n
    BY <1>1 DEF IInv, Fresh, Waiting, NoAcker, Numbers, Nil
<1>5. Fresh'
    BY <1>1, <1>2, <1>4 DEF IInv, Fresh, TypeOK, modulus
<1>6. ASSUME NEW k \in Slots, this[k] = n, n \notin acknowledged
      PROVE  ackers'[n].st = "resetting"
  <2>1. modulus(n) = k /\ item = n /\ n # Nil
      BY <1>6 DEF IInv, Fresh, Numbers, Nil
  <2> QED BY <1>3, <1>6, <2>1 DEF ItemNum, Resetting
<1>7. Settled'
    BY <1>1, <1>2, <1>6 DEF IInv, Settled, Busy
<1>8. Recorded'
    BY <1>1 DEF IInv, Recorded, Unacknowledged
<1> QED BY <1>5, <1>7, <1>8

LEMMA QuietReset ==
    ASSUME IInv, NEW n \in Numbers, Reset(n)
    PROVE  Fresh' /\ Settled' /\ Recorded'
<1>1. /\ ackers[n].st = "resetting" /\ acknowledged' = acknowledged \cup {n}
      /\ UNCHANGED <<seqNum, this, buffered, handed>>
    BY DEF Reset
<1>2. \A m \in Numbers : m # n => ackers'[m] = ackers[m]
    BY DEF IInv, TypeOK, Reset
<1>3. n < seqNum /\ handed # n
    BY <1>1 DEF IInv, Fresh, NoAcker, Numbers, Nil
<1>4. Fresh'
    BY <1>1, <1>2, <1>3 DEF IInv, Fresh, TypeOK, modulus
<1>5. Settled'
    BY <1>1, <1>2 DEF IInv, Settled, Busy
<1>6. Recorded'
    BY <1>1 DEF IInv, Recorded, Unacknowledged
<1> QED BY <1>4, <1>5, <1>6

\* The other steps of an acknowledgement goroutine keep it past its waiting, or
\* end it.
LEMMA QuietAcker ==
    ASSUME IInv, NEW n \in Numbers, Scan(n) \/ Adopt(n) \/ Pop(n) \/ AckTimeout(n)
    PROVE  Fresh' /\ Settled' /\ Recorded'
<1>1. UNCHANGED <<seqNum, this, acknowledged, handed>>
    BY DEF Scan, Adopt, Pop, AckTimeout, ringVars
<1>2. \A m \in Numbers : m # n => ackers'[m] = ackers[m]
    BY DEF IInv, TypeOK, Scan, Adopt, Pop, AckTimeout
<1>3. ackers[n] # NoAcker
    BY DEF Scan, Adopt, Pop, AckTimeout, NoAcker, Waiting, Popping
<1>4. buffered' = buffered \/ Pop(n)
    BY DEF Scan, Adopt, AckTimeout
<1>5. handed # n /\ n < seqNum
    BY <1>3 DEF IInv, Fresh, Numbers, Nil
<1>6. ASSUME ackers'[n].st \notin {"none", "waiting"}
      PROVE  Busy(n) /\ ackers[n].st # "resetting"
  <2>1. CASE Scan(n) \/ Adopt(n)
      BY <2>1 DEF Scan, Adopt, Busy
  <2>2. CASE Pop(n) \/ AckTimeout(n)
      BY <1>6, <2>2 DEF Pop, AckTimeout, IInv, TypeOK, NoAcker
  <2> QED BY <2>1, <2>2
<1>7. Fresh'
    BY <1>1, <1>2, <1>4, <1>5 DEF IInv, Fresh, TypeOK, modulus, Pop, Popped
<1>8. Settled'
    BY <1>1, <1>2, <1>6 DEF IInv, Settled, Busy
<1>9. Recorded'
  <2>1. CASE buffered' = buffered
      BY <1>1, <2>1 DEF IInv, Recorded, Unacknowledged
  <2>2. CASE Pop(n)
    <3>1. Busy(n) /\ ackers[n].st # "resetting"
        BY <2>2 DEF Pop, Popping, Busy
    <3>2. \A k \in Slots : Unacknowledged(k) => this[k] # n
        BY <3>1 DEF IInv, Settled, Unacknowledged
    <3> QED BY <1>1, <2>2, <3>2 DEF IInv, Recorded, Unacknowledged, Pop, Popped
  <2> QED BY <1>4, <2>1, <2>2
<1> QED BY <1>7, <1>8, <1>9

LEMMA QuietStep ==
    ASSUME LastTaken < Modulus - 2, IInv, [Next]_vars
    PROVE  IInv'
<1>1. TypeOK'
    BY TypeStep DEF IInv
<1>2. CASE FrameLost \/ UNCHANGED vars
    BY <1>1, <1>2 DEF IInv, Fresh, Settled, Recorded, Unacknowledged, modulus, FrameLost, vars,
                      ringVars, TypeOK, Numbers, Nil, Busy
<1>3. CASE TakeNumber
    BY <1>1, <1>3, QuietTake DEF IInv
<1>4. CASE setNextItem
    BY <1>1, <1>4, QuietRecord DEF IInv
<1>5. CASE AckerNext
    BY <1>1, <1>5, QuietAcknowledge, QuietReset, QuietAcker DEF IInv, AckerNext
<1> QED BY <1>2, <1>3, <1>4, <1>5 DEF Next, WriterNext

\* Until the numbers wrap, acknowSeqnum is right to take an empty write buffer for
\* a quiet side (src/transport1.go:241), for any window and size of the buffer and
\* wherever the acknowledgement goroutines are in updateAckSeqNum.
THEOREM EmptyBufferIsQuiet ==
    ASSUME LastTaken < Modulus - 2
    PROVE  Spec => []EmptyMeansQuiet
<1>1. Init => IInv
    BY TypeInit, QuietInit DEF IInv
<1>2. IInv /\ [Next]_vars => IInv'
    BY QuietStep
<1>3. IInv => EmptyMeansQuiet
    BY DEF IInv, Fresh, Recorded, EmptyMeansQuiet, Outstanding
<1> QED BY <1>1, <1>2, <1>3, PTL DEF Spec

-----------------------------------------------------------------------------
(* Arithmetic of the slots.                                                *)

LEMMA ModRange ==
    ASSUME NEW a \in Nat, NEW w \in Nat \ {0}
    PROVE  (a % w) \in 0 .. w - 1 /\ (a \div w) \in Nat /\ a = w * (a \div w) + (a % w)
OBVIOUS

\* A multiple of w that is nearer to 0 than w is 0.
LEMMA NearZero ==
    ASSUME NEW w \in Nat \ {0}, NEW d \in Int, w * d < w, 0 - w < w * d
    PROVE  d = 0
<1>1. CASE d >= 1
  <2>1. w * d >= w
      BY <1>1
  <2> QED BY <2>1
<1>2. CASE d <= -1
  <2>1. w * d <= -w
      BY <1>2
  <2> QED BY <2>1
<1> QED BY <1>1, <1>2

LEMMA Spread ==
    ASSUME NEW w \in Int, NEW x \in Int, NEW y \in Int
    PROVE  w * (x + y) = w * x + w * y
OBVIOUS

LEMMA ModUnique ==
    ASSUME NEW w \in Nat \ {0}, NEW q \in Nat, NEW r \in 0 .. w - 1
    PROVE  (w * q + r) % w = r
<1> DEFINE a == w * q + r
           d == (a \div w) - q
<1>1. a \in Nat
    OBVIOUS
<1>2. a = w * (a \div w) + (a % w) /\ (a % w) \in 0 .. w - 1 /\ (a \div w) \in Nat
    BY <1>1, ModRange
<1>3. w * d = w * (a \div w) - w * q /\ d \in Int
    BY <1>2
<1>4. r - (a % w) = w * d
    BY <1>2, <1>3
<1> HIDE DEF a, d
<1>5. w * d < w /\ 0 - w < w * d
    BY <1>2, <1>4
<1>6. d = 0
    BY <1>3, <1>5, NearZero
<1>7. w * d = 0
    BY <1>6
<1> QED BY <1>2, <1>4, <1>7 DEF a

\* Numbers nearer to each other than w have different slots.
LEMMA ModApart ==
    ASSUME NEW a \in Nat, NEW b \in Nat, NEW w \in Nat \ {0}, a < b, b < a + w
    PROVE  a % w # b % w
<1> SUFFICES ASSUME a % w = b % w PROVE FALSE
    OBVIOUS
<1> DEFINE d == (b \div w) - (a \div w)
<1>1. w * d = b - a
  <2>1. a = w * (a \div w) + (a % w) /\ b = w * (b \div w) + (b % w)
      BY ModRange
  <2> QED BY <2>1, ModRange
<1>2. d \in Int
    BY ModRange
<1>3. w * d > 0 /\ w * d < w
    BY <1>1
<1> HIDE DEF d
<1>4. d = 0
    BY <1>2, <1>3, NearZero
<1>5. w * d = 0
    BY <1>4
<1> QED BY <1>3, <1>5

\* The next multiple of w after a.
LEMMA ModNext ==
    ASSUME NEW a \in Nat, NEW w \in Nat \ {0}
    PROVE  (a + w - (a % w)) % w = 0
<1> DEFINE q == a \div w
           r == a % w
<1>1. q \in Nat /\ r \in Nat /\ a = w * q + r
    BY ModRange
<1>2. w * (q + 1) = w * q + w
    BY <1>1, Spread
<1>3. (w * (q + 1) + 0) % w = 0
    BY <1>1, ModUnique
<1>4. a + w - r = w * (q + 1) + 0
  <2> HIDE DEF q, r
  <2> QED BY <1>1, <1>2
<1> QED BY <1>3, <1>4

LEMMA ModAdd ==
    ASSUME NEW a \in Nat, NEW i \in Nat, NEW w \in Nat \ {0}
    PROVE  ((a % w) + i) % w = (a + i) % w
<1> DEFINE r == a % w
           q == a \div w
           s == (r + i) % w
           p == (r + i) \div w
<1>1. q \in Nat /\ r \in Nat /\ a = w * q + r /\ r + i \in Nat
    BY ModRange
<1>2. p \in Nat /\ s \in 0 .. w - 1 /\ r + i = w * p + s
  <2> HIDE DEF r
  <2> QED BY <1>1, ModRange
<1>3. (a + i) % w = s
  <2> HIDE DEF q, p, r, s
  <2>1. w * (q + p) = w * q + w * p /\ q + p \in Nat
      BY <1>1, <1>2, Spread
  <2>2. a + i = w * (q + p) + s
      BY <1>1, <1>2, <2>1
  <2>3. (w * (q + p) + s) % w = s
      BY <1>2, <2>1, ModUnique
  <2> QED BY <2>2, <2>3
<1> QED BY <1>3

-----------------------------------------------------------------------------
(* The window, as long as no nextSeqNum and no updateAckSeqNum comes in the *)
(* middle of an updateAckSeqNum.  While oldestUnack is unacknowledged, or  *)
(* its successor is being looked for, it leads all outstanding frames and  *)
(* is at most Window behind seqNum.  When the last one has been            *)
(* acknowledged oldestUnack stays and counts as 0: then no number that has *)
(* been taken since is a multiple of Window, so that the outstanding ones  *)
(* are as close together.                                                  *)

\* It has reset the oldest item and looks for the next one.
Searching(n) == ackers[n].st \in {"scanning", "adopting"}

Alone == \A m, n \in Numbers : Looking(m) /\ Looking(n) => m = n

Placed ==
    /\ handed # Nil => seqNum = handed + 1
    /\ oldestUnack = Nil => \A k \in Slots : this[k] = Nil
    /\ oldestUnack # Nil =>
        /\ oldestUnack < seqNum /\ oldestUnack # handed
        /\ oldestUnack \in acknowledged \/ this[modulus(oldestUnack)] = oldestUnack

Live == oldestUnack # Nil /\ (oldestUnack \notin acknowledged \/ \E n \in Numbers : Searching(n))

Led ==
    Live =>
        /\ seqNum <= oldestUnack + Window
        /\ \A k \in Slots : Unacknowledged(k) => oldestUnack <= this[k]
Stale ==
    ~Live => \A k \in Slots : Unacknowledged(k) => (this[k] % Window) + seqNum <= this[k] + Window

\* A frame that was recorded while a goroutine scanned: it is the newest one.
Newcomer(k) == handed = Nil /\ this[k] + 1 = seqNum

\* What a goroutine in updateAckSeqNum knows: whether its item is the oldest, that
\* behind it in the ring there are newcomers only, and what it adopts.
Sought ==
    \A n \in Numbers :
        /\ Looking(n) => oldestUnack # Nil
        /\ ackers[n].st = "resetting" =>
            n \notin acknowledged /\ (ackers[n].oldest <=> oldestUnack = n)
        /\ Searching(n) => oldestUnack = n /\ n \in acknowledged
        /\ ackers[n].st = "scanning" =>
            \A j \in 1 .. ackers[n].at - 1 :
                Unacknowledged(After(n, j)) => Newcomer(After(n, j))
        /\ ackers[n].st = "adopting" =>
            \E k \in Slots :
                /\ Unacknowledged(k) /\ this[k] = ackers[n].item
                /\ \A j \in Slots : Unacknowledged(j) => this[k] <= this[j]

\* The invariant while nothing has come in the middle of an updateAckSeqNum.
Orderly == IInv /\ Alone /\ Placed /\ Led /\ Stale /\ Sought

WInv == IInv /\ (apart => Orderly)

LEMMA ItemFacts ==
    ASSUME IInv, NEW k \in Slots, this[k] # Nil
    PROVE  this[k] \in Numbers /\ this[k] < seqNum /\ this[k] # handed /\ k = modulus(this[k])
BY DEF IInv, TypeOK, Fresh

LEMMA NumberFacts ==
    /\ Window \in Nat \ {0} /\ Modulus \in Nat /\ Nil = 0
    /\ \A n \in Numbers : n \in Nat /\ n >= 1 /\ n < Modulus - 1
BY WindowAssumption, ModulusAssumption DEF Numbers, Nil

LEMMA Distance ==
    ASSUME Orderly, NEW k \in Slots, Unacknowledged(k)
    PROVE  seqNum <= this[k] + Window
<1>1. this[k] \in Nat /\ seqNum \in Nat /\ oldestUnack \in Nat /\ Window \in Nat \ {0}
    BY ItemFacts, NumberFacts DEF Unacknowledged, Orderly, IInv, TypeOK
<1>2. CASE Live
    BY <1>1, <1>2 DEF Orderly, Led
<1>3. CASE ~Live
  <2>1. (this[k] % Window) \in Nat
      BY <1>1, ModRange
  <2>2. (this[k] % Window) + seqNum <= this[k] + Window
      BY <1>3 DEF Orderly, Stale
  <2> QED BY <1>1, <2>1, <2>2
<1> QED BY <1>2, <1>3

\* The slot of the number in hand is free.
LEMMA Room ==
    ASSUME Orderly, handed # Nil, NEW k \in Slots, Unacknowledged(k)
    PROVE  k # modulus(handed)
<1>1. handed \in Numbers /\ seqNum = handed + 1
    BY DEF Orderly, IInv, TypeOK, Placed
<1>2. this[k] \in Numbers /\ this[k] < seqNum /\ this[k] # handed /\ k = modulus(this[k])
    BY ItemFacts DEF Unacknowledged, Orderly
<1> DEFINE a == this[k] - 1
           b == handed - 1
<1>3. a \in Nat /\ b \in Nat /\ a < b /\ b < a + Window
    BY <1>1, <1>2, Distance, NumberFacts
<1> HIDE DEF a, b
<1>4. a % Window # b % Window
    BY <1>3, ModApart, NumberFacts
<1> QED BY <1>2, <1>4 DEF modulus, a, b

\* TakeNumber.
LEMMA WindowTake ==
    ASSUME LastTaken < Modulus - 2, Orderly, TakeNumber, \A n \in Numbers : ~Looking(n)
    PROVE  Alone' /\ Placed' /\ Led' /\ Stale' /\ Sought'
<1>1. seqNum \in Numbers /\ seqNum' = seqNum + 1 /\ handed' = seqNum
    BY BoundAssumption, ModulusAssumption DEF Orderly, IInv, TypeOK, TakeNumber, Following, Numbers
<1>2. UNCHANGED <<oldestUnack, this, acknowledged, ackers>> /\ ~windowFull
    BY DEF TakeNumber
<1>3. \A n \in Numbers : ~Searching(n)
    BY DEF Looking, Searching
<1>4. oldestUnack \in Nat /\ oldestUnack < Modulus /\ seqNum \in Nat /\ seqNum < Modulus
      /\ Window \in Nat \ {0} /\ Modulus \in Nat
    BY <1>1, NumberFacts DEF Orderly, IInv, TypeOK
<1>5. Alone' /\ Sought'
    BY <1>2 DEF Orderly, Alone, Sought, Looking, Searching
<1>6. Placed'
    BY <1>1, <1>2, <1>4 DEF Orderly, Placed, modulus, Nil
<1>7. Live' = Live /\ \A k \in Slots : Unacknowledged(k)' = Unacknowledged(k)
    BY <1>2 DEF Live, Searching, Unacknowledged
<1>8. Led'
  <2> SUFFICES ASSUME Live PROVE seqNum' <= oldestUnack + Window
      BY <1>2, <1>7 DEF Orderly, Led
  <2>1. oldestUnack \notin acknowledged /\ oldestUnack # Nil
      BY <1>3 DEF Live
  <2>2. oldestUnack < seqNum /\ seqNum <= oldestUnack + Window
      BY <2>1 DEF Orderly, Led, Placed
  <2> DEFINE d == seqNum - oldestUnack
  <2>3. d \in 1 .. Window /\ d < Modulus /\ d \in 0 .. Modulus - 1
      BY <1>4, <2>2
  <2>4. Ahead = (d + Modulus) % Modulus
      BY <1>4, <2>1 DEF Ahead, ItemNum
  <2>5. Ahead = d
    <3> HIDE DEF d
    <3> QED BY <1>4, <2>3, <2>4
  <2>6. d # Window
    <3>1. d % Window # 0
        BY <1>2, <2>1, <2>5 DEF windowFull
    <3> HIDE DEF d
    <3> QED BY <1>4, <3>1
  <2> QED BY <1>1, <1>4, <2>3, <2>6
<1>9. Stale'
  <2> SUFFICES ASSUME ~Live, NEW k \in Slots, Unacknowledged(k)
               PROVE  (this[k] % Window) + (seqNum + 1) <= this[k] + Window
      BY <1>1, <1>2, <1>7 DEF Orderly, Stale
  <2>1. oldestUnack # Nil
      BY DEF Orderly, Placed, Unacknowledged
  <2>2. oldestUnack \in acknowledged
      BY <2>1 DEF Live
  <2>3. Ahead = (seqNum + Modulus) % Modulus
      BY <1>4, <2>2 DEF Ahead, ItemNum
  <2>4. Ahead = seqNum
      BY <1>4, <2>3
  <2>5. seqNum % Window # 0
      BY <1>2, <2>1, <2>4 DEF windowFull
  <2>6. this[k] \in Nat
      BY ItemFacts, NumberFacts DEF Unacknowledged, Orderly
  <2>7. (this[k] + Window - (this[k] % Window)) % Window = 0 /\ (this[k] % Window) \in Nat
    <3> DEFINE a == this[k]
    <3>1. a \in Nat
        BY <2>6
    <3> HIDE DEF a
    <3>2. (a + Window - (a % Window)) % Window = 0 /\ (a % Window) \in Nat
        BY <1>4, <3>1, ModNext, ModRange
    <3> QED BY <3>2 DEF a
  <2>8. (this[k] % Window) + seqNum <= this[k] + Window
      BY DEF Orderly, Stale
  <2>9. seqNum # this[k] + Window - (this[k] % Window)
      BY <2>5, <2>7
  <2> DEFINE r == this[k] % Window
  <2> HIDE DEF r
  <2> QED BY <1>4, <2>6, <2>7, <2>8, <2>9 DEF r
<1> QED BY <1>5, <1>6, <1>8, <1>9

\* setNextItem.
LEMMA WindowRecord ==
    ASSUME Orderly, setNextItem
    PROVE  Alone' /\ Placed' /\ Led' /\ Stale' /\ Sought'
<1>1. handed \in Numbers /\ handed # Nil /\ seqNum = handed + 1 /\ seqNum \in Nat
      /\ oldestUnack \in Nat
    BY NumberFacts DEF Orderly, IInv, TypeOK, Placed, setNextItem
<1>2. modulus(handed) \in Slots
    BY <1>1, SlotOfNumber
<1>3. \A k \in Slots : this'[k] = IF k = modulus(handed) THEN handed ELSE this[k]
    BY <1>2 DEF Orderly, IInv, TypeOK, setNextItem
<1>4. \A n \in Numbers : ackers'[n] = IF n = handed THEN Waiting ELSE ackers[n]
    BY <1>1 DEF Orderly, IInv, TypeOK, setNextItem
<1>5. /\ handed' = Nil /\ seqNum' = seqNum /\ acknowledged' = acknowledged \ {handed}
      /\ oldestUnack' = IF oldestUnack = Nil THEN handed ELSE oldestUnack
    BY DEF setNextItem
<1>6. \A n \in Numbers : Looking(n) \/ Looking(n)' => n # handed /\ ackers'[n] = ackers[n]
  <2>1. ackers[handed] = NoAcker
      BY <1>1 DEF Orderly, IInv, Fresh
  <2> QED BY <1>4, <2>1 DEF Looking, NoAcker, Waiting
<1>7. \A n \in Numbers : (Looking(n)' <=> Looking(n)) /\ (Searching(n)' <=> Searching(n))
  <2>1. \A n \in Numbers : Searching(n) \/ Searching(n)' => Looking(n) \/ Looking(n)'
      BY DEF Looking, Searching
  <2> QED BY <1>6, <2>1 DEF Looking, Searching
<1>8. Alone'
    BY <1>7 DEF Orderly, Alone
<1>9. \A k \in Slots : Unacknowledged(k)' =>
          \/ k = modulus(handed) /\ this'[k] = handed
          \/ Unacknowledged(k) /\ this'[k] = this[k]
  <2> SUFFICES ASSUME NEW k \in Slots, Unacknowledged(k)', k # modulus(handed)
               PROVE  Unacknowledged(k) /\ this'[k] = this[k]
      BY <1>3
  <2>1. this'[k] = this[k] /\ this[k] # Nil /\ this[k] # handed
      BY <1>3, ItemFacts DEF Unacknowledged, Orderly
  <2> QED BY <1>5, <2>1 DEF Unacknowledged
<1>10. oldestUnack # Nil => oldestUnack < seqNum /\ oldestUnack # handed
    BY DEF Orderly, Placed
<1>11. Placed'
  <2>1. CASE oldestUnack = Nil
    <3>1. oldestUnack' = handed /\ this'[modulus(handed)] = handed
        BY <1>2, <1>3, <1>5, <2>1
    <3>2. (this[modulus(oldestUnack)] = oldestUnack)'
        BY <3>1 DEF modulus
    <3>3. handed < seqNum
        BY <1>1, NumberFacts
    <3> QED BY <1>1, <1>5, <3>1, <3>2, <3>3 DEF Placed
  <2>2. CASE oldestUnack # Nil
    <3>1. oldestUnack' = oldestUnack /\ oldestUnack \in Numbers
        BY <1>5, <2>2 DEF Orderly, IInv, TypeOK
    <3>2. oldestUnack \in acknowledged => oldestUnack' \in acknowledged'
        BY <1>5, <1>10, <2>2, <3>1
    <3>3. oldestUnack \notin acknowledged => this'[modulus(oldestUnack)] = oldestUnack
      <4> SUFFICES ASSUME oldestUnack \notin acknowledged
                   PROVE  this'[modulus(oldestUnack)] = oldestUnack
          OBVIOUS
      <4>1. this[modulus(oldestUnack)] = oldestUnack
          BY <2>2 DEF Orderly, Placed
      <4>2. modulus(oldestUnack) \in Slots
          BY <3>1, SlotOfNumber
      <4>3. Unacknowledged(modulus(oldestUnack))
          BY <2>2, <4>1 DEF Unacknowledged
      <4> QED BY <1>1, <1>3, <4>1, <4>2, <4>3, Room
    <3>4. modulus(oldestUnack)' = modulus(oldestUnack)
        BY <3>1 DEF modulus
    <3>5. (oldestUnack \in acknowledged \/ this[modulus(oldestUnack)] = oldestUnack)'
        BY <3>1, <3>2, <3>3, <3>4
    <3> QED BY <1>5, <1>10, <2>2, <3>1, <3>5 DEF Placed
  <2> QED BY <2>1, <2>2
<1>12. Led'
  <2> SUFFICES ASSUME Live'
               PROVE  /\ seqNum <= oldestUnack' + Window
                      /\ \A k \in Slots : Unacknowledged(k)' => oldestUnack' <= this'[k]
      BY <1>5 DEF Led
  <2>1. CASE oldestUnack = Nil
    <3>1. oldestUnack' = handed /\ \A k \in Slots : ~Unacknowledged(k)
        BY <1>5, <2>1 DEF Orderly, Placed, Unacknowledged
    <3>2. handed \in Nat /\ Window \in Nat \ {0}
        BY <1>1, NumberFacts
    <3> QED BY <1>1, <1>9, <3>1, <3>2
  <2>2. CASE oldestUnack # Nil
    <3>1. Live /\ oldestUnack' = oldestUnack
        BY <1>5, <1>7, <1>10, <2>2 DEF Live
    <3>2. seqNum <= oldestUnack + Window
          /\ \A k \in Slots : Unacknowledged(k) => oldestUnack <= this[k]
        BY <3>1 DEF Orderly, Led
    <3>3. oldestUnack <= handed
        BY <1>1, <1>10, <2>2, NumberFacts
    <3> QED BY <1>9, <3>1, <3>2, <3>3
  <2> QED BY <2>1, <2>2
<1>13. Stale'
  <2> SUFFICES ASSUME ~Live', NEW k \in Slots, Unacknowledged(k)'
               PROVE  (this'[k] % Window) + seqNum <= this'[k] + Window
      BY <1>5 DEF Stale
  <2>1. CASE k = modulus(handed) /\ this'[k] = handed
    <3>1. handed \in Nat /\ Window \in Nat \ {0}
        BY <1>1, NumberFacts
    <3>2. (handed % Window) \in 0 .. Window - 1
        BY <3>1, ModRange
    <3> QED BY <1>1, <2>1, <3>1, <3>2
  <2>2. CASE Unacknowledged(k) /\ this'[k] = this[k]
    <3>1. ~Live
        BY <1>5, <1>7, <1>10 DEF Live
    <3> QED BY <2>2, <3>1 DEF Orderly, Stale
  <2> QED BY <1>9, <2>1, <2>2
<1>14. Sought'
  <2> SUFFICES ASSUME NEW n \in Numbers, Looking(n)
               PROVE  /\ oldestUnack' # Nil
                      /\ ackers[n].st = "resetting" =>
                            n \notin acknowledged' /\ (ackers[n].oldest <=> oldestUnack' = n)
                      /\ Searching(n) => oldestUnack' = n /\ n \in acknowledged'
                      /\ ackers[n].st = "scanning" =>
                            \A j \in 1 .. ackers[n].at - 1 :
                                Unacknowledged(After(n, j))' => Newcomer(After(n, j))'
                      /\ ackers[n].st = "adopting" =>
                            \E k \in Slots :
                                /\ Unacknowledged(k)' /\ this'[k] = ackers[n].item
                                /\ \A j \in Slots : Unacknowledged(j)' => this'[k] <= this'[j]
    <3>1. \A n \in Numbers : ackers'[n].st \in {"resetting", "scanning", "adopting"} =>
              Looking(n) /\ ackers'[n] = ackers[n]
        BY <1>6, <1>7 DEF Looking
    <3>2. \A n \in Numbers : Searching(n)' => Looking(n) /\ Searching(n)
        BY <1>7 DEF Looking, Searching
    <3>3. \A n \in Numbers : Looking(n)' => Looking(n)
        BY <1>7
    <3>4. \A n \in Numbers, j \in Nat : After(n, j)' = After(n, j)
        BY DEF After, modulus
    <3> QED BY <3>1, <3>2, <3>3, <3>4 DEF Sought
  <2>1. n # handed /\ oldestUnack # Nil /\ oldestUnack' = oldestUnack
      BY <1>5, <1>6 DEF Orderly, Sought
  <2>2. n \in acknowledged' <=> n \in acknowledged
      BY <1>5, <2>1
  <2>3. ASSUME ackers[n].st = "scanning", NEW j \in 1 .. ackers[n].at - 1,
               Unacknowledged(After(n, j))'
        PROVE  Newcomer(After(n, j))'
    <3> DEFINE k == After(n, j)
    <3>1. ackers[n].at \in 1 .. Window /\ j \in Nat
        BY <2>3, AckerStateFields, NumberFacts DEF Orderly, IInv, TypeOK
    <3>2. k \in Slots
        BY <3>1, SlotAfter
    <3>3. CASE k = modulus(handed) /\ this'[k] = handed
        BY <1>1, <1>5, <3>3 DEF Newcomer
    <3>4. CASE Unacknowledged(k)
        BY <1>1, <2>3, <3>4 DEF Orderly, Sought, Newcomer
    <3>5. Unacknowledged(k)'
        BY <2>3
    <3>6. k' = k
        BY DEF After, modulus
    <3>7. Newcomer(k)'
        BY <1>9, <3>2, <3>3, <3>4, <3>5
    <3> QED BY <3>7
  <2>4. ASSUME ackers[n].st = "adopting"
        PROVE  \E k \in Slots :
                  /\ Unacknowledged(k)' /\ this'[k] = ackers[n].item
                  /\ \A j \in Slots : Unacknowledged(j)' => this'[k] <= this'[j]
    <3>1. PICK k \in Slots :
              /\ Unacknowledged(k) /\ this[k] = ackers[n].item
              /\ \A j \in Slots : Unacknowledged(j) => this[k] <= this[j]
        BY <2>4 DEF Orderly, Sought
    <3>2. k # modulus(handed)
        BY <1>1, <3>1, Room
    <3>3. this'[k] = this[k] /\ Unacknowledged(k)' /\ this[k] \in Nat /\ this[k] <= handed
      <4>1. this'[k] = this[k] /\ this[k] # Nil /\ this[k] < seqNum /\ this[k] \in Numbers
          BY <1>3, <3>1, <3>2, ItemFacts DEF Unacknowledged, Orderly
      <4> QED BY <1>1, <1>5, <3>1, <4>1, NumberFacts DEF Unacknowledged
    <3>4. \A j \in Slots : Unacknowledged(j)' => this'[k] <= this'[j]
        BY <1>9, <3>1, <3>3
    <3> QED BY <3>1, <3>3, <3>4
  <2> QED BY <2>1, <2>2, <2>3, <2>4 DEF Orderly, Sought
<1> QED BY <1>8, <1>11, <1>12, <1>13, <1>14

\* updateAckSeqNum begins: nobody else is in it.
LEMMA WindowAcknowledge ==
    ASSUME Orderly, NEW n \in Numbers, Acknowledge(n), \A m \in Numbers : ~Looking(m)
    PROVE  Alone' /\ Placed' /\ Led' /\ Stale' /\ Sought'
<1> DEFINE item == this[modulus(n)]
           found == item # Nil /\ ItemNum(item) = n
<1>1. UNCHANGED <<seqNum, this, oldestUnack, acknowledged, handed>>
    BY DEF Acknowledge, ringVars
<1>2. \A m \in Numbers : m # n => ackers'[m] = ackers[m]
    BY DEF Orderly, IInv, TypeOK, Acknowledge
<1>3. ackers'[n] = IF found THEN Resetting(IsOldest(item)) ELSE Popping
    BY DEF Orderly, IInv, TypeOK, Acknowledge
<1>4. \A m \in Numbers : ~Searching(m) /\ ~Searching(m)' /\ (m # n => ~Looking(m)')
  <2>1. ~Searching(n)'
      BY <1>3 DEF Searching, Resetting, Popping
  <2> QED BY <1>2, <2>1 DEF Looking, Searching
<1>5. Alone'
    BY <1>4 DEF Alone
<1>6. \A k \in Slots : Unacknowledged(k)' = Unacknowledged(k)
    BY <1>1 DEF Unacknowledged
<1>7. Placed'
    BY <1>1 DEF Orderly, Placed, modulus
<1>8. Live' <=> Live
    BY <1>1, <1>4 DEF Live
<1>9. Led' /\ Stale'
    BY <1>1, <1>6, <1>8 DEF Orderly, Led, Stale
<1>10. ASSUME Looking(n)'
       PROVE  /\ ackers'[n] = Resetting(IsOldest(item)) /\ n \notin acknowledged
              /\ oldestUnack # Nil /\ (IsOldest(item) <=> oldestUnack = n)
  <2>1. found
      BY <1>3, <1>10 DEF Looking, Popping
  <2>2. item = n /\ n \notin acknowledged
      BY <2>1, NumberFacts DEF ItemNum
  <2>3. oldestUnack # Nil
      BY <2>1, SlotOfNumber DEF Orderly, Placed
  <2> QED BY <1>3, <2>1, <2>2, <2>3 DEF IsOldest
<1>11. Sought'
  <2>1. \A m \in Numbers : ackers'[m].st \in {"resetting", "scanning", "adopting"} => m = n
      BY <1>4 DEF Looking
  <2>2. ackers'[n].st \notin {"scanning", "adopting"}
      BY <1>4 DEF Searching
  <2>3. ackers'[n].st = "resetting" =>
            /\ oldestUnack' # Nil /\ n \notin acknowledged'
            /\ ackers'[n].oldest <=> oldestUnack' = n
      BY <1>1, <1>10 DEF Looking, Resetting
  <2> QED BY <2>1, <2>2, <2>3 DEF Sought, Looking, Searching
<1> QED BY <1>5, <1>7, <1>9, <1>11

\* The item is reset; if it was the oldest the search begins.
LEMMA WindowReset ==
    ASSUME Orderly, NEW n \in Numbers, Reset(n)
    PROVE  Alone' /\ Placed' /\ Led' /\ Stale' /\ Sought'
<1>1. UNCHANGED <<seqNum, this, oldestUnack, handed>> /\ acknowledged' = acknowledged \cup {n}
    BY DEF Reset
<1>2. ackers[n].st = "resetting" /\ Looking(n) /\ ~Searching(n)
    BY DEF Reset, Looking, Searching
<1>3. /\ oldestUnack # Nil /\ n \notin acknowledged
      /\ ackers[n].oldest <=> oldestUnack = n
    BY <1>2 DEF Orderly, Sought
<1>4. \A m \in Numbers : m # n => ackers'[m] = ackers[m] /\ ~Looking(m)
    BY <1>2 DEF Orderly, Alone, IInv, TypeOK, Reset
<1>5. \A m \in Numbers : m # n => ~Looking(m)' /\ ~Searching(m)' /\ ~Searching(m)
    BY <1>4 DEF Looking, Searching
<1>6. Alone'
    BY <1>5 DEF Alone
<1>7. \A k \in Slots : Unacknowledged(k)' => Unacknowledged(k)
    BY <1>1 DEF Unacknowledged
<1>8. Placed'
    BY <1>1 DEF Orderly, Placed, modulus
<1>9. ackers'[n] = IF oldestUnack = n THEN Scanning(1) ELSE Popping
    BY <1>3 DEF Orderly, IInv, TypeOK, Reset
<1>10. Live' <=> Live
  <2>1. CASE oldestUnack = n
      BY <1>1, <1>3, <1>9, <2>1 DEF Live, Searching, Scanning
  <2>2. CASE oldestUnack # n
    <3>1. ~Searching(n)'
        BY <1>9, <2>2 DEF Searching, Popping
    <3> QED BY <1>1, <1>2, <1>5, <2>2, <3>1 DEF Live
  <2> QED BY <2>1, <2>2
<1>11. Led' /\ Stale'
    BY <1>1, <1>7, <1>10 DEF Orderly, Led, Stale
<1>12. Sought'
  <2>1. \A m \in Numbers : ackers'[m].st \in {"resetting", "scanning", "adopting"} =>
            m = n /\ oldestUnack = n /\ ackers'[m] = Scanning(1)
      BY <1>5, <1>9 DEF Looking, Popping
  <2>2. \A j \in 1 .. Scanning(1).at - 1 : FALSE
      BY DEF Scanning
  <2>3. Scanning(1).st = "scanning"
      BY DEF Scanning
  <2>4. n \in acknowledged' /\ oldestUnack' = oldestUnack /\ oldestUnack # Nil
      BY <1>1, <1>3
  <2> QED BY <2>1, <2>2, <2>3, <2>4 DEF Sought, Looking, Searching
<1> QED BY <1>6, <1>8, <1>11, <1>12

\* The scan begins behind the slot of n, and the numbers behind n are in the slots
\* in their order.
LEMMA SlotBehind ==
    ASSUME NEW n \in Numbers, NEW m \in Numbers, n <= m
    PROVE  modulus(m) = After(n, m - n)
<1> DEFINE a == n - 1
           i == m - n
<1>1. a \in Nat /\ i \in Nat /\ a + i = m - 1 /\ Window \in Nat \ {0}
    BY NumberFacts
<1> HIDE DEF a, i
<1>2. ((a % Window) + i) % Window = (a + i) % Window
    BY <1>1, ModAdd
<1> QED BY <1>1, <1>2 DEF After, modulus, a, i

\* While a goroutine searches, the outstanding frames are less than Window behind
\* the one it has acknowledged.
LEMMA BehindOldest ==
    ASSUME Orderly, NEW n \in Numbers, Searching(n), NEW k \in Slots, Unacknowledged(k)
    PROVE  this[k] \in Numbers /\ this[k] - n \in 1 .. Window - 1 /\ k = After(n, this[k] - n)
<1>1. oldestUnack = n /\ n \in acknowledged /\ n # Nil
    BY NumberFacts DEF Orderly, Sought
<1>2. seqNum <= n + Window /\ n <= this[k]
    BY <1>1 DEF Orderly, Led, Live
<1>3. this[k] \in Numbers /\ this[k] < seqNum /\ k = modulus(this[k])
    BY ItemFacts DEF Unacknowledged, Orderly
<1>4. this[k] # n
    BY <1>1 DEF Unacknowledged
<1>5. seqNum \in Nat
    BY NumberFacts DEF Orderly, IInv, TypeOK
<1> QED BY <1>2, <1>3, <1>4, <1>5, SlotBehind, NumberFacts

\* Numbers at most Window behind n are in the same slot only if they are the same.
LEMMA SameSlot ==
    ASSUME NEW n \in Numbers, NEW i \in 1 .. Window, NEW d \in 1 .. Window,
           After(n, i) = After(n, d)
    PROVE  i = d
<1> DEFINE s == modulus(n) + i
           t == modulus(n) + d
<1>1. modulus(n) \in Nat
    BY SlotOfNumber DEF Slots
<1>2. /\ s \in Nat /\ t \in Nat /\ Window \in Nat \ {0}
      /\ s < t + Window /\ t < s + Window /\ (s = t => i = d)
    BY <1>1, NumberFacts
<1>3. s % Window = t % Window
    BY DEF After
<1> HIDE DEF s, t
<1>4. ~(s < t)
    BY <1>2, <1>3, ModApart
<1>5. ~(t < s)
    BY <1>2, <1>3, ModApart
<1> QED BY <1>2, <1>4, <1>5

\* What Scan adopts comes before all other outstanding frames.
LEMMA FirstIsLeast ==
    ASSUME Orderly, NEW n \in Numbers, ackers[n].st = "scanning",
           Unacknowledged(After(n, ackers[n].at)), NEW j \in Slots, Unacknowledged(j)
    PROVE  this[After(n, ackers[n].at)] <= this[j]
<1> DEFINE i == ackers[n].at
           k == After(n, i)
           d == this[k] - n
           b == this[j] - n
<1>1. Searching(n) /\ i \in 1 .. Window /\ Window \in Nat
    BY AckerStateFields, NumberFacts DEF Orderly, IInv, TypeOK, Searching
<1>2. k \in Slots
    BY <1>1, SlotAfter
<1>3. d \in 1 .. Window - 1 /\ k = After(n, d) /\ this[k] \in Numbers
    BY <1>1, <1>2, BehindOldest
<1>4. b \in 1 .. Window - 1 /\ j = After(n, b) /\ this[j] \in Numbers
    BY <1>1, BehindOldest
<1>5. d = i
  <2>1. d \in 1 .. Window /\ After(n, i) = After(n, d)
      BY <1>1, <1>3
  <2> HIDE DEF d, i
  <2> QED BY <1>1, <2>1, SameSlot
<1>6. CASE b \in 1 .. i - 1
  <2>1. Newcomer(j)
      BY <1>4, <1>6 DEF Orderly, Sought
  <2>2. this[k] < seqNum /\ seqNum \in Nat
      BY <1>2, ItemFacts, NumberFacts DEF Orderly, Unacknowledged, IInv, TypeOK
  <2> QED BY <1>3, <1>4, <2>1, <2>2, NumberFacts DEF Newcomer
<1>7. CASE ~(b \in 1 .. i - 1)
  <2>1. b >= i
      BY <1>1, <1>4, <1>7
  <2> QED BY <1>3, <1>4, <1>5, <2>1, NumberFacts
<1> QED BY <1>6, <1>7

LEMMA WindowScan ==
    ASSUME Orderly, NEW n \in Numbers, Scan(n)
    PROVE  Alone' /\ Placed' /\ Led' /\ Stale' /\ Sought'
<1> DEFINE i == ackers[n].at
           k == After(n, i)
<1>1. ackers[n].st = "scanning" /\ Looking(n) /\ Searching(n)
    BY DEF Scan, Looking, Searching
<1>2. UNCHANGED <<seqNum, oldestUnack, this, acknowledged, handed>>
    BY DEF Scan, ringVars
<1>3. \A m \in Numbers : m # n => ackers'[m] = ackers[m] /\ ~Looking(m)
    BY <1>1 DEF Orderly, Alone, IInv, TypeOK, Scan
<1>4. \A m \in Numbers : m # n => ~Searching(m)' /\ ~Looking(m)'
    BY <1>3 DEF Searching, Looking
<1>5. Alone'
    BY <1>4 DEF Alone
<1>6. Placed' /\ \A j \in Slots : Unacknowledged(j)' = Unacknowledged(j)
    BY <1>2 DEF Orderly, Placed, modulus, Unacknowledged
<1>7. Live /\ oldestUnack = n /\ n # Nil /\ n \in acknowledged
    BY <1>1, NumberFacts DEF Live, Orderly, Sought
<1>8. i \in 1 .. Window /\ Window \in Nat \ {0} /\ k \in Slots
  <2>1. i \in 1 .. Window /\ Window \in Nat \ {0}
      BY <1>1, AckerStateFields, NumberFacts DEF Orderly, IInv, TypeOK
  <2> QED BY <2>1, SlotAfter
<1>9. \A m \in Numbers : ackers'[m].st \in {"resetting", "scanning", "adopting"} => m = n
    BY <1>4 DEF Looking
<1>10. ASSUME Searching(n)' PROVE Led' /\ Stale'
  <2>1. Live'
      BY <1>2, <1>7, <1>10 DEF Live
  <2> QED BY <1>2, <1>6, <1>7, <2>1 DEF Orderly, Led, Stale
<1>11. CASE Unacknowledged(k) /\ ackers' = [ackers EXCEPT ![n] = Adopting(this[k])]
  <2>1. ackers'[n].st = "adopting" /\ ackers'[n].item = this[k]
      BY <1>11 DEF Orderly, IInv, TypeOK, Adopting
  <2>2. \A j \in Slots : Unacknowledged(j) => this[k] <= this[j]
      BY <1>1, <1>11, FirstIsLeast
  <2>3. \E c \in Slots :
            /\ Unacknowledged(c)' /\ this'[c] = ackers'[n].item
            /\ \A j \in Slots : Unacknowledged(j)' => this'[c] <= this'[j]
      BY <1>2, <1>6, <1>8, <1>11, <2>1, <2>2
  <2>4. Sought'
      BY <1>2, <1>7, <1>9, <2>1, <2>3 DEF Sought, Looking, Searching
  <2>5. Searching(n)'
      BY <2>1 DEF Searching
  <2> QED BY <1>5, <1>6, <1>10, <2>4, <2>5
<1>12. ASSUME ~Unacknowledged(k), i < Window, ackers' = [ackers EXCEPT ![n] = Scanning(i + 1)]
       PROVE  Led' /\ Stale' /\ Sought'
  <2>1. ackers'[n].st = "scanning" /\ ackers'[n].at = i + 1
      BY <1>12 DEF Orderly, IInv, TypeOK, Scanning
  <2>2. \A j \in 1 .. i - 1 : Unacknowledged(After(n, j)) => Newcomer(After(n, j))
      BY <1>1 DEF Orderly, Sought
  <2>3. ASSUME NEW j \in 1 .. i, Unacknowledged(After(n, j))'
        PROVE  Newcomer(After(n, j))'
    <3>1. After(n, j) \in Slots /\ After(n, j)' = After(n, j)
        BY <1>8, SlotAfter DEF After, modulus
    <3> DEFINE c == After(n, j)
    <3>2. Unacknowledged(c)
      <4> HIDE DEF c
      <4>1. Unacknowledged(c)'
          BY <2>3, <3>1 DEF c
      <4> QED BY <1>6, <3>1, <4>1 DEF c
    <3>3. j # i
        BY <1>12, <3>2
    <3>4. Newcomer(c)
        BY <1>8, <2>2, <3>2, <3>3
    <3>5. Newcomer(c)'
      <4> HIDE DEF c
      <4> QED BY <1>2, <3>1, <3>4 DEF Newcomer, c
    <3> QED BY <3>5
  <2>4. Searching(n)'
      BY <2>1 DEF Searching
  <2>5. \A j \in 1 .. (i + 1) - 1 : Unacknowledged(After(n, j))' => Newcomer(After(n, j))'
      BY <1>8, <2>3
  <2>6. Sought'
      BY <1>2, <1>7, <1>9, <2>1, <2>5 DEF Sought, Looking, Searching
  <2> QED BY <1>10, <2>4, <2>6
<1>13. ASSUME ~Unacknowledged(k), ~(i < Window), ackers' = [ackers EXCEPT ![n] = Popping]
       PROVE  Led' /\ Stale' /\ Sought'
  <2>1. \A m \in Numbers : ~Looking(m)' /\ ~Searching(m)'
    <3>1. ~Looking(n)' /\ ~Searching(n)'
        BY <1>13 DEF Looking, Searching, Popping, Orderly, IInv, TypeOK
    <3> QED BY <1>4, <3>1
  <2>2. Sought'
      BY <2>1 DEF Sought, Looking, Searching
  <2>3. ~Live'
      BY <1>2, <1>7, <2>1 DEF Live
  <2>4. ASSUME NEW c \in Slots, Unacknowledged(c)
        PROVE  (this[c] % Window) + seqNum <= this[c] + Window
    <3> DEFINE d == this[c] - n
    <3>1. d \in 1 .. Window - 1 /\ c = After(n, d) /\ this[c] \in Numbers
        BY <1>1, <2>4, BehindOldest
    <3>2. Newcomer(c)
        BY <1>1, <1>8, <1>13, <2>4, <3>1 DEF Orderly, Sought
    <3>3. this[c] \in Nat /\ this[c] + 1 = seqNum
        BY <3>1, <3>2, NumberFacts DEF Newcomer
    <3>4. (this[c] % Window) \in 0 .. Window - 1
        BY <1>8, <3>3, ModRange
    <3> QED BY <1>8, <3>3, <3>4
  <2>5. Led' /\ Stale'
      BY <1>2, <1>6, <2>3, <2>4 DEF Led, Stale
  <2> QED BY <2>2, <2>5
<1> QED BY <1>5, <1>6, <1>11, <1>12, <1>13 DEF Scan

LEMMA WindowAdopt ==
    ASSUME Orderly, NEW n \in Numbers, Adopt(n)
    PROVE  Alone' /\ Placed' /\ Led' /\ Stale' /\ Sought'
<1> DEFINE item == ackers[n].item
<1>1. Looking(n)
    BY DEF Adopt, Looking
<1>2. UNCHANGED <<seqNum, this, acknowledged, handed>> /\ oldestUnack' = item
    BY DEF Adopt
<1>3. \A m \in Numbers : m # n => ackers'[m] = ackers[m] /\ ~Looking(m)
    BY <1>1 DEF Orderly, Alone, IInv, TypeOK, Adopt
<1>4. \A m \in Numbers : ~Looking(m)' /\ ~Searching(m)'
  <2>1. ~Looking(n)'
      BY DEF Looking, Adopt, Popping, Orderly, IInv, TypeOK
  <2> QED BY <1>3, <2>1 DEF Looking, Searching
<1>5. Alone' /\ Sought'
    BY <1>4 DEF Alone, Sought, Looking, Searching
<1>6. PICK k \in Slots : /\ Unacknowledged(k) /\ this[k] = item
                         /\ \A j \in Slots : Unacknowledged(j) => this[k] <= this[j]
    BY DEF Orderly, Sought, Adopt
<1>7. /\ item \in Numbers /\ item # Nil /\ item < seqNum /\ item # handed /\ k = modulus(item)
      /\ item \notin acknowledged
    BY <1>6, ItemFacts DEF Unacknowledged, Orderly
<1>8. \A j \in Slots : Unacknowledged(j)' = Unacknowledged(j)
    BY <1>2 DEF Unacknowledged
<1>9. Placed'
  <2>1. this[modulus(item)] = item
      BY <1>6, <1>7
  <2>2. (this[modulus(oldestUnack)] = oldestUnack)'
      BY <1>2, <2>1 DEF modulus
  <2> HIDE DEF item
  <2> QED BY <1>2, <1>7, <2>2 DEF Orderly, Placed
<1>10. Live' /\ seqNum <= item + Window
    BY <1>2, <1>6, <1>7, Distance DEF Live
<1>11. Led' /\ Stale'
    BY <1>2, <1>6, <1>8, <1>10 DEF Led, Stale
<1> QED BY <1>5, <1>9, <1>11

\* Steps that leave the ring and those who look alone.
LEMMA WindowOther ==
    ASSUME Orderly, FrameLost \/ UNCHANGED vars \/ \E n \in Numbers : Pop(n) \/ AckTimeout(n)
    PROVE  Alone' /\ Placed' /\ Led' /\ Stale' /\ Sought'
<1>1. UNCHANGED <<seqNum, oldestUnack, this, acknowledged>> /\ handed' \in {handed, Nil}
    BY DEF FrameLost, vars, ringVars, Pop, AckTimeout
<1>2. \A m \in Numbers : ackers'[m] = ackers[m] \/ (ackers'[m] = NoAcker /\ ~Looking(m))
    BY DEF FrameLost, vars, Pop, AckTimeout, Orderly, IInv, TypeOK, Looking, Popping, Waiting
<1>3. \A m \in Numbers : (Looking(m)' <=> Looking(m)) /\ (Searching(m)' <=> Searching(m))
    BY <1>2 DEF Looking, Searching, NoAcker
<1>4. \A k \in Slots : Unacknowledged(k)' = Unacknowledged(k)
    BY <1>1 DEF Unacknowledged
<1>5. Alone'
    BY <1>3 DEF Orderly, Alone
<1>6. Placed'
    BY <1>1 DEF Orderly, Placed, modulus
<1>7. Live' <=> Live
    BY <1>1, <1>3 DEF Live
<1>8. Led' /\ Stale'
    BY <1>1, <1>4, <1>7 DEF Orderly, Led, Stale
<1>9. Sought'
  <2>1. \A m \in Numbers : ackers'[m].st \in {"resetting", "scanning", "adopting"} =>
            ackers'[m] = ackers[m]
      BY <1>2 DEF NoAcker
  <2>2. \A m \in Numbers, j \in Nat : After(m, j)' = After(m, j)
      BY DEF After, modulus
  <2>3. \A k : Newcomer(k) => Newcomer(k)'
      BY <1>1 DEF Newcomer
  <2>4. \A k : Unacknowledged(k)' <=> Unacknowledged(k)
      BY <1>1 DEF Unacknowledged
  <2> QED BY <1>1, <1>3, <2>1, <2>2, <2>3, <2>4 DEF Orderly, Sought
<1> QED BY <1>5, <1>6, <1>8, <1>9

LEMMA WindowInit == Init => WInv
<1> SUFFICES ASSUME Init PROVE WInv
    OBVIOUS
<1>1. IInv
    BY TypeInit, QuietInit DEF IInv
<1>2. \A n \in Numbers : ackers[n].st = "none"
    BY DEF Init, NoAcker
<1>3. \A n \in Numbers : ~Searching(n) /\ ~Looking(n)
    BY <1>2 DEF Looking, Searching
<1>4. \A k \in Slots : this[k] = Nil
    BY DEF Init
<1> QED BY <1>1, <1>2, <1>3, <1>4
        DEF Init, WInv, Orderly, Alone, Placed, Led, Stale, Sought, Live, Unacknowledged

LEMMA WindowStep ==
    ASSUME LastTaken < Modulus - 2, WInv, [Next]_vars
    PROVE  WInv'
<1>1. IInv'
    BY QuietStep DEF WInv
<1> SUFFICES ASSUME apart' PROVE Orderly'
    BY <1>1 DEF WInv
<1>2. Orderly
  <2>1. apart
      BY DEF Next, WriterNext, AckerNext, TakeNumber, setNextItem, FrameLost, Acknowledge, Reset,
             Scan, Adopt, Pop, AckTimeout, vars, StaysApart
  <2> QED BY <2>1 DEF WInv
<1>3. CASE TakeNumber
  <2>1. \A n \in Numbers : ~Looking(n)
      BY <1>3 DEF TakeNumber, StaysApart
  <2> QED BY <1>1, <1>2, <1>3, <2>1, WindowTake DEF Orderly
<1>4. CASE setNextItem
    BY <1>1, <1>2, <1>4, WindowRecord DEF Orderly
<1>5. ASSUME NEW n \in Numbers, Acknowledge(n) PROVE Orderly'
  <2>1. \A m \in Numbers : ~Looking(m)
      BY <1>5 DEF Acknowledge, StaysApart
  <2> QED BY <1>1, <1>2, <1>5, <2>1, WindowAcknowledge DEF Orderly
<1>6. ASSUME NEW n \in Numbers, Reset(n) \/ Scan(n) \/ Adopt(n) PROVE Orderly'
    BY <1>1, <1>2, <1>6, WindowReset, WindowScan, WindowAdopt DEF Orderly
<1>7. CASE FrameLost \/ UNCHANGED vars \/ \E n \in Numbers : Pop(n) \/ AckTimeout(n)
    BY <1>1, <1>2, <1>7, WindowOther DEF Orderly
<1> QED BY <1>3, <1>4, <1>5, <1>6, <1>7 DEF Next, WriterNext, AckerNext

LEMMA WindowInductive ==
    ASSUME LastTaken < Modulus - 2
    PROVE  Spec => []WInv
<1>1. WInv /\ [Next]_vars => WInv'
    BY WindowStep
<1> QED BY <1>1, WindowInit, PTL DEF Spec

\* The oldest frame that windowFull counts from (src/ringbuffer.go:76) is never a
\* later one than another outstanding one, with the writer and the goroutines of
\* the acknowledgements in any order, up to the first nextSeqNum or updateAckSeqNum
\* that comes in the middle of an updateAckSeqNum, and until the numbers wrap.
THEOREM OldestFirst ==
    ASSUME LastTaken < Modulus - 2
    PROVE  Spec => []OldestLeads
<1>1. WInv => OldestLeads
  <2> SUFFICES ASSUME WInv, apart, oldestUnack \in Outstanding, NEW n \in Outstanding
               PROVE  oldestUnack <= n
      BY DEF OldestLeads
  <2>1. PICK k \in Slots : Unacknowledged(k) /\ this[k] = n
      BY DEF Outstanding
  <2>2. PICK j \in Slots : Unacknowledged(j) /\ this[j] = oldestUnack
      BY DEF Outstanding
  <2>3. Live
      BY <2>2 DEF Live, Unacknowledged
  <2> QED BY <2>1, <2>3 DEF WInv, Orderly, Led
<1> QED BY <1>1, WindowInductive, PTL

-----------------------------------------------------------------------------
(* The ring implements SendWindow.                                         *)

\* Frames in a set of slots are no more than the slots.
LEMMA FramesOfSlots ==
    ASSUME IInv, NEW S \in SUBSET Slots
    PROVE  LET F == {this[k] : k \in {s \in S : Unacknowledged(s)}}
           IN  IsFiniteSet(F) /\ Cardinality(F) <= Cardinality(S)
<1> DEFINE F == {this[k] : k \in {s \in S : Unacknowledged(s)}}
           g == [m \in F |-> modulus(m)]
<1>1. IsFiniteSet(Slots)
    BY WindowAssumption, FS_Interval DEF Slots
<1>2. IsFiniteSet(S)
    BY <1>1, FS_Subset
<1>3. \A m \in F : modulus(m) \in S /\ this[modulus(m)] = m
    BY ItemFacts DEF Unacknowledged
<1> HIDE DEF F
<1>4. g \in [F -> S] /\ \A a, b \in F : g[a] = g[b] => a = b
    BY <1>3
<1>5. g \in Injection(F, S)
    BY <1>4 DEF Injection, IsInjective
<1> QED BY <1>2, <1>5, FS_Injection DEF F

LEMMA KeepsRecord ==
    ASSUME WInv, setNextItem
    PROVE  Frames!Record(handed)
<1>1. handed \in Numbers /\ handed # Nil /\ IInv /\ handed \notin Outstanding
  <2>1. handed \in Numbers /\ handed # Nil /\ IInv
      BY DEF WInv, IInv, TypeOK, setNextItem
  <2> QED BY <2>1, ItemFacts DEF Outstanding, Unacknowledged
<1>2. PICK h \in Slots : h = modulus(handed)
    BY <1>1, SlotOfNumber
<1> DEFINE O == {this[k] : k \in {s \in Slots \ {h} : Unacknowledged(s)}}
<1>3. \A k \in Slots : this'[k] = IF k = h THEN handed ELSE this[k]
    BY <1>2 DEF WInv, IInv, TypeOK, setNextItem
<1>4. acknowledged' = acknowledged \ {handed} /\ apart' = apart
    BY DEF setNextItem
<1>5. Unacknowledged(h)' /\ this'[h] = handed
    BY <1>1, <1>2, <1>3, <1>4 DEF Unacknowledged
<1>6. \A k \in Slots \ {h} : this'[k] = this[k] /\ (Unacknowledged(k)' <=> Unacknowledged(k))
  <2>1. \A k \in Slots : this[k] # Nil => this[k] # handed
      BY <1>1, ItemFacts
  <2> QED BY <1>3, <1>4, <2>1 DEF Unacknowledged
<1>7. Outstanding' = O \cup {handed}
    BY <1>2, <1>5, <1>6 DEF Outstanding
<1>8. Window \in Nat \ {0}
    BY WindowAssumption
<1>9. IsFiniteSet(O) /\ Cardinality(O) < Window /\ Cardinality(O) \in Nat
  <2>1. IsFiniteSet(Slots) /\ Cardinality(Slots) = Window
      BY <1>8, FS_Interval DEF Slots
  <2>2. Cardinality(Slots \ {h}) = Window - 1
      BY <1>2, <2>1, FS_RemoveElement
  <2>3. IsFiniteSet(O) /\ Cardinality(O) <= Window - 1
      BY <1>1, <2>2, FramesOfSlots
  <2> QED BY <1>8, <2>3, FS_CardinalityType
<1>10. CASE ~Unacknowledged(h)
  <2>1. Outstanding = O
      BY <1>10 DEF Outstanding
  <2>2. Frames!Cardinality(Outstanding) = Cardinality(Outstanding)
      BY DEF Frames!Cardinality, Cardinality
  <2> QED BY <1>1, <1>4, <1>7, <1>9, <2>1, <2>2 DEF Frames!Record
<1>11. CASE Unacknowledged(h)
  <2>1. ~apart
      BY <1>1, <1>2, <1>11, Room DEF WInv
  <2>2. this[h] \in Outstanding /\ this[h] \notin O
    <3>1. \A k \in Slots : this[k] # Nil => k = modulus(this[k])
        BY <1>1, ItemFacts
    <3> QED BY <1>2, <1>11, <3>1 DEF Outstanding, Unacknowledged
  <2>3. Outstanding \ {this[h]} = O
      BY <1>2, <1>11, <2>2 DEF Outstanding
  <2> QED BY <1>1, <1>4, <1>7, <2>1, <2>2, <2>3 DEF Frames!Record
<1> QED BY <1>10, <1>11

LEMMA KeepsReset ==
    ASSUME IInv, NEW n \in Numbers, Reset(n)
    PROVE  [Frames!Confirm(n)]_<<Outstanding, apart>>
<1>1. UNCHANGED <<this, apart>> /\ acknowledged' = acknowledged \cup {n}
    BY DEF Reset
<1>2. \A k \in Slots : Unacknowledged(k)' <=> Unacknowledged(k) /\ this[k] # n
    BY <1>1 DEF Unacknowledged
<1>3. Outstanding' = Outstanding \ {n}
    BY <1>1, <1>2 DEF Outstanding
<1> QED BY <1>1, <1>3 DEF Frames!Confirm

LEMMA KeepsStep ==
    ASSUME WInv, [Next]_vars
    PROVE  [Frames!Next]_Frames!vars
<1>1. CASE setNextItem
  <2>1. handed \in Numbers
      BY <1>1 DEF WInv, IInv, TypeOK, setNextItem
  <2> QED BY <1>1, <2>1, KeepsRecord DEF Frames!Next
<1>2. ASSUME NEW n \in Numbers, Reset(n) PROVE [Frames!Next]_Frames!vars
    BY <1>2, KeepsReset DEF Frames!Next, Frames!vars, WInv
<1>3. CASE UNCHANGED <<this, acknowledged>> /\ apart' \in {apart, FALSE}
  <2>1. Outstanding' = Outstanding
      BY <1>3 DEF Outstanding, Unacknowledged
  <2> QED BY <1>3, <2>1 DEF Frames!Next, Frames!Disturb, Frames!vars
<1>4. ASSUME TakeNumber \/ FrameLost \/ UNCHANGED vars
             \/ \E n \in Numbers : Acknowledge(n) \/ Scan(n) \/ Adopt(n) \/ Pop(n) \/ AckTimeout(n)
      PROVE  UNCHANGED <<this, acknowledged>> /\ apart' \in {apart, FALSE}
  <2>1. apart \in BOOLEAN
      BY DEF WInv, IInv, TypeOK
  <2> QED BY <1>4, <2>1 DEF TakeNumber, FrameLost, Acknowledge, Scan, Adopt, Pop, AckTimeout, vars,
                            ringVars, StaysApart
<1> QED BY <1>1, <1>2, <1>3, <1>4 DEF Next, WriterNext, AckerNext

\* However the calls of the writer and of the acknowledgements overlap, for any
\* window: at most Window frames are unacknowledged and updateAckSeqNum
\* (src/ringbuffer.go:138) confirms no other frame than its own; and a frame stays
\* in the ring until its own acknowledgement, unless a nextSeqNum or updateAckSeqNum
\* came in the middle of an updateAckSeqNum before.  Until the numbers wrap.
THEOREM WindowKept ==
    ASSUME LastTaken < Modulus - 2
    PROVE  Spec => KeepsWindow
<1>1. Init => Frames!Init
    BY DEF Init, Frames!Init, Outstanding, Unacknowledged
<1>2. WInv /\ [Next]_vars => [Frames!Next]_Frames!vars
    BY KeepsStep
<1> QED BY <1>1, <1>2, WindowInductive, PTL DEF Spec, KeepsWindow, Frames!Spec

=============================================================================
