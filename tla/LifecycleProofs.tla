-------------------------- MODULE LifecycleProofs --------------------------
(***************************************************************************)
(* Theorems about Lifecycle, for any clients and any bounds and step of    *)
(* the buffer of events.                                                   *)
(***************************************************************************)
EXTENDS Lifecycle, TLAPS

LEMMA LoopTypes == ASSUME TypeOK, LoopNext PROVE TypeOK'
<1>1. CASE BeginLoop
    BY <1>1 DEF TypeOK, BeginLoop, Begin, bufVars
<1>2. CASE Check
    BY <1>2 DEF TypeOK, Check, bufVars
<1>3. CASE Take
  <2>1. client' \in [Clients -> {"idle", "nil", "send", "queued", "parked"}]
      BY <1>3 DEF TypeOK, Take, Become
  <2>2. Len(slot') <= 1
      BY <1>3 DEF Take
  <2> QED BY <1>3, <2>1, <2>2 DEF TypeOK, Take, bufVars
<1>4. CASE Shutdown
    BY <1>4 DEF TypeOK, Shutdown, bufVars
<1> QED BY <1>1, <1>2, <1>3, <1>4 DEF LoopNext

\* The sizes that resize may choose.
LEMMA SizesStay ==
    ASSUME size \in MinEvents .. MaxEvents
    PROVE  /\ Grown \in MinEvents .. MaxEvents /\ Grown >= size
           /\ Shrunk \in MinEvents .. MaxEvents /\ Shrunk <= size
BY SizesAssumption DEF Grown, Shrunk, Smaller, Larger

LEMMA ResizeTypes ==
    ASSUME TypeOK, NEW n \in Nat, Resize(n)
    PROVE  size' \in MinEvents .. MaxEvents /\ since' \in 0 .. 3
<1>1. size' \in MinEvents .. MaxEvents
    BY SizesStay DEF Resize, TypeOK
<1>2. since' \in 0 .. 3
    BY DEF Resize, TypeOK, Since, Smaller
<1> QED BY <1>1, <1>2

LEMMA WaiterTypes == ASSUME TypeOK, Wait \/ Wake \/ Post PROVE TypeOK'
<1>1. CASE Wait
    BY <1>1, SizesAssumption DEF TypeOK, Wait, WaitStep, bufVars
<1>2. CASE Wake
    BY <1>2, SizesAssumption DEF TypeOK, Wake, Armed, bufVars
<1>3. CASE Post
  <2>1. Len(slot') <= 1
      BY <1>3 DEF Post
  <2>2. size' \in MinEvents .. MaxEvents /\ since' \in 0 .. 3
    <3>1. CASE count = -1
        BY <1>3, <3>1 DEF Post, TypeOK, bufVars
    <3>2. CASE count # -1
        BY <1>3, <3>2, ResizeTypes, SizesAssumption DEF Post, TypeOK
    <3> QED BY <3>1, <3>2
  <2>3. count' \in -1 .. size'
      BY <1>3, <2>2, SizesAssumption DEF Post
  <2>4. waiter' \in {"gone", "check"}
      BY <1>3 DEF Post
  <2>5. named' = {}
      BY <1>3 DEF Post
  <2> QED BY <1>3, <2>1, <2>2, <2>3, <2>4, <2>5 DEF TypeOK, Post
<1> QED BY <1>1, <1>2, <1>3

LEMMA OutsideTypes ==
    ASSUME TypeOK, Stop \/ StopSend \/ \E c \in Clients : Submit(c) \/ Send(c)
    PROVE  TypeOK'
<1>1. CASE Stop
    BY <1>1 DEF TypeOK, Stop, bufVars
<1>2. CASE StopSend
  <2>1. Len(slot') <= 1
    <3>1. CASE UNCHANGED slot
        BY <3>1 DEF TypeOK
    <3>2. CASE slot' = <<Item("empty", {})>>
        BY <3>2
    <3> QED BY <1>2, <3>1, <3>2 DEF StopSend, StopWakes
  <2> QED BY <1>2, <2>1 DEF TypeOK, StopSend, StopWakes, bufVars
<1>3. CASE \E c \in Clients : Submit(c)
    BY <1>3 DEF TypeOK, Submit, bufVars
<1>4. CASE \E c \in Clients : Send(c)
  <2>1. Len(slot') <= 1
      BY <1>4 DEF Send
  <2>2. client' \in [Clients -> {"idle", "nil", "send", "queued", "parked"}]
      BY <1>4 DEF Send, TypeOK
  <2> QED BY <1>4, <2>1, <2>2 DEF TypeOK, Send, bufVars
<1> QED BY <1>1, <1>2, <1>3, <1>4

LEMMA TypeInit == ASSUME Init PROVE TypeOK
<1>1. size \in MinEvents .. MaxEvents /\ count \in -1 .. size
    BY SizesAssumption DEF Init
<1>2. Len(slot) <= 1
    BY DEF Init
<1>3. client \in [Clients -> {"idle", "nil", "send", "queued", "parked"}] /\ since \in 0 .. 3
    BY DEF Init
<1> QED BY <1>1, <1>2, <1>3 DEF Init, TypeOK

LEMMA TypeStep == ASSUME TypeOK, [Next]_vars PROVE TypeOK'
<1>1. CASE UNCHANGED vars
    BY <1>1 DEF TypeOK, vars, bufVars
<1>2. CASE LoopNext
    BY <1>2, LoopTypes
<1>3. CASE Wait \/ Wake \/ Post
    BY <1>3, WaiterTypes
<1>4. CASE Stop \/ StopSend \/ \E c \in Clients : Submit(c) \/ Send(c)
    BY <1>4, OutsideTypes
<1> QED BY <1>1, <1>2, <1>3, <1>4 DEF Next

\* The buffer of events keeps to its bounds (resize, src/epoller/poller.go:673),
\* also when the maximum is no whole number of steps from the minimum.
THEOREM TypeCorrect == Spec => []TypeOK
<1>1. Init => TypeOK
    BY TypeInit
<1>2. TypeOK /\ [Next]_vars => TypeOK'
    BY TypeStep
<1> QED BY <1>1, <1>2, PTL DEF Spec

-----------------------------------------------------------------------------
(* Resizing.  The two counts of sizeLog that were taken with the present   *)
(* size are in range, and if they are all full or all sparse the history   *)
(* knows it.                                                               *)

Latest == since >= 2 =>
    /\ sizeLog[2] \in 1 .. size
    /\ sizeLog[2] = size => streak.full >= 1
    /\ sizeLog[2] <= size - Delta => streak.sparse >= 1

Earlier == since >= 3 =>
    /\ sizeLog[1] \in 1 .. size
    /\ sizeLog[1] = size /\ sizeLog[2] = size => streak.full >= 2
    /\ sizeLog[1] <= size - Delta /\ sizeLog[2] <= size - Delta => streak.sparse >= 2
History ==
    /\ sizeLog \in Int \X Int
    /\ streak \in [full : 0 .. 3, sparse : 0 .. 3]
    /\ waiter = "post" => count \in {-1} \cup 1 .. size
    /\ Latest /\ Earlier

LEMMA HistoryInit == ASSUME Init PROVE History
BY DEF Init, History, Latest, Earlier

LEMMA HistoryResize ==
    ASSUME TypeOK, History, NEW n \in 1 .. size, Resize(n)
    PROVE  /\ sizeLog' \in Int \X Int
           /\ streak' \in [full : 0 .. 3, sparse : 0 .. 3]
           /\ Latest' /\ Earlier'
<1> DEFINE moved == size' # size
<1>1. sizeLog' = <<sizeLog[2], n>>
    BY DEF Resize
<1>2. sizeLog[2] \in Int /\ n \in Int /\ size \in Nat /\ since \in 0 .. 3
  <2>1. sizeLog[2] \in Int
      BY DEF History
  <2>2. size \in MinEvents .. MaxEvents /\ since \in 0 .. 3
      BY DEF TypeOK
  <2>3. size \in Nat
      BY <2>2, SizesAssumption
  <2>4. n \in Int
      BY <2>3
  <2> QED BY <2>1, <2>2, <2>3, <2>4
<1>3. sizeLog' \in Int \X Int /\ sizeLog'[1] = sizeLog[2]
      /\ sizeLog'[2] = n
    BY <1>1, <1>2
<1>4. CASE moved
  <2>1. since' = 1
      BY <1>4, <1>2 DEF Resize, Since, Smaller
  <2>2. streak' = [full |-> 0, sparse |-> 0]
      BY <1>4 DEF Resize
  <2> QED BY <1>3, <2>1, <2>2 DEF Latest, Earlier
<1>5. CASE ~moved
  <2>1. streak' = [full |-> IF n = size THEN Smaller(streak.full + 1, 3) ELSE 0,
                   sparse |-> IF n <= size - Delta THEN Smaller(streak.sparse + 1, 3) ELSE 0]
      BY <1>5 DEF Resize
  <2>2. since' <= since + 1
      BY <1>2 DEF Resize, Since, Smaller
  <2>3. streak.full \in 0 .. 3 /\ streak.sparse \in 0 .. 3
      BY DEF History
  <2>4. streak' \in [full : 0 .. 3, sparse : 0 .. 3]
      BY <2>1, <2>3 DEF Smaller
  <2>5. Latest'
      BY <1>2, <1>3, <1>5, <2>1, <2>3 DEF Latest, Smaller
  <2>6. ASSUME since' >= 3 PROVE since >= 2
      BY <2>2, <2>6, <1>2, ResizeTypes
  <2>7. ASSUME since >= 2
        PROVE  /\ sizeLog'[1] \in 1 .. size
               /\ sizeLog'[1] = size /\ sizeLog'[2] = size => streak'.full >= 2
               /\ sizeLog'[1] <= size - Delta /\ sizeLog'[2] <= size - Delta
                    => streak'.sparse >= 2
      BY <1>2, <1>3, <2>1, <2>3, <2>7, SizesAssumption DEF History, Latest, Smaller
  <2>8. Earlier'
      BY <1>5, <2>6, <2>7 DEF Earlier
  <2> QED BY <1>3, <2>4, <2>5, <2>8
<1> QED BY <1>4, <1>5

LEMMA HistoryStep == ASSUME TypeOK, History, [Next]_vars PROVE History'
<1>1. CASE UNCHANGED bufVars /\ (waiter' = "post" => UNCHANGED <<waiter, count>>)
    BY <1>1 DEF History, Latest, Earlier, bufVars
<1>2. CASE Wait
    BY <1>2 DEF Wait, WaitStep, History, Latest, Earlier, bufVars
<1>3. CASE Wake
    BY <1>3, SizesAssumption DEF Wake, History, Latest, Earlier, bufVars, TypeOK
<1>4. CASE Post
  <2>1. waiter' # "post"
      BY <1>4 DEF Post
  <2>2. CASE count = -1
      BY <1>4, <2>1, <2>2 DEF Post, History, Latest, Earlier, bufVars
  <2>3. CASE count # -1
    <3>1. count \in 1 .. size /\ Resize(count)
        BY <1>4, <2>3 DEF Post, History
    <3> QED BY <2>1, <3>1, HistoryResize DEF History
  <2> QED BY <2>2, <2>3
<1>5. CASE LoopNext
  <2>1. UNCHANGED bufVars /\ (waiter' = "post" => UNCHANGED <<waiter, count>>)
      BY <1>5 DEF LoopNext, BeginLoop, Begin, Check, Take, Shutdown
  <2> QED BY <1>1, <2>1
<1>6. CASE Stop \/ StopSend \/ \E c \in Clients : Submit(c) \/ Send(c)
  <2>1. UNCHANGED <<bufVars, waiter, count>>
      BY <1>6 DEF Stop, StopSend, Submit, Send
  <2> QED BY <1>1, <2>1
<1>7. CASE UNCHANGED vars
    BY <1>1, <1>7 DEF vars
<1> QED BY <1>2, <1>3, <1>4, <1>5, <1>6, <1>7 DEF Next

LEMMA EvidenceStep ==
    ASSUME TypeOK, History, [Next]_vars
    PROVE  /\ size' > size => count = size /\ streak.full >= 2
           /\ size' < size => count <= size - Delta /\ streak.sparse >= 2
<1>1. CASE Post /\ count # -1
  <2>1. count \in 1 .. size /\ Resize(count) /\ since \in 0 .. 3
      BY <1>1 DEF Post, History, TypeOK
  <2>2. ASSUME size' > size PROVE since > 2 /\ upSizable(count)
      BY <2>1, <2>2, SizesStay DEF Resize, TypeOK
  <2>3. ASSUME size' < size PROVE since > 2 /\ downSizable(count)
      BY <2>1, <2>3, SizesStay DEF Resize, TypeOK
  <2>4. ASSUME since > 2, upSizable(count) PROVE count = size /\ streak.full >= 2
      BY <2>1, <2>4, SizesAssumption DEF upSizable, Counts, History, Latest, Earlier, TypeOK
  <2>5. ASSUME since > 2, downSizable(count)
        PROVE  count <= size - Delta /\ streak.sparse >= 2
      BY <2>1, <2>5, SizesAssumption DEF downSizable, Counts, History, Latest, Earlier, TypeOK
  <2> QED BY <2>2, <2>3, <2>4, <2>5
<1>2. CASE ~(Post /\ count # -1)
  <2>1. size' = size
      BY <1>2 DEF Next, LoopNext, BeginLoop, Begin, Check, Take, Shutdown, Wait, Wake, Post,
                  Stop, StopSend, Submit, Send, bufVars, vars
  <2> QED BY <2>1 DEF TypeOK
<1> QED BY <1>1, <1>2

\* The buffer of events changes its size only on three reports in a row, all made
\* with the present size (upSizable, downSizable, src/epoller/poller.go:699-724),
\* whatever was reported before and wherever its bounds are.
THEOREM ResizingHasReasons == Spec => ResizedOnEvidence
<1> DEFINE Evidence == /\ size' > size => count = size /\ streak.full >= 2
                       /\ size' < size => count <= size - Delta /\ streak.sparse >= 2
<1>1. Init => TypeOK /\ History
    BY TypeInit, HistoryInit
<1>2. TypeOK /\ History /\ [Next]_vars => TypeOK' /\ History'
    BY TypeStep, HistoryStep
<1>3. TypeOK /\ History /\ [Next]_vars => [Evidence]_vars
    BY EvidenceStep
<1>4. QED BY <1>1, <1>2, <1>3, PTL DEF Spec, ResizedOnEvidence

=============================================================================
