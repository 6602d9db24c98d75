------------------------------ MODULE MCConn ------------------------------
(* Instances of Conn for TLC. *)
EXTENDS Conn

ReadOf(sizes) == {Event("READ1", k) : k \in sizes}
Write == {Event("WRITE1", 0)}
Deadline == {Event("DEADLINE", 0)}
Close == {Event("CLOSING", 0)}

None == [kind \in Kinds |-> 0]
One(k) == [None EXCEPT ![k] = 1]

\* The first frame of an end has three bytes, the next ones two, like a header.
Plan(readsD, writesD, readsL, writesL, faulty) ==
    [calls |-> [e \in Ends |-> IF e = "dialer" THEN [R |-> readsD, W |-> writesD]
                                               ELSE [R |-> readsL, W |-> writesL]],
     size |-> [e \in Ends |->
                [n \in 1 .. Len(IF e = "dialer" THEN writesD ELSE writesL) |->
                    IF n = 1 THEN 3 ELSE 2]],
     faults |-> faulty]

\* One end sends while the other reads in pieces, and one thing fails.
Lossy(k) == Plan(<<>>, <<Write, Write>>, <<ReadOf({1}) \cup Deadline, ReadOf({1, 3})>>,
                 <<>>, One(k))

\* More frames than the buffer has room for, then Close.
Filling == Plan(<<>>, <<Write, Write, Write \cup Close>>,
                <<ReadOf({1, 2}), ReadOf({1, 3}), ReadOf({1})>>, <<>>, None)

\* Both ends send and read.
BothWays == Plan(<<ReadOf({3})>>, <<Write>>, <<ReadOf({3})>>, <<Deadline, Write>>, None)

NothingLost == {Filling}
AllPlans == {Lossy(k) : k \in Kinds} \cup {Filling, BothWays}

=============================================================================
