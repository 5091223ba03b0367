------------------------------- MODULE Queues -------------------------------
(***************************************************************************)
(* The queues of outgoing compounds, one per receiver (helper/Queues.cpp), *)
(* as operators on a function from receivers to sequences of compounds.    *)
(* Every compound counts for one in the size of a queue, and the queues    *)
(* are not emptied at start-up (deleteQueues is off by default).           *)
(***************************************************************************)
EXTENDS Integers, Sequences, SequencesExt

CONSTANTS
    Receivers,      \* addresses with a queue, in the order of the std::map
    Compounds,
    Dest,           \* the receiver of every compound
    QueueSize       \* maxSize

NoReceiver == 0     \* the default UnicastAddress(), smaller than any other

ASSUME ReceiversAssumption ==
    /\ Receivers \subseteq Nat \ {NoReceiver}
    /\ Dest \in [Compounds -> Receivers]
    /\ QueueSize \in Nat \ {0}

Least(S) == CHOOSE r \in S : \A s \in S : r <= s

isAccepting(queues, c) == Len(queues[Dest[c]]) + 1 <= QueueSize

put(queues, c) == [queues EXCEPT ![Dest[c]] = Append(@, c)]

\* Inserts the compounds of a buffer, the last one first, and in spite of its
\* name at the back of the queue.
putFront(queues, r, pdus) == [queues EXCEPT ![r] = @ \o Reverse(pdus)]

queueHasPDUs(queues, r) == r \in Receivers /\ queues[r] # <<>>

\* The next receiver with compounds after the given one, in a circle.
changePCAreceiver(queues, r) ==
    LET withPDUs == {s \in Receivers : queueHasPDUs(queues, s)}
        later == {s \in withPDUs : s > r}
    IN  IF later # {} THEN Least(later)
        ELSE IF withPDUs # {} THEN Least(withPDUs) ELSE NoReceiver

getNextPCAReceiver(queues, r) ==
    IF queueHasPDUs(queues, r) THEN r ELSE changePCAreceiver(queues, r)
=============================================================================
