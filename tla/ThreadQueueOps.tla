--------------------------- MODULE ThreadQueueOps ---------------------------
(***************************************************************************)
(* run_q, block_q and sleep_q of thread.c as sequences of thread numbers,  *)
(* head first.  The doubly linked list of the code is abstracted to the    *)
(* order of its elements: enq puts a thread at the head, deq unlinks it    *)
(* wherever it is.                                                         *)
(***************************************************************************)
EXTENDS Integers, Sequences

Queues == {"run", "block", "sleep"}

InQueue(s) == {s[i] : i \in 1..Len(s)}

NoRepeats(s) == \A i, j \in 1..Len(s) : s[i] = s[j] => i = j

IndexIn(s, t) == CHOOSE i \in 1..Len(s) : s[i] = t

\* deq
Without(s, t) ==
    IF t \notin InQueue(s) THEN s
    ELSE LET i == IndexIn(s, t) IN SubSeq(s, 1, i - 1) \o SubSeq(s, i + 1, Len(s))

\* enq
PushFront(s, t) == <<t>> \o s

\* The head of a queue, q->h; 0 stands for the null pointer.
First(s) == IF s = << >> THEN 0 ELSE s[1]

\* t->next_q of a thread t that is in the queue s.
Follower(s, t) ==
    IF t \in InQueue(s) /\ IndexIn(s, t) < Len(s) THEN s[IndexIn(s, t) + 1] ELSE 0
=============================================================================
