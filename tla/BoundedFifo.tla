---------------------------- MODULE BoundedFifo ----------------------------
(***************************************************************************)
(* What a UART buffer promises to the code around it: a first-in first-out *)
(* queue of at most N words that can be pushed, popped, or both in the     *)
(* same clock, and emptied.  IOBuf is shown to implement it.               *)
(***************************************************************************)
EXTENDS Naturals, Sequences

CONSTANTS N,      \* capacity
          Data    \* the words

VARIABLE queue

Init == queue = <<>>

Push(d) == /\ Len(queue) < N
           /\ queue' = Append(queue, d)

Pop == /\ Len(queue) > 0
       /\ queue' = Tail(queue)

PopPush(d) == /\ Len(queue) > 0
              /\ Len(queue) < N
              /\ queue' = Append(Tail(queue), d)

Empty == queue' = <<>>

Next == \/ Pop
        \/ Empty
        \/ \E d \in Data : Push(d) \/ PopPush(d)

Spec == Init /\ [][Next]_queue
=============================================================================
