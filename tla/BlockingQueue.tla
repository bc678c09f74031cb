---------------------------- MODULE BlockingQueue ----------------------------
(***************************************************************************)
(* What a blocking_queue (src-shvm-agent/blockingqueue.h) promises: a FIFO *)
(* of at most Capacity elements.  bq_push waits while the queue is full,   *)
(* bq_pop waits while it is empty; both run under the queue's mutex, so    *)
(* each is one atomic step once it may proceed.  A waiting caller is an    *)
(* action that is not enabled.  out is the element the last pop returned.  *)
(***************************************************************************)
EXTENDS Naturals, Sequences

CONSTANTS Capacity,  \* qa_size, the queue_capacity given to bq_create
          Values,    \* the elements pushed (process_buffs pointers)
          NoValue    \* what out holds before the first pop

ASSUME Capacity \in Nat \ {0} /\ NoValue \notin Values

VARIABLES queue, out

vars == <<queue, out>>

Init == queue = <<>> /\ out = NoValue

\* bq_push: block while full, then append at the tail
Push(d) == /\ Len(queue) < Capacity
           /\ queue' = Append(queue, d)
           /\ UNCHANGED out

\* bq_pop: block while empty, then take the head
Pop == /\ queue # <<>>
       /\ out' = Head(queue)
       /\ queue' = Tail(queue)

Next == (\E d \in Values : Push(d)) \/ Pop

Spec == Init /\ [][Next]_vars
=============================================================================
