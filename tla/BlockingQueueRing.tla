-------------------------- MODULE BlockingQueueRing --------------------------
(***************************************************************************)
(* The circular-array implementation of blocking_queue                     *)
(* (src-shvm-agent/blockingqueue.h): qarray holds qa_size slots, first is  *)
(* the index of the head and occupied the number of elements.  Every      *)
(* operation runs under bq->mutex, so bq_push and bq_pop are single steps; *)
(* their while(...) wait loops are the enabling conditions.  The           *)
(* condition-variable broadcast only affects liveness and is not modelled. *)
(***************************************************************************)
EXTENDS Naturals, Sequences

CONSTANTS Capacity, Values, NoValue,
          Zero       \* the contents of a slot after bq_pop memsets it to 0

ASSUME Zero \notin Values

VARIABLES qarray, first, occupied, out

vars == <<qarray, first, occupied, out>>

Slots == 0 .. Capacity - 1

\* bq_create: qa_size = capacity, first = 0, occupied = 0 (slots unset)
Init == /\ qarray \in [Slots -> {Zero}]
        /\ first = 0
        /\ occupied = 0
        /\ out = NoValue

\* Variant of Push (mutant for TypeOK): waits only while
\* occupied > qa_size.
PushWaitPastFull(d) ==
    /\ ~(occupied > Capacity)
    /\ qarray' = [qarray EXCEPT ![(first + occupied) % Capacity] = d]
    /\ occupied' = occupied + 1
    /\ UNCHANGED <<first, out>>

\* Variant of Push (mutant for ImplementsBlockingQueue): writes one slot
\* past the tail.
PushPastTail(d) ==
    /\ occupied # Capacity
    /\ qarray' = [qarray EXCEPT ![(first + occupied + 1) % Capacity] = d]
    /\ occupied' = occupied + 1
    /\ UNCHANGED <<first, out>>

\* bq_push: wait while occupied == qa_size, write at
\* (first + occupied) % qa_size, ++occupied
Push(d) == /\ occupied # Capacity
           /\ qarray' = [qarray EXCEPT ![(first + occupied) % Capacity] = d]
           /\ occupied' = occupied + 1
           /\ UNCHANGED <<first, out>>

\* bq_pop: wait while occupied == 0, copy out qarray[first], zero that
\* slot, first = (first + 1) % qa_size, --occupied
Pop == /\ occupied # 0
       /\ out' = qarray[first]
       /\ qarray' = [qarray EXCEPT ![first] = Zero]
       /\ first' = (first + 1) % Capacity
       /\ occupied' = occupied - 1

Next == (\E d \in Values : Push(d)) \/ Pop

Spec == Init /\ [][Next]_vars

TypeOK == /\ qarray \in [Slots -> Values \cup {Zero}]
          /\ first \in Slots
          /\ occupied \in 0 .. Capacity
          /\ out \in Values \cup {NoValue}

\* The elements in the ring, head first: the abstract queue.
Contents == [i \in 1 .. occupied |-> qarray[(first + i - 1) % Capacity]]

Abstract == INSTANCE BlockingQueue WITH queue <- Contents

\* Refinement: every bq_push appends at the tail of the FIFO and every
\* bq_pop returns and removes its head, whatever the index arithmetic
\* of first and occupied wraps around to.
ImplementsBlockingQueue == Abstract!Spec
=============================================================================
