----------------------------- MODULE QueueThreads -----------------------------
(***************************************************************************)
(* A Queue<T> used by any number of threads: any of them pushes, the       *)
(* Consumers pop.                                                          *)
(***************************************************************************)
EXTENDS Queue

CONSTANTS Elements,    \* what is pushed
          Consumers    \* the threads that call pop()

VARIABLE queue

Init == queue = EmptyQueue

Push(e) == queue' \in push(queue, e)

Pop(t) == MayPop(queue, t) /\ queue' = pop(queue)

Wait(t) == MayWait(queue, t) /\ queue' = wait(queue, t)

SpuriousWakeUp(t) == t \in queue.waiting /\ queue' = WakeUp(queue, t)

Next ==
  \/ \E e \in Elements : Push(e)
  \/ \E t \in Consumers : Pop(t) \/ Wait(t) \/ SpuriousWakeUp(t)

Spec == Init /\ [][Next]_queue

-----------------------------------------------------------------------------
(* Properties *)

TypeOK == queue \in [items : Seq(Elements), waiting : SUBSET Consumers]

\* No wake-up is lost: while there are elements, some consumer is awake, although
\* push() wakes one consumer only and only when the queue had been empty.
NoneStranded == queue.items # <<>> => \E t \in Consumers : t \notin queue.waiting

=============================================================================
