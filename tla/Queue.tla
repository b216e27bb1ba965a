-------------------------------- MODULE Queue --------------------------------
(***************************************************************************)
(* class Queue<T> of the server: a std::queue, a mutex and the condition   *)
(* variable emptyQueue.  A queue is the record of its elements and of the  *)
(* threads asleep in emptyQueue.wait().  Everything between taking and     *)
(* releasing the mutex is one operation.                                   *)
(***************************************************************************)
EXTENDS Integers, Sequences

EmptyQueue == [items |-> <<>>, waiting |-> {}]

\* notify_one() wakes one of the threads that sleep, if any does.
notify_one(q) ==
  IF q.waiting = {} THEN {q}
  ELSE {[q EXCEPT !.waiting = @ \ {t}] : t \in q.waiting}

\* Fault: the one that ends an empty queue does not.
pushToMany(q, e) ==
  LET added == [q EXCEPT !.items = Append(@, e)] IN
  IF Len(added.items) > 1 THEN notify_one(added) ELSE {added}

\* push(), as the set of its outcomes: only the element that ends an empty queue
\* wakes anybody.
push(q, e) ==
  LET added == [q EXCEPT !.items = Append(@, e)] IN
  IF Len(added.items) = 1 THEN notify_one(added) ELSE {added}

\* pop() by thread t, which finds an element, ...
MayPop(q, t) == t \notin q.waiting /\ q.items # <<>>
front(q) == Head(q.items)

pop(q) == [q EXCEPT !.items = Tail(@)]

\* ... or goes to sleep.
MayWait(q, t) == t \notin q.waiting /\ q.items = <<>>
wait(q, t) == [q EXCEPT !.waiting = @ \cup {t}]

\* wait() returns although nobody called notify_one().
WakeUp(q, t) == [q EXCEPT !.waiting = @ \ {t}]

=============================================================================
