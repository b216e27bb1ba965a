----------------------------- MODULE QueueProofs -----------------------------
(***************************************************************************)
(* The queue between the server's threads loses no wake-up, for any number *)
(* of consumers and producers.                                             *)
(***************************************************************************)
EXTENDS QueueThreads, TLAPS

\* What push() returns: the element is last, and after it either nobody was
\* asleep, or the queue was not empty, or one consumer has been woken.
LEMMA PushOutcome ==
  ASSUME NEW q \in [items : Seq(Elements), waiting : SUBSET Consumers],
         NEW e \in Elements, NEW r \in push(q, e)
  PROVE  /\ r \in [items : Seq(Elements), waiting : SUBSET Consumers]
         /\ r.items = Append(q.items, e)
         /\ \/ r.waiting = q.waiting /\ (q.items # <<>> \/ q.waiting = {})
            \/ \E t \in q.waiting : r.waiting = q.waiting \ {t}
<1> DEFINE added == [q EXCEPT !.items = Append(@, e)]
<1>1. /\ added \in [items : Seq(Elements), waiting : SUBSET Consumers]
      /\ added.items = Append(q.items, e)
      /\ added.waiting = q.waiting
  OBVIOUS
<1>2. Len(added.items) = 1 => q.items = <<>>
  BY <1>1
<1>3. Len(added.items) # 1 => q.items # <<>>
  BY <1>1
<1>4. CASE Len(added.items) # 1
  <2>1. r = added
    BY <1>4 DEF push
  <2> QED BY <2>1, <1>1, <1>3, <1>4
<1>5. CASE Len(added.items) = 1 /\ added.waiting = {}
  <2>1. r = added
    BY <1>5 DEF push, notify_one
  <2> QED BY <2>1, <1>1, <1>5
<1>6. CASE Len(added.items) = 1 /\ added.waiting # {}
  <2>1. PICK t \in added.waiting : r = [added EXCEPT !.waiting = @ \ {t}]
    BY <1>6 DEF push, notify_one
  <2>2. /\ r \in [items : Seq(Elements), waiting : SUBSET Consumers]
        /\ r.items = added.items
        /\ r.waiting = added.waiting \ {t}
    BY <2>1, <1>1
  <2> QED BY <2>2, <1>1
<1> QED BY <1>4, <1>5, <1>6

LEMMA TypeStep == TypeOK /\ [Next]_queue => TypeOK'
<1> SUFFICES ASSUME TypeOK, [Next]_queue PROVE TypeOK'
  OBVIOUS
<1> USE DEF TypeOK
<1>1. ASSUME NEW e \in Elements, Push(e) PROVE TypeOK'
  BY <1>1, PushOutcome DEF Push
<1>2. ASSUME NEW t \in Consumers, Pop(t) PROVE TypeOK'
  <2>1. queue.items \in Seq(Elements) /\ queue.items # <<>>
    BY <1>2 DEF Pop, MayPop
  <2>2. Tail(queue.items) \in Seq(Elements)
    BY <2>1
  <2>3. queue' = [queue EXCEPT !.items = Tail(@)]
    BY <1>2 DEF Pop, pop
  <2> QED BY <2>2, <2>3
<1>3. ASSUME NEW t \in Consumers, Wait(t) PROVE TypeOK'
  BY <1>3 DEF Wait, MayWait, wait
<1>4. ASSUME NEW t \in Consumers, SpuriousWakeUp(t) PROVE TypeOK'
  BY <1>4 DEF SpuriousWakeUp, WakeUp
<1> QED BY <1>1, <1>2, <1>3, <1>4 DEF Next

\* The queue holds elements and its sleepers are consumers.
THEOREM QueueTypeCorrect == Spec => []TypeOK
<1>1. Init => TypeOK
  BY DEF Init, EmptyQueue, TypeOK
<1> QED BY <1>1, TypeStep, PTL DEF Spec

\* A consumer that may sleep only on an empty queue, and a push that wakes one
\* when it ends the emptiness, leave no element without a consumer awake.
LEMMA NoneStrandedStep ==
  ASSUME Consumers # {}, TypeOK, NoneStranded, [Next]_queue
  PROVE  NoneStranded'
<1> USE DEF TypeOK, NoneStranded
<1>1. ASSUME NEW e \in Elements, Push(e) PROVE NoneStranded'
  <2>1. \/ queue'.waiting = queue.waiting /\ (queue.items # <<>> \/ queue.waiting = {})
        \/ \E t \in queue.waiting : queue'.waiting = queue.waiting \ {t}
    BY <1>1, PushOutcome DEF Push
  <2>2. queue.waiting \subseteq Consumers
    OBVIOUS
  <2> QED BY <2>1, <2>2
<1>2. ASSUME NEW t \in Consumers, Pop(t) PROVE NoneStranded'
  BY <1>2 DEF Pop, MayPop, pop
<1>3. ASSUME NEW t \in Consumers, Wait(t) PROVE NoneStranded'
  BY <1>3 DEF Wait, MayWait, wait
<1>4. ASSUME NEW t \in Consumers, SpuriousWakeUp(t) PROVE NoneStranded'
  BY <1>4 DEF SpuriousWakeUp, WakeUp
<1> QED BY <1>1, <1>2, <1>3, <1>4 DEF Next

\* No wake-up is ever lost.
THEOREM NoWakeUpLost == ASSUME Consumers # {} PROVE Spec => []NoneStranded
<1>1. Init => NoneStranded
  BY DEF Init, EmptyQueue, NoneStranded
<1>2. TypeOK /\ NoneStranded /\ [Next]_queue => NoneStranded'
  BY NoneStrandedStep
<1> QED BY <1>1, <1>2, QueueTypeCorrect, PTL DEF Spec

=============================================================================
