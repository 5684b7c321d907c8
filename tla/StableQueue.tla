---------------------------- MODULE StableQueue ----------------------------
(***************************************************************************)
(* What the run queue of smart-queue.c promises: tasks leave in the order  *)
(* of their times, and tasks with the same time in the order they came;    *)
(* any task may be taken out.                                              *)
(***************************************************************************)
EXTENDS Integers, Sequences, SequencesExt

CONSTANTS Tasks, Times

VARIABLES queue,  \* the tasks in the order in which they will leave
          time    \* the time of every task

queueVars == <<queue, time>>

\* How many queued tasks a new one with time t stays behind.
Before(t) == Len(SelectSeq(queue, LAMBDA x : time[x] <= t))

Init == queue = <<>> /\ time \in [Tasks -> Times]

Put(x, t) ==
  /\ time' = [time EXCEPT ![x] = t]
  /\ queue' = InsertAt(queue, Before(t) + 1, x)

Take == UNCHANGED time /\ queue # <<>> /\ queue' = Tail(queue)

TakeOut(i) == UNCHANGED time /\ queue' = RemoveAt(queue, i)

Next ==
  \/ Take
  \/ \E i \in DOMAIN queue : TakeOut(i)
  \/ \E x \in Tasks \ ToSet(queue), t \in Times : Put(x, t)

Spec == Init /\ [][Next]_queueVars
=============================================================================
