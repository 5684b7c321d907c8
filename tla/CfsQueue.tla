------------------------------ MODULE CfsQueue ------------------------------
(***************************************************************************)
(* The CFS run queue of smart-queue.c: a red-black tree of tasks by time   *)
(* and a cache of its leftmost node, which cfs_queue maintains and         *)
(* cfs_dequeue drops.                                                      *)
(***************************************************************************)
EXTENDS RbTree

CONSTANT Times  \* values of a task's t

VARIABLES tree,      \* rq->tasks_timeline
          leftmost,  \* rq->rb_leftmost
          time       \* the t of every task

vars == <<tree, leftmost, time>>

Init ==
  /\ tree = EmptyTree
  /\ leftmost = Nil
  /\ time = [n \in Nodes |-> 0]

Queued == Reachable(tree)

GoesLeft(t, n) == t < time[n]

\* Where the descent ends: the parent, the side, and whether it only went left.
RECURSIVE Descend(_, _, _)
Descend(t, n, onlyLeft) ==
  LET d == IF GoesLeft(t, n) THEN "left" ELSE "right"
      left == onlyLeft /\ d = "left"
  IN IF tree.child[d][n] = Nil THEN [parent |-> n, side |-> d, leftmost |-> left]
     ELSE Descend(t, tree.child[d][n], left)

Place(t) == IF tree.root = Nil THEN [parent |-> Nil, side |-> "left", leftmost |-> TRUE]
            ELSE Descend(t, tree.root, TRUE)

\* The cache after n was placed.
LeftmostAfter(n, at) == IF at.leftmost THEN n ELSE leftmost

\* The callers queue tasks that are not queued.
CfsQueueTask(n, t) ==
  /\ LET at == Place(t)
     IN /\ leftmost' = LeftmostAfter(n, at)
        /\ tree' = Link(tree, n, at.parent, at.side)
  /\ time' = [time EXCEPT ![n] = t]

\* first_fair
FirstFair == IF leftmost # Nil THEN leftmost ELSE End(tree, "left")

\* __dequeue_task_fair, for any queued task
DequeueTaskFair(n) ==
  /\ leftmost' = IF leftmost = n THEN Nil ELSE leftmost
  /\ tree' = Erase(tree, n)
  /\ UNCHANGED time

CfsDequeue == FirstFair # Nil /\ DequeueTaskFair(FirstFair)

\* cfs_test only takes the first task; the queue lets any of them go.
Next ==
  \/ CfsDequeue
  \/ \E n \in Nodes \ Queued, t \in Times : CfsQueueTask(n, t)
  \/ \E n \in Queued : DequeueTaskFair(n)

Spec == Init /\ [][Next]_vars

-----------------------------------------------------------------------------
(* Properties *)

\* rb_insert_color and rb_erase keep the tree a red-black tree, which rb_first,
\* rb_next and their mirror images walk in its order.
Balanced == IsRedBlack(tree) /\ Walked(tree)

\* "Nodes with the same key stay together": the tree is the stable queue.
Stable == INSTANCE StableQueue WITH
            Tasks <- Nodes, Times <- Times \cup {0},
            queue <- InOrder(tree, tree.root)

=============================================================================
