---------------------------- MODULE MCSmartQueue ----------------------------
(***************************************************************************)
(* smart-queue.c as TLC checks it.  main tests the CFS run queue (cfs_test) *)
(* and the timed ring (tr_test), which share no state: queue says which    *)
(* one is in use, and the other stays as it was initialised.               *)
(*                                                                         *)
(* States are taken up to the names of the tasks: two states of the tree   *)
(* are the same if it has the same shape, colours and times and the cache  *)
(* points to the same place, and tasks of the ring are interchangeable.    *)
(***************************************************************************)
EXTENDS TimedRing, TLC

CONSTANTS Nodes, Times, Nil

VARIABLES queue, tree, leftmost, ctime

Cfs == INSTANCE CfsQueue WITH time <- ctime

ring == <<caller, ibase, tbase, tsks, map, time, todo, left, base, due, taken,
          exact, moved>>
cfs == <<tree, leftmost, ctime>>

MCInit ==
  /\ queue \in {"cfs", "ring"}
  /\ Cfs!Init
  /\ Init /\ (queue = "cfs" => caller = "tr_test")

MCNext ==
  /\ UNCHANGED queue
  /\ \/ queue = "cfs" /\ Cfs!Next /\ UNCHANGED ring
     \/ queue = "ring" /\ Next /\ UNCHANGED cfs

MCSpec == MCInit /\ [][MCNext]_<<queue, ring, cfs>>

RECURSIVE Shape(_)
Shape(n) ==
  IF n = Nil THEN <<>>
  ELSE <<tree.color[n], ctime[n], n = leftmost,
         Shape(tree.child["left"][n]), Shape(tree.child["right"][n])>>

UpToNames == IF queue = "cfs" THEN <<Shape(tree.root), leftmost = Nil>> ELSE ring

TaskSymmetry == Permutations(Tasks)

-----------------------------------------------------------------------------
(* Properties of CfsQueue *)

\* cfs_queue and cfs_dequeue keep the tree a red-black tree.
Balanced == queue = "cfs" => Cfs!Balanced

=============================================================================
