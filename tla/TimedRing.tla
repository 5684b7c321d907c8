----------------------------- MODULE TimedRing -----------------------------
(***************************************************************************)
(* The timed ring of smart-queue.c: a ring of task lists, one for each     *)
(* slot of NsSlot time units from tbase on, and a bit map of the lists     *)
(* that are not empty, scanned a word of WordBits bits at a time.          *)
(*                                                                         *)
(* The caller is tr_test, which queues every task and then takes one and   *)
(* queues it again, over and over, or any caller that queues and takes in  *)
(* any order, at any time.                                                 *)
(***************************************************************************)
EXTENDS Integers, Sequences, SequencesExt, FiniteSets, FiniteSetsExt

CONSTANTS Tasks,
          MaxRq,     \* MAX_RQ, the slots of the ring
          WordBits,  \* BITS_X_LONG
          NsSlot,    \* NS_SLOT
          Loops,     \* iterations of tr_test
          CallTimes, \* times any other caller passes
          MaxBase,   \* bound on the slots the ring turns by under any other caller
          Null       \* NULL

ASSUME RingAssumption ==
  /\ {MaxRq, WordBits, NsSlot} \subseteq Nat \ {0}
  /\ MaxRq % WordBits = 0
  /\ Loops \in Nat /\ CallTimes \subseteq Nat /\ MaxBase \in Nat
  /\ Null \notin Tasks \cup (0..(MaxRq - 1))

VARIABLES caller, \* "tr_test" or "any"
          ibase,  \* rq->ibase
          tbase,  \* rq->tbase
          tsks,   \* rq->tsks: the list of every slot
          map,    \* rq->map: the slots whose bit is set
          time,   \* the t of every task
          todo,   \* tr_test: tasks not yet queued for the first time
          left,   \* tr_test: iterations left
          base,   \* history: slots passed since tr_rqinit, ibase unreduced
          due,    \* history: the unreduced slot a task was put in
          taken,  \* history: what the last tr_dequeue returned
          exact,  \* history: tasks queued for a slot of the turn ahead
          moved   \* history: tbase was reset or set again with tasks queued

vars == <<caller, ibase, tbase, tsks, map, time, todo, left, base, due, taken,
          exact, moved>>

Slots == 0..(MaxRq - 1)
Words == 0..((MaxRq \div WordBits) - 1)

\* tr_rqinit, and the tasks as tr_test sets them up
Init ==
  /\ caller \in {"tr_test", "any"}
  /\ ibase = 0
  /\ tbase = 0
  /\ tsks = [i \in Slots |-> <<>>]
  /\ map = {}
  /\ time = [k \in Tasks |-> 0]
  /\ todo = Tasks
  /\ left = Loops
  /\ base = 0
  /\ due = [k \in Tasks |-> 0]
  /\ taken = Null
  /\ exact = {}
  /\ moved = FALSE

Queued == UNION {ToSet(tsks[i]) : i \in Slots}

-----------------------------------------------------------------------------
(* tr_queue and tr_dequeue *)

\* How many slots ahead of tbase a task goes.  A time before tbase wraps around
\* in the unsigned difference, so it too ends up in the last slot.  (The number of
\* slots is cut to 32 bits before it is compared; times here are less than the 2^32
\* slots, 248 days, apart that would make a difference.)
Ahead(from, t) ==
  IF t < from THEN MaxRq - 1 ELSE Min({(t - from) \div NsSlot, MaxRq - 1})

\* The base tr_queue measures from; 0 means that it is not set.
BaseFor(k) == IF tbase = 0 THEN time[k] ELSE tbase

TrQueue(k, t) ==
  LET d == Ahead(BaseFor(k), t)
      idx == (ibase + d) % MaxRq
  IN /\ tbase' = BaseFor(k)
     /\ time' = [time EXCEPT ![k] = t]
     /\ tsks' = [tsks EXCEPT ![idx] = Append(@, k)]
     /\ map' = map \cup {idx}
     /\ due' = [due EXCEPT ![k] = base + d]
     /\ exact' = IF (t - BaseFor(k)) \in 0..(MaxRq * NsSlot - 1)
                 THEN exact \cup {k} ELSE exact \ {k}
     /\ moved' = (moved \/ (Queued # {} /\ BaseFor(k) # tbase))
     /\ UNCHANGED <<ibase, base>>

\* The first pass of rel_ffs sees only the bits of the base word from ibase on.
\* The variant sees all of them.
FirstMaskAll(w) == {i \in map : i \div WordBits = w}
FirstMask(w) == {i \in map : i \div WordBits = w /\ i >= ibase}

\* The bits seen on pass n: the base word, then each of the other words once.
Seen(n) ==
  LET w == ((ibase \div WordBits) + n) % (MaxRq \div WordBits)
  IN IF n = 0 THEN FirstMask(w) ELSE {i \in map : i \div WordBits = w}

\* rel_ffs, with Null for MAX_RQ
RelFfs ==
  LET hits == {n \in Words : Seen(n) # {}}
  IN IF hits = {} THEN Null ELSE Min(Seen(Min(hits)))

\* The bit of the slot a task left; the variant never clears it.
ClearBitNot(idx) == map
ClearBit(idx) == IF Len(tsks[idx]) = 1 THEN map \ {idx} ELSE map

\* The slots the ring turns by; the variant does not reduce the difference.
TurnSigned(idx) == idx - ibase
Turn(idx) == (idx - ibase) % MaxRq

TrDequeue ==
  LET idx == RelFfs
      d == Turn(idx)
  IN IF idx = Null
     THEN /\ tbase' = 0
          /\ taken' = Null
          /\ moved' = (moved \/ (Queued # {} /\ tbase # 0))
          /\ UNCHANGED <<ibase, tsks, map, time, base, due, exact>>
     ELSE /\ taken' = Head(tsks[idx])
          /\ tsks' = [tsks EXCEPT ![idx] = Tail(@)]
          /\ map' = ClearBit(idx)
          /\ ibase' = idx
          /\ tbase' = tbase + NsSlot * d
          /\ base' = base + d
          /\ UNCHANGED <<time, due, exact, moved>>

-----------------------------------------------------------------------------
(* tr_test: times is MAX_RQ, rand() % times is any slot *)

Fill(k) ==
  /\ k \in todo
  /\ \E r \in Slots : TrQueue(k, r * NsSlot)
  /\ todo' = todo \ {k}
  /\ UNCHANGED <<left, taken>>

\* The distance at which tr_test queues a task again.
Again(k) == time[k] + (MaxRq \div 7) * NsSlot

Take ==
  /\ todo = {} /\ left > 0 /\ taken = Null
  /\ TrDequeue
  /\ left' = left - 1
  /\ UNCHANGED todo

Requeue ==
  /\ todo = {} /\ taken # Null
  /\ TrQueue(taken, Again(taken))
  /\ taken' = Null
  /\ UNCHANGED <<todo, left>>

TrTest == Take \/ Requeue \/ \E k \in Tasks : Fill(k)

-----------------------------------------------------------------------------
(* Any caller, with any of CallTimes *)

Put(k, t) ==
  /\ k \notin Queued
  /\ TrQueue(k, t)
  /\ UNCHANGED <<todo, left, taken>>

Get ==
  /\ TrDequeue
  /\ UNCHANGED <<todo, left>>

\* The history counts slots, so the bound is on it.
AnyUse ==
  /\ base <= MaxBase
  /\ Get \/ \E k \in Tasks, t \in CallTimes : Put(k, t)

-----------------------------------------------------------------------------

Next ==
  /\ UNCHANGED caller
  /\ \/ caller = "tr_test" /\ TrTest
     \/ caller = "any" /\ AnyUse

Spec == Init /\ [][Next]_vars

-----------------------------------------------------------------------------
(* Properties *)

\* tr_dequeue returns a task of the earliest slot, the first queued of that slot.
EarliestFirst ==
  [][\A k \in Queued : k \notin Queued' =>
       /\ \A q \in Queued : due[k] <= due[q]
       /\ Head(tsks[due[k] % MaxRq]) = k]_vars

\* tr_dequeue returns NULL exactly when every task left is in the base word,
\* below ibase, the one part of the map that rel_ffs does not come back to; and
\* rel_ffs never leads it to an empty list.
NullOnlyBehindBase ==
  LET full == {i \in Slots : tsks[i] # <<>>}
  IN /\ RelFfs = Null <=>
          \A i \in full : i \div WordBits = ibase \div WordBits /\ i < ibase
     /\ RelFfs \in full \cup {Null}

\* As long as tbase has only moved with the ring while tasks were queued, a task
\* queued for the turn ahead is taken in its slot: tbase and ibase stay in step.
TakenInItsSlot ==
  [][\A k \in Queued \cap exact : k \notin Queued' /\ ~moved =>
       time[k] \in tbase'..(tbase' + NsSlot - 1)]_vars
=============================================================================
