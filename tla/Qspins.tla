------------------------------- MODULE Qspins -------------------------------
(***************************************************************************)
(* What the two lock tests of qspins.c share: main, which creates one      *)
(* thread for each CPU and then sets go, and the walk of a thread along    *)
(* the ring of locks.  The option -s of main chooses the lock that is      *)
(* tested: TicketLock without it, SpinLock with it.                        *)
(***************************************************************************)
EXTENDS Integers, FiniteSets

CONSTANTS N,      \* num_threads, the number of threads and of locks
          Iters,  \* MAX_SAMPLES * NR_ITERS, the unlock/lock pairs of a thread
          Wrap,   \* number of values of tspin_type
          Lowest  \* the lowest value of slock, -2^31 in the code

\* num_threads is at most the number of CPUs, far below 2^16.
ASSUME TicketLockAssumption ==
  /\ N \in Nat \ {0}
  /\ Wrap \in Nat \ {0}
  /\ N <= Wrap
  /\ Iters \in Nat

\* Likewise far below 2^31.
ASSUME SpinLockAssumption ==
  /\ N \in Nat \ {0}
  /\ Lowest \in Int
  /\ Lowest <= 1 - N
  /\ Iters \in Nat

Threads == 0 .. N - 1
Locks == 0 .. N - 1

VARIABLES
  k,        \* the lock a thread is at
  left,     \* iterations a thread has left
  pc,
  go,       \* the start flag
  created   \* threads main has created

mainVars == <<go, created>>

\* Every thread starts at the lock of its own CPU.
StartAt(first) ==
  /\ k = [t \in Threads |-> t]
  /\ left = [t \in Threads |-> Iters]
  /\ pc = [t \in Threads |-> first]
  /\ go = FALSE /\ created = 0

\* ++k, back to 0 at num_threads.
NextLock(l) == IF l + 1 >= N THEN 0 ELSE l + 1

\* After an unlock: on to the next lock, whose first step is first, or done.
WalkOn(t, first) ==
  IF left[t] > 0
  THEN /\ left' = [left EXCEPT ![t] = @ - 1]
       /\ k' = [k EXCEPT ![t] = NextLock(@)]
       /\ pc' = [pc EXCEPT ![t] = first]
  ELSE /\ pc' = [pc EXCEPT ![t] = "done"]
       /\ UNCHANGED <<left, k>>

\* main's pthread_create loop, and go = 1 after it.
CreateThread ==
  /\ created < N
  /\ created' = created + 1
  /\ UNCHANGED <<k, left, pc, go>>

SetGo ==
  /\ created = N /\ ~go
  /\ go' = TRUE
  /\ UNCHANGED <<k, left, pc, created>>

\* Every thread has completed all its iterations.
AllDone == \A t \in Threads : pc[t] = "done" /\ left[t] = 0
=============================================================================
