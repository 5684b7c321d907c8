------------------------------ MODULE SpinLock ------------------------------
(***************************************************************************)
(* The decrement spinlock of qspins.c (spin_lock, spin_unlock) and         *)
(* spin_thread, which walks the ring of locks as tspin_thread does.        *)
(*                                                                         *)
(* A free lock is 1.  "lock ; decl" is one step and leaves its sign behind *)
(* for jns; a loser reads until the lock is positive and decrements again. *)
(***************************************************************************)
EXTENDS Qspins

VARIABLES
  slock,    \* the int of each spinlock_t
  missed    \* history: the threads whose decl failed since the last unlock

vars == <<slock, k, left, pc, mainVars, missed>>

spin_lock_init ==
  /\ slock = [l \in Locks |-> 1]
  /\ missed = [l \in Locks |-> {}]

Init == spin_lock_init /\ StartAt("decl")

\* jns: not negative after the decrement.
Won(v) == v >= 0

\* A decrement below the width wraps to the highest value.
Wrapped(v) == IF v < Lowest THEN -Lowest - 1 ELSE v

Decl(t) ==
  /\ t < created
  /\ pc[t] = "decl"
  /\ slock' = [slock EXCEPT ![k[t]] = Wrapped(@ - 1)]
  /\ IF Won(slock'[k[t]])
     THEN pc' = [pc EXCEPT ![t] = "hold"] /\ UNCHANGED missed
     ELSE /\ pc' = [pc EXCEPT ![t] = "spin"]
          /\ missed' = [missed EXCEPT ![k[t]] = @ \cup {t}]
  /\ UNCHANGED <<k, left, mainVars>>

\* cmpl $0 and jle; the variant jumps back on a held lock as well.
SeemsFreeAlways(v) == TRUE
SeemsFree(v) == v > 0

Retry(t) ==
  /\ pc[t] = "spin"
  /\ SeemsFree(slock[k[t]])
  /\ pc' = [pc EXCEPT ![t] = "decl"]
  /\ UNCHANGED <<slock, k, left, mainVars, missed>>

\* What spin_unlock leaves: movl $1.  Variant: incl.
ReleasedInc(v) == v + 1
Released(v) == 1

\* spin_unlock after go, and on to the next lock or to the end.
Unlock(t) ==
  /\ pc[t] = "hold" /\ go
  /\ slock' = [slock EXCEPT ![k[t]] = Released(@)]
  /\ missed' = [missed EXCEPT ![k[t]] = {}]
  /\ WalkOn(t, "decl")
  /\ UNCHANGED mainVars

Create == CreateThread /\ UNCHANGED <<slock, missed>>

Go == SetGo /\ UNCHANGED <<slock, missed>>

Thread(t) == Decl(t) \/ Retry(t) \/ Unlock(t)

Next == (\E t \in Threads : Thread(t)) \/ Create \/ Go

Spec == Init /\ [][Next]_vars

\* Every thread has a CPU of its own (thread_setup), and main runs on.
FairSpec ==
  Spec /\ WF_vars(Create) /\ WF_vars(Go) /\ \A t \in Threads : WF_vars(Thread(t))

-----------------------------------------------------------------------------
(* Properties *)

\* Types; slock stays within its width.
TypeOK ==
  /\ slock \in [Locks -> Lowest .. 1]
  /\ k \in [Threads -> Locks] /\ left \in [Threads -> 0 .. Iters]
  /\ pc \in [Threads -> {"decl", "spin", "hold", "done"}]
  /\ go \in BOOLEAN /\ created \in 0 .. N
  /\ missed \in [Locks -> SUBSET Threads]

\* At most one thread is between spin_lock and spin_unlock of one lock, also
\* when losers decrement while the owner stores 1.
SpinExclusion ==
  \A t, u \in Threads :
    pc[t] = "hold" /\ pc[u] = "hold" /\ k[t] = k[u] => t = u

\* The threads that have decremented lock l since its last unlock.
Owners(l) == {t \in Threads : k[t] = l /\ pc[t] = "hold"}
Tried(l) == Owners(l) \cup missed[l]

\* slock counts: 1 when free, one less for every thread, the owner included,
\* that tried since the last unlock.  No thread tries twice in between, so
\* num_threads is the most that ever push it down.
SlockCounts == \A l \in Locks : slock[l] = 1 - Cardinality(Tried(l))

\* A lock is positive exactly when nobody owns it: a waiter never spins on a
\* lock that no unlock will come for.
FreeIffPositive ==
  \A l \in Locks : slock[l] > 0 <=> Owners(l) = {}

\* Every thread completes all its iterations, although the lock is not fair.
AllFinish == <>AllDone
=============================================================================
