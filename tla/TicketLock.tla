----------------------------- MODULE TicketLock -----------------------------
(***************************************************************************)
(* The ticket spinlock of qspins.c and the benchmark that drives it: every *)
(* tspin_thread locks the lock of its own CPU, waits for go, and then      *)
(* walks the ring of locks, one unlock and one lock at a time.             *)
(*                                                                         *)
(* Tickets are 16 bit counters that wrap (Wrap = 2^16 in the code).  The  *)
(* xaddw of tspin_lock has the lock prefix and is one step; the addw of    *)
(* tspin_unlock has not and is a read and a write.                         *)
(***************************************************************************)
EXTENDS Qspins

Values == 0 .. Wrap - 1

VARIABLES
  qhead, qtail,  \* the two halves of each tspinlock_t
  pos,           \* the ticket in tspin_lock's local variable
  sum,           \* what addw is about to store
  issued,        \* history: tickets given out by each lock, not wrapped
  served,        \* history: unlocks of each lock, not wrapped
  ticket         \* history: the number of each thread's ticket, not wrapped

history == <<issued, served, ticket>>
vars == <<qhead, qtail, pos, sum, k, left, pc, mainVars, history>>

\* tspin_lock_init of every lock, and no history.
tspin_lock_init ==
  /\ qhead = [l \in Locks |-> 0] /\ qtail = [l \in Locks |-> 0]
  /\ pos = [t \in Threads |-> 1] /\ sum = [t \in Threads |-> 0]
  /\ issued = [l \in Locks |-> 0] /\ served = [l \in Locks |-> 0]
  /\ ticket = [t \in Threads |-> 0]

Init == tspin_lock_init /\ StartAt("lock")

\* The addition of a 16 bit instruction.
Inc(x) == (x + 1) % Wrap

\* lock ; xaddw
TakeTicket(t) ==
  /\ t < created
  /\ pc[t] = "lock"
  /\ pos' = [pos EXCEPT ![t] = qhead[k[t]]]
  /\ qhead' = [qhead EXCEPT ![k[t]] = Inc(@)]
  /\ ticket' = [ticket EXCEPT ![t] = issued[k[t]]]
  /\ issued' = [issued EXCEPT ![k[t]] = @ + 1]
  /\ pc' = [pc EXCEPT ![t] = "spin"]
  /\ UNCHANGED <<qtail, sum, k, left, mainVars, served>>

\* The test of the spin loop; the variant compares as if tickets never wrapped.
MyTurnNoWrap(t) == pos[t] <= qtail[k[t]]
MyTurn(t) == pos[t] = qtail[k[t]]

Enter(t) ==
  /\ pc[t] = "spin"
  /\ MyTurn(t)
  /\ pc' = [pc EXCEPT ![t] = "hold"]
  /\ UNCHANGED <<qhead, qtail, pos, sum, k, left, mainVars, history>>

\* addw reads qtail, at the first time only after go is seen.  Variant: an
\* addition that saturates.
UnlockReadSaturate(t) ==
  /\ pc[t] = "hold"
  /\ go
  /\ sum' = [sum EXCEPT ![t] = IF qtail[k[t]] + 1 < Wrap THEN qtail[k[t]] + 1
                                 ELSE qtail[k[t]]]
  /\ pc' = [pc EXCEPT ![t] = "unlock"]
  /\ UNCHANGED <<qhead, qtail, pos, k, left, mainVars, history>>
UnlockRead(t) ==
  /\ pc[t] = "hold"
  /\ go
  /\ sum' = [sum EXCEPT ![t] = Inc(qtail[k[t]])]
  /\ pc' = [pc EXCEPT ![t] = "unlock"]
  /\ UNCHANGED <<qhead, qtail, pos, k, left, mainVars, history>>

\* addw writes qtail; the thread goes on to the next lock or is finished.
UnlockWrite(t) ==
  /\ pc[t] = "unlock"
  /\ qtail' = [qtail EXCEPT ![k[t]] = sum[t]]
  /\ served' = [served EXCEPT ![k[t]] = @ + 1]
  /\ WalkOn(t, "lock")
  /\ UNCHANGED <<qhead, pos, sum, mainVars, issued, ticket>>

Create == CreateThread /\ UNCHANGED <<qhead, qtail, pos, sum, history>>

Go == SetGo /\ UNCHANGED <<qhead, qtail, pos, sum, history>>

Thread(t) == TakeTicket(t) \/ Enter(t) \/ UnlockRead(t) \/ UnlockWrite(t)

Next == (\E t \in Threads : Thread(t)) \/ Create \/ Go

Spec == Init /\ [][Next]_vars

\* Every thread has a CPU of its own (thread_setup), and main runs on.
FairSpec ==
  Spec /\ WF_vars(Create) /\ WF_vars(Go) /\ \A t \in Threads : WF_vars(Thread(t))

-----------------------------------------------------------------------------
(* Properties *)

\* Types; the counters of a tspinlock_t stay within 16 bits.
TypeOK ==
  /\ qhead \in [Locks -> Values] /\ qtail \in [Locks -> Values]
  /\ pos \in [Threads -> Nat] /\ sum \in [Threads -> Values]
  /\ k \in [Threads -> Locks]
  /\ left \in [Threads -> 0 .. Iters]
  /\ pc \in [Threads -> {"lock", "spin", "hold", "unlock", "done"}]
  /\ go \in BOOLEAN /\ created \in 0 .. N
  /\ issued \in [Locks -> Nat] /\ served \in [Locks -> Nat]
  /\ ticket \in [Threads -> Nat]

Holds(t) == pc[t] \in {"hold", "unlock"}

\* At most one thread is between the end of tspin_lock and the end of
\* tspin_unlock of the same lock, wrapped tickets and unlocked addw included.
MutualExclusion ==
  \A t, u \in Threads : Holds(t) /\ Holds(u) /\ k[t] = k[u] => t = u

\* The owner of a lock is the waiter whose ticket is the oldest: tspin_lock
\* is first come, first served.
FirstComeFirstServed ==
  \A t, u \in Threads :
    Holds(t) /\ (Holds(u) \/ pc[u] = "spin") /\ k[t] = k[u]
      => ticket[t] <= ticket[u]

\* At the end every lock is free again, after one unlock for each visit of a
\* thread: no ticket is skipped or served twice by the wrapped counters.
LocksFreeAtEnd ==
  (\A t \in Threads : pc[t] = "done")
    => \A l \in Locks : qhead[l] = qtail[l] /\ served[l] = issued[l]

\* Every thread completes all its iterations: no thread ever waits for a lock
\* whose owner waits, since each gives its lock up before asking for the next.
AllFinish == <>AllDone
=============================================================================
