---------------------------- MODULE QspinsProofs ----------------------------
(***************************************************************************)
(* The two locks of qspins.c, for any number of threads.                   *)
(*                                                                         *)
(* The ticket lock is a first come, first served lock for any number of    *)
(* threads up to the number of ticket values, although its tickets wrap.   *)
(* The unwrapped history counters carry the argument: the tickets in use   *)
(* on a lock are the integers from served to issued - 1, one for each      *)
(* thread at the lock, so there are fewer of them than values of the 16    *)
(* bit counter and equal wrapped tickets are equal tickets.                *)
(*                                                                         *)
(* The decrement lock excludes, and its int never leaves its width.  The   *)
(* invariant counts the threads that have decremented a lock since its     *)
(* last unlock: a thread that lost is spinning and cannot decrement again  *)
(* before the owner's store, so slock is 1 less that number and never goes *)
(* below 1 - N.                                                            *)
(***************************************************************************)
EXTENDS MCQspins, FiniteSetTheorems, TLAPS

\* The threads at lock l that have a ticket.
AtLock(t, l) == k[t] = l /\ pc[t] \in {"spin", "hold", "unlock"}
Out(l) == {t \in Threads : AtLock(t, l)}

WrapInv ==
  \A l \in Locks : /\ qhead[l] = issued[l] % Wrap
                   /\ qtail[l] = served[l] % Wrap

CountInv ==
  \A l \in Locks : /\ served[l] <= issued[l]
                   /\ Cardinality(Out(l)) = issued[l] - served[l]

TicketInv ==
  \A t \in Threads, l \in Locks :
    AtLock(t, l) => /\ served[l] <= ticket[t] /\ ticket[t] < issued[l]
                    /\ pos[t] = ticket[t] % Wrap

UniqueInv ==
  \A t, u \in Threads, l \in Locks :
    AtLock(t, l) /\ AtLock(u, l) /\ ticket[t] = ticket[u] => t = u

HolderInv ==
  \A t \in Threads : Holds(t) => ticket[t] = served[k[t]]

SumInv ==
  \A t \in Threads : pc[t] = "unlock" => sum[t] = (qtail[k[t]] + 1) % Wrap

IInv == TypeOK /\ WrapInv /\ CountInv /\ TicketInv /\ UniqueInv /\ HolderInv
          /\ SumInv

-----------------------------------------------------------------------------
(* Arithmetic of wrapped counters *)

LEMMA ModType ==
  ASSUME NEW n \in Nat \ {0}, NEW a \in Nat
  PROVE  a % n \in 0 .. n - 1
OBVIOUS

LEMMA MulGe == ASSUME NEW n \in Nat \ {0}, NEW d \in Int, d >= 1 PROVE n * d >= n
OBVIOUS

LEMMA MulLe == ASSUME NEW n \in Nat \ {0}, NEW d \in Int, d <= -1 PROVE n * d <= -n
OBVIOUS

LEMMA DivMod == ASSUME NEW n \in Nat \ {0}, NEW a \in Int
  PROVE /\ a \div n \in Int /\ a % n \in 0 .. n-1 /\ a = n * (a \div n) + (a % n)
<1>1. a \div n \in Int /\ a % n \in Int
  OBVIOUS
<1>2. a % n \in 0 .. n - 1
  OBVIOUS
<1>3. a = n * (a \div n) + (a % n)
  OBVIOUS
<1> QED BY <1>1, <1>2, <1>3

\* The remainder of a division is unique.
LEMMA ModUnique == ASSUME NEW n \in Nat \ {0}, NEW q \in Int, NEW r \in 0 .. n - 1
  PROVE (n * q + r) % n = r
<1> DEFINE a == n * q + r
<1>1. a \in Int OBVIOUS
<1> DEFINE p == a \div n
<1> DEFINE s == a % n
<1>2. p \in Int /\ s \in 0 .. n - 1 /\ a = n * p + s
  BY <1>1, DivMod
<1>3. n * q + r = n * p + s
  BY <1>2
<1> HIDE DEF p, s, a
<1>4. n * (p - q) = r - s
  BY <1>2, <1>3
<1>5. r - s < n /\ r - s > -n
  BY <1>2
<1>6. ~(p - q >= 1) /\ ~(p - q <= -1)
  BY <1>4, <1>5, <1>2, MulGe, MulLe
<1>7. p = q BY <1>6, <1>2
<1>8. r = s
  BY <1>7, <1>3, <1>2
<1> QED BY <1>8 DEF s, a

\* Adding one before or after wrapping is the same.
LEMMA ModSucc ==
  ASSUME NEW n \in Nat \ {0}, NEW a \in Nat
  PROVE  ((a % n) + 1) % n = (a + 1) % n
<1> DEFINE p == a \div n
<1> DEFINE s == a % n
<1>2. p \in Int /\ s \in 0 .. n - 1 /\ a = n * p + s
  BY DivMod
<1>3. CASE s + 1 < n
  <2>1. a + 1 = n * p + (s + 1) /\ s + 1 \in 0 .. n - 1
    BY <1>2, <1>3
  <2>2. (n * p + (s + 1)) % n = s + 1
    BY <1>2, <2>1, ModUnique
  <2>3. (s + 1) % n = s + 1
    BY <2>1
  <2> QED BY <2>1, <2>2, <2>3
<1>4. CASE s + 1 >= n
  <2>1. s + 1 = n
    BY <1>2, <1>4
  <2>2. a + 1 = n * (p + 1) + 0 /\ p + 1 \in Int /\ 0 \in 0 .. n - 1
    BY <1>2, <2>1
  <2>3. (n * (p + 1) + 0) % n = 0
    BY <2>2, ModUnique
  <2>4. n % n = 0
    OBVIOUS
  <2> QED BY <2>1, <2>2, <2>3, <2>4
<1> QED BY <1>2, <1>3, <1>4

\* Two numbers less than n apart that wrap to the same value are equal.
LEMMA ModInjective ==
  ASSUME NEW n \in Nat \ {0}, NEW a \in Nat, NEW b \in Nat,
         a <= b, b < a + n, a % n = b % n
  PROVE  a = b
<1> DEFINE p == a \div n
<1> DEFINE q == b \div n
<1> DEFINE s == a % n
<1>1. p \in Int /\ q \in Int /\ s \in Int /\ a = n * p + s /\ b = n * q + s
  BY DivMod
<1> HIDE DEF p, q, s
<1>2. b - a = n * (q - p)
  BY <1>1
<1>3. ~(q - p >= 1) /\ ~(q - p <= -1)
  BY <1>1, <1>2, MulGe, MulLe
<1> QED BY <1>1, <1>3

-----------------------------------------------------------------------------
(* The ticket lock: the steps *)

\* A lock never has more tickets out than there are threads.
LEMMA OutBounded ==
  ASSUME NEW l \in Locks
  PROVE  IsFiniteSet(Out(l)) /\ Cardinality(Out(l)) <= N
<1>1. IsFiniteSet(0 .. N - 1) /\ Cardinality(0 .. N - 1) = N
  BY FS_Interval, TicketLockAssumption
<1> QED BY <1>1, FS_Subset DEF Out, Threads

LEMMA InitIInv == Init => IInv
<1> SUFFICES ASSUME Init PROVE IInv
  OBVIOUS
<1> USE TicketLockAssumption
<1>1. TypeOK
  <2>1. 0 \in Values /\ 0 \in Nat /\ 1 \in Nat /\ 0 \in 0 .. N /\ Iters \in 0 .. Iters
    BY DEF Values
  <2>2. Threads = Locks
    BY DEF Threads, Locks
  <2> QED BY <2>1, <2>2 DEF Init, tspin_lock_init, StartAt, TypeOK
<1>2. WrapInv
  BY DEF Init, tspin_lock_init, StartAt, WrapInv, Locks
<1>3. \A l \in Locks : Out(l) = {}
  BY DEF Init, tspin_lock_init, StartAt, Out, AtLock, Threads
<1>4. CountInv
  BY <1>3, FS_EmptySet DEF Init, tspin_lock_init, StartAt, CountInv
<1>5. TicketInv /\ UniqueInv /\ HolderInv /\ SumInv
  BY DEF Init, tspin_lock_init, StartAt, TicketInv, UniqueInv, HolderInv, SumInv, AtLock, Holds, Threads
<1> QED BY <1>1, <1>2, <1>4, <1>5 DEF IInv

LEMMA TakeTicketStep ==
  ASSUME IInv, NEW t \in Threads, TakeTicket(t)
  PROVE  IInv'
<1> USE TicketLockAssumption
<1>0. PICK l \in Locks : l = k[t]
  BY DEF IInv, TypeOK
<1>1. issued[l] \in Nat /\ served[l] \in Nat /\ qhead[l] \in Values
  BY <1>0 DEF IInv, TypeOK
<1>2. (qhead[l] + 1) % Wrap \in Values
  BY <1>0, <1>1 DEF Values
<1>3. TypeOK'
  BY <1>0, <1>1, <1>2 DEF IInv, TypeOK, TakeTicket, Inc, Values, mainVars
<1>4. (qhead[l] + 1) % Wrap = (issued[l] + 1) % Wrap
  BY <1>0, <1>1, ModSucc DEF IInv, WrapInv
<1>5. WrapInv'
  BY <1>0, <1>1, <1>4 DEF IInv, WrapInv, TypeOK, TakeTicket, Inc
<1>6. /\ \A m \in Locks : m # l => Out(m)' = Out(m)
      /\ Out(l)' = Out(l) \cup {t}
      /\ t \notin Out(l)
  BY <1>0, <1>1 DEF IInv, TypeOK, TakeTicket, Inc, Out, AtLock
<1>7. Cardinality(Out(l)') = Cardinality(Out(l)) + 1
  <2>1. IsFiniteSet(Out(l))
    BY OutBounded
  <2>2. Cardinality(Out(l) \cup {t}) = Cardinality(Out(l)) + 1
    <3> HIDE TicketLockAssumption
    <3> QED BY <2>1, <1>6, FS_AddElement
  <2> QED BY <2>2, <1>6
<1>8. CountInv'
  <2> SUFFICES ASSUME NEW m \in Locks
               PROVE  /\ served'[m] <= issued'[m]
                      /\ Cardinality(Out(m)') = issued'[m] - served'[m]
    BY DEF CountInv
  <2>1. /\ issued[m] \in Nat /\ served[m] \in Nat /\ served[m] <= issued[m]
        /\ Cardinality(Out(m)) = issued[m] - served[m]
    BY DEF IInv, TypeOK, CountInv
  <2>2. CASE m = l
    <3>1. issued'[l] = issued[l] + 1 /\ served'[l] = served[l]
      BY <1>0 DEF IInv, TypeOK, TakeTicket
    <3>2. Out(m)' = Out(l)' /\ Cardinality(Out(l)) = issued[l] - served[l]
      BY <2>1, <2>2
    <3>3. Cardinality(Out(m)') = issued'[l] - served'[l]
      BY <1>1, <1>7, <3>1, <3>2
    <3> QED BY <1>1, <2>1, <2>2, <3>1, <3>3
  <2>3. CASE m # l
    <3>1. issued'[m] = issued[m] /\ served'[m] = served[m]
      BY <1>0, <2>3 DEF IInv, TypeOK, TakeTicket
    <3> QED BY <1>6, <2>1, <2>3, <3>1
  <2> QED BY <2>2, <2>3
<1>9. TicketInv'
  BY <1>0, <1>1 DEF IInv, TicketInv, CountInv, WrapInv, TypeOK, TakeTicket, Inc, AtLock
<1>10. UniqueInv'
  BY <1>0, <1>1 DEF IInv, TicketInv, UniqueInv, TypeOK, TakeTicket, Inc, AtLock
<1>11. HolderInv' /\ SumInv'
  BY <1>0, <1>1 DEF IInv, HolderInv, SumInv, TypeOK, TakeTicket, Inc, Holds
<1> QED BY <1>3, <1>5, <1>8, <1>9, <1>10, <1>11 DEF IInv

LEMMA EnterStep ==
  ASSUME IInv, NEW t \in Threads, Enter(t)
  PROVE  IInv'
<1> USE TicketLockAssumption
<1> DEFINE l == k[t]
<1>1. /\ l \in Locks /\ issued[l] \in Nat /\ served[l] \in Nat
      /\ ticket[t] \in Nat
  BY DEF IInv, TypeOK
<1>2. TypeOK' /\ WrapInv'
  BY DEF IInv, TypeOK, WrapInv, Enter, mainVars, history
<1>3. \A m \in Locks, u \in Threads : AtLock(u, m)' <=> AtLock(u, m)
  BY DEF IInv, TypeOK, Enter, AtLock
<1>4. \A m \in Locks : Out(m)' = Out(m)
  BY <1>3 DEF Out
<1>5. CountInv' /\ TicketInv' /\ UniqueInv'
  BY <1>3, <1>4 DEF IInv, CountInv, TicketInv, UniqueInv, Enter, history
<1>6. served[l] <= ticket[t] /\ ticket[t] < issued[l]
  BY <1>1 DEF IInv, TicketInv, AtLock, Enter
<1>7. issued[l] - served[l] <= Wrap
  BY <1>1, OutBounded DEF IInv, CountInv
<1>8. served[l] % Wrap = ticket[t] % Wrap
  BY <1>1 DEF IInv, TicketInv, WrapInv, AtLock, Enter, MyTurn
<1>9. ticket[t] = served[l]
  BY <1>1, <1>6, <1>7, <1>8, ModInjective
<1>10. HolderInv' /\ SumInv'
  BY <1>9 DEF IInv, HolderInv, SumInv, TypeOK, Enter, Holds, history
<1> QED BY <1>2, <1>5, <1>10 DEF IInv

LEMMA UnlockReadStep ==
  ASSUME IInv, NEW t \in Threads, UnlockRead(t)
  PROVE  IInv'
<1> USE TicketLockAssumption
<1>1. k[t] \in Locks /\ qtail[k[t]] \in Values
  BY DEF IInv, TypeOK
<1>2. (qtail[k[t]] + 1) % Wrap \in Values
  BY <1>1 DEF Values
<1>3. TypeOK' /\ WrapInv'
  BY <1>2 DEF IInv, TypeOK, WrapInv, UnlockRead, Inc, mainVars, history
<1>4. \A m \in Locks, u \in Threads : AtLock(u, m)' <=> AtLock(u, m)
  BY DEF IInv, TypeOK, UnlockRead, Inc, AtLock
<1>5. \A m \in Locks : Out(m)' = Out(m)
  BY <1>4 DEF Out
<1>6. CountInv' /\ TicketInv' /\ UniqueInv'
  BY <1>4, <1>5 DEF IInv, CountInv, TicketInv, UniqueInv, UnlockRead, Inc, history
<1>7. HolderInv' /\ SumInv'
  BY DEF IInv, HolderInv, SumInv, TypeOK, UnlockRead, Inc, Holds, history
<1> QED BY <1>3, <1>6, <1>7 DEF IInv

LEMMA UnlockWriteStep ==
  ASSUME IInv, NEW t \in Threads, UnlockWrite(t)
  PROVE  IInv'
<1> USE TicketLockAssumption
<1>0. PICK l \in Locks : l = k[t]
  BY DEF IInv, TypeOK
<1>1. /\ issued[l] \in Nat /\ served[l] \in Nat
      /\ sum[t] \in Values
  BY <1>0 DEF IInv, TypeOK
<1>1a. NextLock(l) \in Locks
  BY DEF NextLock, Locks
<1>2. TypeOK'
  BY <1>0, <1>1, <1>1a DEF IInv, TypeOK, UnlockWrite, WalkOn, mainVars
<1>3. sum[t] = (served[l] + 1) % Wrap
  BY <1>0, <1>1, ModSucc DEF IInv, SumInv, WrapInv, UnlockWrite, WalkOn
<1>4. WrapInv'
  BY <1>0, <1>1, <1>3 DEF IInv, WrapInv, TypeOK, UnlockWrite, WalkOn
<1>5. /\ AtLock(t, l) /\ Holds(t)
      /\ \A m \in Locks : ~AtLock(t, m)'
      /\ \A m \in Locks, u \in Threads : u # t => (AtLock(u, m)' <=> AtLock(u, m))
      /\ \A m \in Locks : m # l => ~AtLock(t, m)
  BY <1>0, <1>1 DEF IInv, TypeOK, UnlockWrite, WalkOn, AtLock, Holds
<1>6. /\ \A m \in Locks : m # l => Out(m)' = Out(m)
      /\ Out(l)' = Out(l) \ {t}
      /\ t \in Out(l)
  BY <1>0, <1>1, <1>5 DEF Out
<1>7. Cardinality(Out(l)') = Cardinality(Out(l)) - 1
  <2>1. IsFiniteSet(Out(l))
    BY OutBounded
  <2>2. Cardinality(Out(l) \ {t}) = Cardinality(Out(l)) - 1
    <3> HIDE TicketLockAssumption
    <3> QED BY <2>1, <1>6, FS_RemoveElement
  <2> QED BY <2>2, <1>6
<1>8. served[l] < issued[l]
  BY <1>0, <1>1, <1>5 DEF IInv, TicketInv, HolderInv
<1>9. CountInv'
  <2> SUFFICES ASSUME NEW m \in Locks
               PROVE  /\ served'[m] <= issued'[m]
                      /\ Cardinality(Out(m)') = issued'[m] - served'[m]
    BY DEF CountInv
  <2>1. /\ issued[m] \in Nat /\ served[m] \in Nat /\ served[m] <= issued[m]
        /\ Cardinality(Out(m)) = issued[m] - served[m]
    BY DEF IInv, TypeOK, CountInv
  <2>2. CASE m = l
    <3>1. issued'[l] = issued[l] /\ served'[l] = served[l] + 1
      BY <1>0 DEF IInv, TypeOK, UnlockWrite, WalkOn
    <3>2. Out(m)' = Out(l)' /\ Cardinality(Out(l)) = issued[l] - served[l]
      BY <2>1, <2>2
    <3>3. Cardinality(Out(m)') = issued'[l] - served'[l]
      BY <1>1, <1>7, <3>1, <3>2
    <3> QED BY <1>1, <2>1, <2>2, <3>1, <3>3, <1>8
  <2>3. CASE m # l
    <3>1. issued'[m] = issued[m] /\ served'[m] = served[m]
      BY <1>0, <2>3 DEF IInv, TypeOK, UnlockWrite, WalkOn
    <3> QED BY <1>6, <2>1, <2>3, <3>1
  <2> QED BY <2>2, <2>3
<1>10. ticket[t] = served[l]
  BY <1>0, <1>5 DEF IInv, HolderInv
<1>11. \A u \in Threads : u # t /\ AtLock(u, l) => served[l] + 1 <= ticket[u]
  BY <1>0, <1>1, <1>5, <1>10 DEF IInv, TicketInv, UniqueInv, TypeOK
<1>12. TicketInv'
  BY <1>0, <1>1, <1>5, <1>11 DEF IInv, TicketInv, TypeOK, UnlockWrite, WalkOn
<1>13. UniqueInv'
  BY <1>0, <1>5 DEF IInv, UniqueInv, UnlockWrite, WalkOn
<1>14. \A u \in Threads : u # t /\ Holds(u) => k[u] # l
  BY <1>0, <1>1, <1>5, <1>10 DEF IInv, HolderInv, UniqueInv, TypeOK, Holds, AtLock
<1>15. HolderInv' /\ SumInv'
  BY <1>0, <1>1, <1>14 DEF IInv, HolderInv, SumInv, TypeOK, UnlockWrite, WalkOn, Holds
<1> QED BY <1>2, <1>4, <1>9, <1>12, <1>13, <1>15 DEF IInv

-----------------------------------------------------------------------------
(* The ticket lock: the theorems *)

LEMMA NextIInv == IInv /\ [Next]_vars => IInv'
<1> SUFFICES ASSUME IInv, [Next]_vars PROVE IInv'
  OBVIOUS
<1>1. CASE \E t \in Threads : Thread(t)
  BY <1>1, TakeTicketStep, EnterStep, UnlockReadStep, UnlockWriteStep DEF Thread
<1>2. CASE Create \/ Go \/ UNCHANGED vars
  <2>1. UNCHANGED <<qhead, qtail, pos, sum, k, left, pc, issued, served, ticket>>
    BY <1>2 DEF Create, Go, CreateThread, SetGo, mainVars, vars, history
  <2>2. go' \in BOOLEAN /\ created' \in 0 .. N
    <3>1. CASE Create
      BY <3>1, TicketLockAssumption DEF IInv, TypeOK, Create, CreateThread
    <3>2. CASE Go
      BY <3>2 DEF IInv, TypeOK, Go, SetGo
    <3>3. CASE UNCHANGED vars
      BY <3>3 DEF IInv, TypeOK, vars, mainVars
    <3> QED BY <1>2, <3>1, <3>2, <3>3
  <2>2a. TypeOK'
    BY <2>1, <2>2 DEF IInv, TypeOK
  <2>3. \A l \in Locks : Out(l)' = Out(l)
    BY <2>1 DEF Out, AtLock
  <2>4. WrapInv' /\ CountInv'
    BY <2>1, <2>3 DEF IInv, WrapInv, CountInv
  <2>5. TicketInv' /\ UniqueInv' /\ HolderInv' /\ SumInv'
    BY <2>1 DEF IInv, TicketInv, UniqueInv, HolderInv, SumInv, AtLock, Holds
  <2> QED BY <2>2a, <2>4, <2>5 DEF IInv
<1> QED BY <1>1, <1>2 DEF Next

\* The inductive invariant of the ticket lock holds throughout.
THEOREM Invariance == Spec => []IInv
<1> QED BY InitIInv, NextIInv, PTL DEF Spec

\* The halves of a tspinlock_t stay within their 16 bits and every thread is
\* at a lock of the array.
THEOREM TypeCorrect == Spec => []TypeOK
<1>1. IInv => TypeOK
  BY DEF IInv
<1> QED BY <1>1, Invariance, PTL

\* What the invariant says of the owner of a lock: it is the only one and has the
\* oldest ticket.
LEMMA OwnerIs == IInv => MutualExclusion /\ FirstComeFirstServed
<1> SUFFICES ASSUME IInv PROVE MutualExclusion /\ FirstComeFirstServed
  OBVIOUS
<1>1. MutualExclusion
  BY DEF IInv, HolderInv, UniqueInv, MutualExclusion, AtLock, Holds, TypeOK
<1>2. ASSUME NEW t \in Threads, NEW u \in Threads,
             Holds(t), Holds(u) \/ pc[u] = "spin", k[t] = k[u]
      PROVE  ticket[t] <= ticket[u]
  <2>1. k[u] \in Locks /\ AtLock(u, k[u])
    BY <1>2 DEF IInv, TypeOK, AtLock, Holds
  <2>2. served[k[u]] <= ticket[u]
    BY <2>1 DEF IInv, TicketInv
  <2> QED BY <1>2, <2>2 DEF IInv, HolderInv
<1> QED BY <1>1, <1>2 DEF FirstComeFirstServed

\* tspin_lock excludes: two threads are never both between the end of
\* tspin_lock and the end of tspin_unlock of one lock, for any number of
\* threads up to the number of ticket values.
THEOREM Exclusion == Spec => []MutualExclusion
<1> QED BY OwnerIs, Invariance, PTL

\* tspin_lock serves its callers in the order of their xaddw.
THEOREM Fifo == Spec => []FirstComeFirstServed
<1> QED BY OwnerIs, Invariance, PTL

\* When all threads are done every lock is free and has served every ticket
\* it gave out.
THEOREM FreeAtEnd == Spec => []LocksFreeAtEnd
<1>1. IInv => LocksFreeAtEnd
  <2> SUFFICES ASSUME IInv, \A t \in Threads : pc[t] = "done", NEW l \in Locks
               PROVE  qhead[l] = qtail[l] /\ served[l] = issued[l]
    BY DEF LocksFreeAtEnd
  <2>1. Out(l) = {}
    BY DEF Out, AtLock
  <2>2. issued[l] - served[l] = 0 /\ issued[l] \in Nat /\ served[l] \in Nat
    BY <2>1, FS_EmptySet DEF IInv, CountInv, TypeOK
  <2> QED BY <2>2 DEF IInv, WrapInv
<1> QED BY <1>1, Invariance, PTL

-----------------------------------------------------------------------------
(* The decrement lock: the invariant and its steps *)

\* A thread that lost is still spinning on that lock, and the lock is owned.
MissedSpin == \A l \in S!Locks : \A t \in missed[l] : k[t] = l /\ pc[t] = "spin"
MissedOwned == \A l \in S!Locks : missed[l] # {} => S!Owners(l) # {}

\* slock is 1 less the threads that have tried.
SlockInv == \A l \in S!Locks : slock[l] = 1 - Cardinality(S!Tried(l))

SpinInv == S!TypeOK /\ SlockInv /\ S!SpinExclusion /\ MissedSpin /\ MissedOwned

LEMMA TriedFinite ==
  ASSUME S!TypeOK, NEW l \in S!Locks
  PROVE  IsFiniteSet(S!Tried(l)) /\ S!Tried(l) \subseteq S!Threads
<1>1. IsFiniteSet(S!Threads)
  BY FS_Interval, SpinLockAssumption DEF S!Threads
<1>2. S!Tried(l) \subseteq S!Threads
  BY DEF S!TypeOK, S!Tried, S!Owners
<1> QED BY <1>1, <1>2, FS_Subset

\* A thread that is about to decrement is not among those that have.
LEMMA TriedBelow ==
  ASSUME SpinInv, NEW t \in S!Threads, NEW l \in S!Locks, k[t] = l, pc[t] = "decl"
  PROVE  t \notin S!Tried(l) /\ Cardinality(S!Tried(l)) \in 0 .. N - 1
<1>1. t \notin S!Tried(l)
  BY DEF SpinInv, MissedSpin, S!Tried, S!Owners
<1>2. IsFiniteSet(S!Threads) /\ Cardinality(S!Threads) = N
  BY FS_Interval, SpinLockAssumption DEF S!Threads
<1>3. S!Tried(l) \subseteq S!Threads \ {t} /\ IsFiniteSet(S!Tried(l))
  BY <1>1, TriedFinite DEF SpinInv
<1>4. IsFiniteSet(S!Threads \ {t}) /\ Cardinality(S!Threads \ {t}) = N - 1
  BY <1>2, FS_RemoveElement
<1>5. Cardinality(S!Tried(l)) <= N - 1
  BY <1>3, <1>4, FS_Subset
<1>6. Cardinality(S!Tried(l)) \in Nat
  BY <1>3, FS_CardinalityType
<1> QED BY <1>1, <1>5, <1>6, SpinLockAssumption

LEMMA InitSpin == S!Init => SpinInv
<1> SUFFICES ASSUME S!Init PROVE SpinInv
  OBVIOUS
<1> USE SpinLockAssumption
<1>1. S!TypeOK
  <2>1. 1 \in Lowest .. 1 /\ 0 \in 0 .. N /\ Iters \in 0 .. Iters
    OBVIOUS
  <2>2. S!Threads = S!Locks
    BY DEF S!Threads, S!Locks
  <2> QED BY <2>1, <2>2 DEF S!Init, S!spin_lock_init, S!StartAt, S!TypeOK
<1>2. \A l \in S!Locks : S!Owners(l) = {} /\ S!Tried(l) = {}
  BY DEF S!Init, S!spin_lock_init, S!StartAt, S!Owners, S!Tried, S!Threads
<1>3. SlockInv
  BY <1>2, FS_EmptySet DEF S!Init, S!spin_lock_init, S!StartAt, SlockInv
<1>4. S!SpinExclusion /\ MissedSpin /\ MissedOwned
  BY DEF S!Init, S!spin_lock_init, S!StartAt, S!SpinExclusion, MissedSpin, MissedOwned, S!Threads
<1> QED BY <1>1, <1>3, <1>4 DEF SpinInv

LEMMA DeclStep ==
  ASSUME SpinInv, NEW t \in S!Threads, S!Decl(t)
  PROVE  SpinInv'
<1> USE SpinLockAssumption
<1>0. PICK l \in S!Locks : l = k[t]
  BY DEF SpinInv, S!TypeOK
<1>1. slock[l] = 1 - Cardinality(S!Tried(l)) /\ pc[t] = "decl"
  BY <1>0 DEF SpinInv, SlockInv, S!Decl
<1>2. t \notin S!Tried(l) /\ Cardinality(S!Tried(l)) \in 0 .. N - 1
  BY <1>0, <1>1, TriedBelow
<1>3. slock[l] - 1 \in Lowest .. 1 /\ S!Wrapped(slock[l] - 1) = slock[l] - 1
  BY <1>1, <1>2 DEF S!Wrapped
<1>4. slock' = [slock EXCEPT ![l] = slock[l] - 1]
  BY <1>0, <1>3 DEF S!Decl, SpinInv, S!TypeOK
<1>5. slock'[l] = slock[l] - 1
  BY <1>4 DEF SpinInv, S!TypeOK
<1>6. S!TypeOK'
  <2>1. slock' \in [S!Locks -> Lowest .. 1]
    BY <1>3, <1>4 DEF SpinInv, S!TypeOK
  <2>2. missed' \in [S!Locks -> SUBSET S!Threads]
    BY <1>0 DEF SpinInv, S!TypeOK, S!Decl, S!mainVars
  <2> QED BY <2>1, <2>2 DEF SpinInv, S!TypeOK, S!Decl, S!mainVars
<1>7. /\ S!Tried(l)' = S!Tried(l) \cup {t}
      /\ \A m \in S!Locks : m # l => S!Tried(m)' = S!Tried(m)
  BY <1>0, <1>1 DEF SpinInv, S!TypeOK, S!Decl, S!Tried, S!Owners
<1>8. SlockInv'
  <2>1. Cardinality(S!Tried(l)') = Cardinality(S!Tried(l)) + 1
    BY <1>2, <1>7, TriedFinite, FS_AddElement DEF SpinInv
  <2>2. slock'[l] = 1 - Cardinality(S!Tried(l)')
    BY <1>1, <1>2, <1>5, <2>1
  <2>3. ASSUME NEW m \in S!Locks, m # l
        PROVE  slock'[m] = 1 - Cardinality(S!Tried(m)')
    <3>1. slock'[m] = slock[m]
      BY <1>4, <2>3 DEF SpinInv, S!TypeOK
    <3> QED BY <1>7, <2>3, <3>1 DEF SpinInv, SlockInv
  <2> QED BY <2>2, <2>3 DEF SlockInv
<1>9. CASE S!Won(slock'[l])
  <2>1. Cardinality(S!Tried(l)) = 0
    BY <1>1, <1>2, <1>5, <1>9 DEF S!Won
  <2>2. S!Tried(l) = {}
    BY <2>1, TriedFinite, FS_EmptySet DEF SpinInv
  <2>3. pc' = [pc EXCEPT ![t] = "hold"] /\ missed' = missed /\ k' = k
    BY <1>0, <1>9 DEF S!Decl
  <2>4. \A u \in S!Threads : ~(k[u] = l /\ pc[u] = "hold")
    BY <2>2 DEF S!Tried, S!Owners
  <2>5. S!SpinExclusion'
    BY <1>0, <2>3, <2>4 DEF SpinInv, S!TypeOK, S!SpinExclusion
  <2>6. MissedSpin'
    BY <1>1, <2>3 DEF SpinInv, S!TypeOK, MissedSpin
  <2>7. MissedOwned'
    BY <1>0, <1>1, <2>3 DEF SpinInv, S!TypeOK, MissedOwned, S!Owners
  <2> QED BY <1>6, <1>8, <2>5, <2>6, <2>7 DEF SpinInv
<1>10. CASE ~S!Won(slock'[l])
  <2>1. Cardinality(S!Tried(l)) # 0
    BY <1>1, <1>2, <1>5, <1>10 DEF S!Won
  <2>2. S!Tried(l) # {}
    BY <2>1, FS_EmptySet
  <2>3. /\ pc' = [pc EXCEPT ![t] = "spin"] /\ k' = k
        /\ missed' = [missed EXCEPT ![l] = missed[l] \cup {t}]
    BY <1>0, <1>10 DEF S!Decl
  <2>4. S!Owners(l) # {}
    BY <2>2 DEF SpinInv, MissedOwned, S!Tried
  <2>5. \A m \in S!Locks : S!Owners(m)' = S!Owners(m)
    BY <1>1, <2>3 DEF SpinInv, S!TypeOK, S!Owners
  <2>6. S!SpinExclusion'
    BY <1>1, <2>3 DEF SpinInv, S!TypeOK, S!SpinExclusion
  <2>7. MissedSpin'
    BY <1>0, <2>3 DEF SpinInv, S!TypeOK, MissedSpin
  <2>8. MissedOwned'
    BY <2>3, <2>4, <2>5 DEF SpinInv, S!TypeOK, MissedOwned
  <2> QED BY <1>6, <1>8, <2>6, <2>7, <2>8 DEF SpinInv
<1> QED BY <1>9, <1>10

LEMMA RetryStep ==
  ASSUME SpinInv, NEW t \in S!Threads, S!Retry(t)
  PROVE  SpinInv'
<1>0. PICK l \in S!Locks : l = k[t]
  BY DEF SpinInv, S!TypeOK
<1>1. /\ pc[t] = "spin" /\ pc' = [pc EXCEPT ![t] = "decl"]
      /\ UNCHANGED <<slock, k, left, go, created, missed>>
  BY DEF S!Retry, S!mainVars
<1>2. S!TypeOK'
  BY <1>1 DEF SpinInv, S!TypeOK
<1>3. \A m \in S!Locks : S!Owners(m)' = S!Owners(m) /\ S!Tried(m)' = S!Tried(m)
  BY <1>1 DEF SpinInv, S!TypeOK, S!Owners, S!Tried
<1>4. SlockInv' /\ MissedOwned'
  BY <1>1, <1>3 DEF SpinInv, SlockInv, MissedOwned
<1>5. S!SpinExclusion'
  BY <1>1 DEF SpinInv, S!TypeOK, S!SpinExclusion
<1>6. missed[l] = {}
  <2>1. slock[l] > 0 /\ slock[l] = 1 - Cardinality(S!Tried(l))
    BY <1>0 DEF S!Retry, S!SeemsFree, SpinInv, SlockInv
  <2>2. IsFiniteSet(S!Tried(l)) /\ Cardinality(S!Tried(l)) \in Nat
    BY TriedFinite, FS_CardinalityType DEF SpinInv
  <2>3. Cardinality(S!Tried(l)) = 0
    BY <2>1, <2>2
  <2>4. S!Tried(l) = {}
    BY <2>2, <2>3, FS_EmptySet
  <2> QED BY <2>4 DEF S!Tried
<1>7. MissedSpin'
  BY <1>0, <1>1, <1>6 DEF SpinInv, S!TypeOK, MissedSpin
<1> QED BY <1>2, <1>4, <1>5, <1>7 DEF SpinInv

LEMMA SpinUnlockStep ==
  ASSUME SpinInv, NEW t \in S!Threads, S!Unlock(t)
  PROVE  SpinInv'
<1> USE SpinLockAssumption
<1>0. PICK l \in S!Locks : l = k[t]
  BY DEF SpinInv, S!TypeOK
<1>1. /\ pc[t] = "hold" /\ S!NextLock(l) \in S!Locks
      /\ slock' = [slock EXCEPT ![l] = 1]
      /\ missed' = [missed EXCEPT ![l] = {}]
      /\ UNCHANGED <<go, created>>
  BY <1>0 DEF S!Unlock, S!Released, S!NextLock, S!Locks, S!mainVars
<1>2. \/ /\ left[t] > 0 /\ left' = [left EXCEPT ![t] = @ - 1]
         /\ k' = [k EXCEPT ![t] = S!NextLock(l)] /\ pc' = [pc EXCEPT ![t] = "decl"]
      \/ pc' = [pc EXCEPT ![t] = "done"] /\ UNCHANGED <<left, k>>
  BY <1>0 DEF S!Unlock, S!WalkOn, SpinInv, S!TypeOK
<1>3. S!TypeOK'
  <2>1. 1 \in Lowest .. 1
    OBVIOUS
  <2>2. left' \in [S!Threads -> 0 .. Iters] /\ k' \in [S!Threads -> S!Locks]
    BY <1>1, <1>2 DEF SpinInv, S!TypeOK
  <2> QED BY <1>1, <1>2, <2>1, <2>2 DEF SpinInv, S!TypeOK
<1>4. pc'[t] # "hold" /\ pc'[t] # "spin"
  BY <1>2 DEF SpinInv, S!TypeOK
<1>5. \A u \in S!Threads : u # t => pc'[u] = pc[u] /\ k'[u] = k[u]
  BY <1>2 DEF SpinInv, S!TypeOK
<1>6. S!Owners(l) = {t}
  BY <1>0, <1>1 DEF SpinInv, S!SpinExclusion, S!Owners
<1>7. S!Owners(l)' = {} /\ \A m \in S!Locks : m # l => S!Owners(m)' = S!Owners(m)
  BY <1>0, <1>4, <1>5, <1>6 DEF S!Owners
<1>8. /\ missed'[l] = {}
      /\ \A m \in S!Locks : m # l => missed'[m] = missed[m] /\ slock'[m] = slock[m]
      /\ slock'[l] = 1
  BY <1>1 DEF SpinInv, S!TypeOK
<1>9. S!Tried(l)' = {} /\ \A m \in S!Locks : m # l => S!Tried(m)' = S!Tried(m)
  BY <1>7, <1>8 DEF S!Tried
<1>10. SlockInv'
  <2>1. slock'[l] = 1 - Cardinality(S!Tried(l)')
    BY <1>8, <1>9, FS_EmptySet
  <2>2. \A m \in S!Locks : m # l => slock'[m] = 1 - Cardinality(S!Tried(m)')
    BY <1>8, <1>9 DEF SpinInv, SlockInv
  <2> QED BY <2>1, <2>2 DEF SlockInv
<1>11. S!SpinExclusion'
  BY <1>4, <1>5 DEF SpinInv, S!SpinExclusion
<1>12. MissedSpin'
  <2>1. \A m \in S!Locks : t \notin missed[m]
    BY <1>1 DEF SpinInv, MissedSpin
  <2> QED BY <1>5, <1>8, <2>1, <1>3 DEF SpinInv, S!TypeOK, MissedSpin
<1>13. MissedOwned'
  BY <1>7, <1>8 DEF SpinInv, MissedOwned
<1> QED BY <1>3, <1>10, <1>11, <1>12, <1>13 DEF SpinInv

LEMMA NextSpin == SpinInv /\ [S!Next]_(S!vars) => SpinInv'
<1> SUFFICES ASSUME SpinInv, [S!Next]_(S!vars) PROVE SpinInv'
  OBVIOUS
<1>1. CASE \E t \in S!Threads : S!Thread(t)
  BY <1>1, DeclStep, RetryStep, SpinUnlockStep DEF S!Thread
<1>2. CASE S!Create \/ S!Go \/ UNCHANGED S!vars
  <2>1. UNCHANGED <<slock, k, left, pc, missed>>
    BY <1>2 DEF S!Create, S!Go, S!CreateThread, S!SetGo, S!mainVars, S!vars
  <2>2. go' \in BOOLEAN /\ created' \in 0 .. N
    <3>1. CASE S!Create
      BY <3>1, SpinLockAssumption DEF SpinInv, S!TypeOK, S!Create, S!CreateThread
    <3>2. CASE S!Go
      BY <3>2 DEF SpinInv, S!TypeOK, S!Go, S!SetGo
    <3>3. CASE UNCHANGED S!vars
      BY <3>3 DEF SpinInv, S!TypeOK, S!vars, S!mainVars
    <3> QED BY <1>2, <3>1, <3>2, <3>3
  <2>3. S!TypeOK'
    BY <2>1, <2>2 DEF SpinInv, S!TypeOK
  <2>4. \A l \in S!Locks : S!Owners(l)' = S!Owners(l) /\ S!Tried(l)' = S!Tried(l)
    BY <2>1 DEF S!Owners, S!Tried
  <2>5. SlockInv' /\ S!SpinExclusion' /\ MissedSpin' /\ MissedOwned'
    BY <2>1, <2>4 DEF SpinInv, SlockInv, S!SpinExclusion, MissedSpin, MissedOwned
  <2> QED BY <2>3, <2>5 DEF SpinInv
<1> QED BY <1>1, <1>2 DEF S!Next

-----------------------------------------------------------------------------
(* The decrement lock: the theorems *)

\* The inductive invariant holds throughout.
THEOREM SpinInvariance == S!Spec => []SpinInv
<1> QED BY InitSpin, NextSpin, PTL DEF S!Spec

\* slock never leaves its width, so the decrement of a loser never wraps to a
\* value that would admit a second owner.
THEOREM SpinTypeCorrect == S!Spec => []S!TypeOK
<1>1. SpinInv => S!TypeOK
  BY DEF SpinInv
<1> QED BY <1>1, SpinInvariance, PTL

\* spin_lock excludes for any number of threads.
THEOREM SpinExcludes == S!Spec => []S!SpinExclusion
<1>1. SpinInv => S!SpinExclusion
  BY DEF SpinInv
<1> QED BY <1>1, SpinInvariance, PTL

\* slock is 1 less the threads that have decremented it since the last unlock.
THEOREM Counting == S!Spec => []S!SlockCounts
<1>1. SpinInv => S!SlockCounts
  BY DEF SpinInv, SlockInv, S!SlockCounts, Cardinality, S!Cardinality, IsFiniteSet,
       S!IsFiniteSet
<1> QED BY <1>1, SpinInvariance, PTL

\* A lock is positive exactly when it has no owner: no waiter spins on a lock
\* that nobody will unlock.
THEOREM NoAbandonedLock == S!Spec => []S!FreeIffPositive
<1>1. SpinInv => S!FreeIffPositive
  <2> SUFFICES ASSUME SpinInv, NEW l \in S!Locks
               PROVE  slock[l] > 0 <=> S!Owners(l) = {}
    BY DEF S!FreeIffPositive
  <2>1. IsFiniteSet(S!Tried(l)) /\ Cardinality(S!Tried(l)) \in Nat
    BY TriedFinite, FS_CardinalityType DEF SpinInv
  <2>2. slock[l] = 1 - Cardinality(S!Tried(l))
    BY DEF SpinInv, SlockInv
  <2>3. S!Tried(l) = {} <=> S!Owners(l) = {}
    BY DEF SpinInv, MissedOwned, S!Tried
  <2>4. Cardinality(S!Tried(l)) = 0 <=> S!Tried(l) = {}
    BY <2>1, FS_EmptySet
  <2> QED BY <2>1, <2>2, <2>3, <2>4
<1> QED BY <1>1, SpinInvariance, PTL

-----------------------------------------------------------------------------
(* qspins as a whole: main starts the threads of one kind of lock, and the    *)
(* invariant of that kind holds throughout.                                   *)

QInv ==
  \/ test = "TICKLOCK" /\ IInv
  \/ test = "SPINLOCK" /\ SpinInv /\ ticket = [t \in Threads |-> 0]

LEMMA InitQInv == MCInit => QInv
<1> SUFFICES ASSUME MCInit PROVE QInv
  OBVIOUS
<1>1. CASE test = "TICKLOCK" /\ StartAt("lock")
  BY <1>1, InitIInv DEF MCInit, Init, QInv
<1>2. CASE test = "SPINLOCK" /\ StartAt("decl")
  <2>1. S!Init
    BY <1>2 DEF MCInit, S!Init, S!StartAt, StartAt, S!Threads, Threads
  <2>2. SpinInv
    BY <2>1, InitSpin, TicketLockAssumption, SpinLockAssumption
  <2> QED BY <1>2, <2>2 DEF MCInit, tspin_lock_init, QInv
<1> QED BY <1>1, <1>2 DEF MCInit

LEMMA NextQInv == QInv /\ [MCNext]_allVars => QInv'
<1> SUFFICES ASSUME QInv, [MCNext]_allVars PROVE QInv'
  OBVIOUS
<1>1. CASE test = "TICKLOCK" /\ IInv
  <2>1. [Next]_vars /\ test' = test
    BY <1>1 DEF MCNext, Main, TicketThread, SpinThread, Next, allVars
  <2> QED BY <1>1, <2>1, NextIInv DEF QInv
<1>2. CASE test = "SPINLOCK" /\ SpinInv /\ ticket = [t \in Threads |-> 0]
  <2>1. [S!Next]_(S!vars) /\ test' = test /\ ticket' = ticket
    <3>1. CASE Main
      BY <3>1 DEF Main, Create, Go, CreateThread, SetGo, spinVars, history, S!Next,
           S!Create, S!Go, S!CreateThread, S!SetGo
    <3>2. CASE \E t \in Threads : SpinThread(t)
      BY <3>2 DEF SpinThread, ticketVars, history, S!Next, S!Threads, Threads
    <3>3. CASE UNCHANGED allVars
      BY <3>3 DEF allVars, vars, mainVars, spinVars, history, S!vars, S!mainVars
    <3> QED BY <1>2, <3>1, <3>2, <3>3 DEF MCNext, TicketThread
  <2>2. SpinInv'
    BY <1>2, <2>1, NextSpin, TicketLockAssumption, SpinLockAssumption
  <2> QED BY <1>2, <2>1, <2>2 DEF QInv
<1> QED BY <1>1, <1>2 DEF QInv

\* qspins, with -s or without: whichever lock the threads use excludes, and the
\* ticket lock is granted in order.
THEOREM Program == MCSpec => [](MutualExclusion /\ FirstComeFirstServed /\ SpinExclusion)
<1>1. MCInit /\ [][MCNext]_allVars => []QInv
  BY InitQInv, NextQInv, PTL
<1>2. QInv => MutualExclusion /\ FirstComeFirstServed /\ SpinExclusion
  <2> SUFFICES ASSUME QInv PROVE MutualExclusion /\ FirstComeFirstServed /\ SpinExclusion
    OBVIOUS
  <2>1. CASE test = "TICKLOCK" /\ IInv
    BY <2>1, OwnerIs DEF SpinExclusion
  <2>2. CASE test = "SPINLOCK" /\ SpinInv /\ ticket = [t \in Threads |-> 0]
    <3>1. S!SpinExclusion
      BY <2>2 DEF SpinInv, S!SpinExclusion
    <3>2. MutualExclusion
      BY <2>2 DEF SpinInv, S!TypeOK, S!SpinExclusion, S!Threads, Threads,
           MutualExclusion, Holds
    <3>3. FirstComeFirstServed
      BY <2>2 DEF FirstComeFirstServed
    <3> QED BY <3>1, <3>2, <3>3 DEF SpinExclusion
  <2> QED BY <2>1, <2>2 DEF QInv
<1> QED BY <1>1, <1>2, PTL DEF MCSpec
=============================================================================
