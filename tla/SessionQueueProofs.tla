------------------------- MODULE SessionQueueProofs -------------------------
(***************************************************************************)
(* Safety of one per_cpu_ctx of thrplhttp.c for any number of service      *)
(* threads, any queue size and any number of connections and signals.      *)
(***************************************************************************)
EXTENDS SessionQueue, Sequences, FiniteSetTheorems, TLAPS

\* Who owns pcx->mtx is readable from where the threads are.
MutexInv ==
  /\ \A w \in Workers : mtx = w <=> pc[w] \in {"dtest", "dsleep"}
  /\ mtx = Acceptor <=> pc[Acceptor] \in {"qtest", "qsleep"}

\* What a thread has established before it sleeps still holds.
SleepInv ==
  /\ \A w \in Workers : w \in cnd => pc[w] = "dwait"
  /\ \A w \in Workers : pc[w] = "dsleep" => qcount = 0
  /\ Acceptor \in dqcnd => pc[Acceptor] = "qwait" /\ qcount = QSize
  /\ pc[Acceptor] = "qsleep" => qcount = QSize
  /\ qwait = IF pc[Acceptor] \in {"qsleep", "qwait"} THEN 1 ELSE 0

\* A thread that is about to use its descriptor has one.
HandInv ==
  /\ \A w \in Workers : pc[w] = "serve" => cfd[w] \in Conns
  /\ pc[Acceptor] \in {"acount", "qlock", "qtest", "qsleep", "qwait"}
       => cfd[Acceptor] \in Conns

\* The two positions are qcount apart and the slots between them are written.
RingInv ==
  /\ wqpos = (rqpos + qcount) % QSize
  /\ \A i \in 0 .. qcount - 1 : squeue[Slot(i)] \in Conns

CountInv ==
  /\ pipe <= stopsvr
  /\ mainpc # "poll" => pipe > 0
  /\ pc[Acceptor] = "aaccept" => naccept < MaxConns
  /\ naccept = conns + (IF pc[Acceptor] = "acount" THEN 1 ELSE 0)

\* After the broadcast, the thread that owned the mutex between test and
\* sleep is the only one that can be asleep.
Misses(w) == w \in cnd \/ pc[w] = "dsleep"
MissInv ==
  mainpc \in {"join", "done"}
    => \A u, v \in Workers : Misses(u) /\ Misses(v) => u = v

IInv ==
  TypeOK /\ MutexInv /\ SleepInv /\ HandInv /\ RingInv /\ CountInv /\ MissInv

-----------------------------------------------------------------------------
(* Where every accepted connection is *)

Holding == {"acount", "qlock", "qtest", "qsleep", "qwait"}

\* Of the accepted connections, one may be in the acceptor's hand and one may
\* be lost; Entered have been put into the ring, and Gone taken out again.
Held == IF pc[Acceptor] \in Holding THEN 1 ELSE 0
Lost == IF dropped = {} THEN 0 ELSE 1
Entered == naccept - Held - Lost
Gone == Entered - qcount

\* The ring holds the connections after the first Gone, in the order of
\* accept(); what the acceptor holds, or has dropped, is the last one accepted,
\* and after a drop it accepts no more.
OrderInv ==
  /\ Gone >= 0
  /\ pc[Acceptor] \in Holding => cfd[Acceptor] = naccept
  /\ dropped # {} =>
       dropped = {naccept} /\ stopsvr # 0 /\ pc[Acceptor] \in {"aloop", "exit"}
  /\ \A i \in 0 .. qcount - 1 : squeue[Slot(i)] = Gone + 1 + i

\* What was taken out is closed or with a service thread.
ServeInv ==
  /\ \A w \in Workers : pc[w] # "serve" => cfd[w] = NoFd
  /\ \A c \in Conns : c <= Gone <=> c \in closed \/ \E w \in Workers : cfd[w] = c

\* Once a service thread has returned, at most one more connection is put into
\* the ring or dropped.
Pending == IF pc[Acceptor] \in {"aloop", "exit"} THEN 0 ELSE 1
ExitInv ==
  (\E w \in Workers : pc[w] = "exit") => stopsvr # 0 /\ qcount + Pending + Lost <= 1

PlaceInv == OrderInv /\ ServeInv /\ ExitInv

-----------------------------------------------------------------------------
(* Positions in the ring *)

LEMMA ModSmall ==
  ASSUME NEW n \in Nat \ {0}, NEW x \in 0 .. n - 1
  PROVE  x % n = x
OBVIOUS

\* Moving a position by one stays in the ring and shifts the slots by one.
LEMMA AdvanceShifts ==
  ASSUME NEW n \in Nat \ {0}, NEW a \in 0 .. n - 1, NEW i \in 0 .. n - 1
  PROVE  /\ (a + 1) % n \in 0 .. n - 1
         /\ (((a + 1) % n) + i) % n = (a + (i + 1)) % n
<1>1. (a + 1) % n = IF a + 1 < n THEN a + 1 ELSE 0
  OBVIOUS
<1>2. CASE a + 1 < n
  BY <1>1, <1>2
<1>3. CASE a + 1 >= n
  <2>1. a + (i + 1) = n + i
    BY <1>3
  <2>2. (n + i) % n = i /\ i % n = i
    OBVIOUS
  <2> QED BY <1>1, <1>3, <2>1, <2>2
<1> QED
  BY <1>2, <1>3

\* The slot after the one at offset i is the one at offset i + 1.
LEMMA AdvanceSlot ==
  ASSUME NEW n \in Nat \ {0}, NEW a \in 0 .. n - 1, NEW i \in 0 .. n - 1
  PROVE  (((a + i) % n) + 1) % n = (a + (i + 1)) % n
<1>1. CASE a + i < n
  BY <1>1, ModSmall
<1>2. CASE a + i >= n
  <2>1. (a + i) % n = a + i - n
    BY <1>2
  <2>2. (a + i - n + 1) % n = a + i - n + 1
    BY <1>2
  <2>3. (a + (i + 1)) % n = a + (i + 1) - n
    BY <1>2
  <2> QED BY <2>1, <2>2, <2>3
<1> QED BY <1>1, <1>2

\* Different offsets below the size are different slots.
LEMMA SlotsDiffer ==
  ASSUME NEW n \in Nat \ {0}, NEW a \in 0 .. n - 1,
         NEW i \in 0 .. n - 1, NEW j \in 0 .. n - 1, i # j
  PROVE  (a + i) % n \in 0 .. n - 1 /\ (a + i) % n # (a + j) % n
OBVIOUS

\* A signal only takes a thread out of the set.
LEMMA WakeOneSubset ==
  ASSUME NEW S, NEW T \in WakeOne(S)
  PROVE  /\ T \subseteq S
         /\ S # {} => \E t \in S : T = S \ {t}
<1>1. CASE S = {}
  BY <1>1 DEF WakeOne
<1>2. CASE S # {}
  BY <1>2 DEF WakeOne
<1> QED BY <1>1, <1>2

-----------------------------------------------------------------------------
LEMMA InitEstablishes == Init => IInv
<1> SUFFICES ASSUME Init PROVE IInv
  OBVIOUS
<1>1. (0 + 0) % QSize = 0
  BY SessionQueueAssumption, ModSmall
<1> QED
  BY <1>1, SessionQueueAssumption
     DEF Init, IInv, TypeOK, MutexInv, SleepInv, HandInv, RingInv, CountInv,
         MissInv, Misses, Threads, Conns, NoFd, Garbage, Labels, AcceptorLabels

-----------------------------------------------------------------------------
(* The two steps that move the ring *)

LEMMA DequeueTakeStep ==
  ASSUME IInv, NEW w \in Workers, DequeueTake(w)
  PROVE  IInv'
<1>1. /\ QSize \in Nat \ {0} /\ qcount \in 1 .. QSize
      /\ rqpos \in 0 .. QSize - 1 /\ wqpos \in 0 .. QSize - 1
      /\ qcount' = qcount - 1 /\ rqpos' = (rqpos + 1) % QSize
      /\ UNCHANGED <<squeue, wqpos>>
  BY SessionQueueAssumption DEF DequeueTake, IInv, TypeOK, Advance
<1>2. rqpos' \in 0 .. QSize - 1
  BY <1>1, AdvanceShifts
<1>3. \A i \in 0 .. QSize - 1 : (rqpos' + i) % QSize = (rqpos + (i + 1)) % QSize
  BY <1>1, AdvanceShifts
<1>4. squeue[rqpos] \in Conns
  <2>1. rqpos = (rqpos + 0) % QSize
    BY <1>1, ModSmall
  <2>2. \A i \in 0 .. qcount - 1 : squeue[(rqpos + i) % QSize] \in Conns
    BY DEF IInv, RingInv, Slot
  <2> QED BY <1>1, <2>1, <2>2
<1>5. dqcnd' \subseteq dqcnd /\ (qwait > 0 => Acceptor \notin dqcnd')
  BY WakeOneSubset DEF DequeueTake, SignalRoom, IInv, TypeOK
<1>6. RingInv'
  <2>1. wqpos = (rqpos + qcount) % QSize
        /\ \A i \in 0 .. qcount - 1 : squeue[(rqpos + i) % QSize] \in Conns
    BY DEF IInv, RingInv, Slot
  <2>2. wqpos' = (rqpos' + qcount') % QSize
    <3>1. qcount' \in 0 .. QSize - 1 /\ qcount' + 1 = qcount
      BY <1>1
    <3>2. (rqpos' + qcount') % QSize = (rqpos + (qcount' + 1)) % QSize
      BY <1>3, <3>1, Zenon
    <3> QED BY <1>1, <2>1, <3>1, <3>2, Zenon
  <2>3. ASSUME NEW i \in 0 .. qcount' - 1
        PROVE  squeue'[(rqpos' + i) % QSize] \in Conns
    <3>1. i \in 0 .. QSize - 1 /\ i + 1 \in 0 .. qcount - 1
      BY <1>1
    <3>2. squeue[(rqpos + (i + 1)) % QSize] \in Conns
      BY <2>1, <3>1, Zenon
    <3> QED BY <1>1, <1>3, <3>1, <3>2, Zenon
  <2> QED BY <2>2, <2>3 DEF RingInv, Slot
<1>7. TypeOK'
  BY <1>1, <1>2, <1>4, <1>5
     DEF DequeueTake, IInv, TypeOK, Goto, Threads, Labels, AcceptorLabels,
         outside, history
<1>8. MutexInv' /\ HandInv' /\ CountInv' /\ MissInv'
  BY <1>4, SessionQueueAssumption
     DEF DequeueTake, IInv, TypeOK, MutexInv, HandInv, CountInv, MissInv,
         Misses, Goto, Threads, outside, history
<1>9. SleepInv'
  BY <1>1, <1>5, SessionQueueAssumption
     DEF DequeueTake, IInv, TypeOK, SleepInv, MutexInv, Goto, Threads
<1> QED BY <1>6, <1>7, <1>8, <1>9 DEF IInv

LEMMA QueuePutStep ==
  ASSUME IInv, QueuePut
  PROVE  IInv'
<1>1. /\ QSize \in Nat \ {0} /\ qcount \in 0 .. QSize - 1
      /\ rqpos \in 0 .. QSize - 1 /\ wqpos \in 0 .. QSize - 1
      /\ qcount' = qcount + 1 /\ wqpos' = (wqpos + 1) % QSize
      /\ cfd[Acceptor] \in Conns
      /\ squeue \in [0 .. QSize - 1 -> Conns \cup {Garbage}]
      /\ squeue' = [squeue EXCEPT ![wqpos] = cfd[Acceptor]]
      /\ UNCHANGED rqpos
  BY SessionQueueAssumption DEF QueuePut, IInv, TypeOK, HandInv, Advance
<1>2. /\ wqpos = (rqpos + qcount) % QSize
      /\ \A i \in 0 .. qcount - 1 : squeue[(rqpos + i) % QSize] \in Conns
  BY DEF IInv, RingInv, Slot
<1>3. wqpos' \in 0 .. QSize - 1 /\ wqpos' = (rqpos + (qcount + 1)) % QSize
  BY <1>1, <1>2, AdvanceShifts, AdvanceSlot
<1>4. RingInv'
  <2>1. ASSUME NEW i \in 0 .. qcount
        PROVE  squeue'[(rqpos + i) % QSize] \in Conns
    <3>1. CASE i = qcount
      BY <1>1, <1>2, <3>1
    <3>2. CASE i # qcount
      <4>1. /\ (rqpos + i) % QSize \in 0 .. QSize - 1
            /\ (rqpos + i) % QSize # (rqpos + qcount) % QSize
        <5>1. i \in 0 .. QSize - 1 /\ i \in 0 .. qcount - 1
          BY <1>1, <3>2
        <5> QED BY <1>1, <3>2, <5>1, SlotsDiffer, Zenon
      <4>2. squeue[(rqpos + i) % QSize] \in Conns
        <5>1. i \in 0 .. qcount - 1
          BY <1>1, <3>2
        <5> QED BY <1>2, <5>1, Zenon
      <4> QED BY <1>1, <1>2, <4>1, <4>2
    <3> QED BY <3>1, <3>2
  <2> QED BY <1>1, <1>3, <2>1 DEF RingInv, Slot
<1>5. cnd' \subseteq cnd
  BY WakeOneSubset DEF QueuePut, SignalSession
<1>6. TypeOK'
  BY <1>1, <1>3, <1>5, SessionQueueAssumption
     DEF QueuePut, IInv, TypeOK, Goto, Threads, AcceptorLabels, outside, history
<1>7. MutexInv' /\ HandInv' /\ CountInv' /\ MissInv'
  BY <1>5, SessionQueueAssumption
     DEF QueuePut, IInv, TypeOK, MutexInv, HandInv, CountInv, MissInv, Misses,
         Goto, Threads, outside, history
<1>8. SleepInv'
  BY <1>1, <1>5, SessionQueueAssumption
     DEF QueuePut, IInv, TypeOK, SleepInv, MutexInv, Goto, Threads
<1> QED BY <1>4, <1>6, <1>7, <1>8 DEF IInv

-----------------------------------------------------------------------------
LEMMA StepPreserves == IInv /\ [Next]_vars => IInv'
<1> SUFFICES ASSUME IInv, [Next]_vars PROVE IInv'
  OBVIOUS
<1> USE SessionQueueAssumption
<1> USE DEF IInv, TypeOK, MutexInv, SleepInv, HandInv, RingInv, CountInv,
            MissInv, Misses, Slot, Threads, Labels, AcceptorLabels, Goto,
            outside, ring, history
<1>1. ASSUME NEW w \in Workers, DequeueLock(w) PROVE IInv'
  BY <1>1 DEF DequeueLock
<1>2. ASSUME NEW w \in Workers, DequeueMustWait(w) PROVE IInv'
  BY <1>2 DEF DequeueMustWait
<1>3. ASSUME NEW w \in Workers, DequeueSleep(w) PROVE IInv'
  BY <1>3 DEF DequeueSleep
<1>4. ASSUME NEW w \in Workers, DequeueTake(w) PROVE IInv'
  BY <1>4, DequeueTakeStep
<1>5. ASSUME NEW w \in Workers, DequeueExit(w) PROVE IInv'
  BY <1>5 DEF DequeueExit
<1>6. ASSUME NEW w \in Workers, ProcessSession(w) PROVE IInv'
  BY <1>6 DEF ProcessSession
<1>7. ASSUME AcceptorLoop PROVE IInv'
  BY <1>7 DEF AcceptorLoop
<1>8. ASSUME AcceptPoll PROVE IInv'
  BY <1>8 DEF AcceptPoll
<1>9. ASSUME AcceptOk PROVE IInv'
  BY <1>9, SMTT(30) DEF AcceptOk, Conns
<1>10. ASSUME AcceptFail PROVE IInv'
  BY <1>10 DEF AcceptFail
<1>11. ASSUME CountConnection PROVE IInv'
  BY <1>11 DEF CountConnection
<1>12. ASSUME QueueLock PROVE IInv'
  BY <1>12 DEF QueueLock
<1>13. ASSUME QueueMustWait PROVE IInv'
  BY <1>13 DEF QueueMustWait
<1>14. ASSUME QueueSleep PROVE IInv'
  BY <1>14 DEF QueueSleep
<1>15. ASSUME QueuePut PROVE IInv'
  BY <1>15, QueuePutStep
<1>16. ASSUME QueueDrop PROVE IInv'
  BY <1>16 DEF QueueDrop
<1>17. ASSUME SigIntStop PROVE IInv'
  BY <1>17 DEF SigIntStop
<1>18. ASSUME SigIntWrite PROVE IInv'
  BY <1>18 DEF SigIntWrite
<1>19. ASSUME MainPoll PROVE IInv'
  BY <1>19 DEF MainPoll
<1>20. ASSUME MainClose PROVE IInv'
  BY <1>20 DEF MainClose
<1>21. ASSUME MainBroadcast PROVE IInv'
  BY <1>21 DEF MainBroadcast
<1>22. ASSUME MainJoin PROVE IInv'
  BY <1>22 DEF MainJoin
<1>23. ASSUME SpuriousWakeup PROVE IInv'
  BY <1>23 DEF SpuriousWakeup
<1>24. ASSUME UNCHANGED vars PROVE IInv'
  <2>1. TypeOK'
    BY <1>24 DEF vars
  <2>2. MutexInv' /\ SleepInv' /\ HandInv'
    BY <1>24 DEF vars
  <2>3. RingInv' /\ CountInv' /\ MissInv'
    BY <1>24 DEF vars
  <2> QED BY <2>1, <2>2, <2>3
<1> QED
  BY <1>1, <1>2, <1>3, <1>4, <1>5, <1>6, <1>7, <1>8, <1>9, <1>10, <1>11,
     <1>12, <1>13, <1>14, <1>15, <1>16, <1>17, <1>18, <1>19, <1>20, <1>21,
     <1>22, <1>23, <1>24
     DEF Next, Service, Dequeue, Accept, Main, Terminated

-----------------------------------------------------------------------------
(* One signal per queued session is enough *)

LEMMA HungryFinite ==
  /\ IsFiniteSet(Hungry) /\ Cardinality(Hungry) \in Nat
  /\ IsFiniteSet(Hungry') /\ Cardinality(Hungry') \in Nat
<1>1. Hungry \subseteq Workers /\ Hungry' \subseteq Workers
  BY DEF Hungry
<1> QED BY <1>1, SessionQueueAssumption, FS_Subset, FS_CardinalityType

\* A step that makes no worker less hungry and queues nothing.
LEMMA HungryGrows ==
  ASSUME IInv, NoSleepWhileQueued, Hungry \subseteq Hungry', qcount' = qcount,
         cnd' # {} => cnd # {}
  PROVE  NoSleepWhileQueued'
<1>1. Cardinality(Hungry) <= Cardinality(Hungry')
  BY HungryFinite, FS_Subset
<1> QED BY <1>1, HungryFinite DEF NoSleepWhileQueued, IInv, TypeOK

\* With an empty ring there is nothing to show.
LEMMA EmptyRing ==
  ASSUME qcount' = 0
  PROVE  NoSleepWhileQueued'
BY HungryFinite DEF NoSleepWhileQueued

LEMMA NoSleepStep == IInv /\ NoSleepWhileQueued /\ [Next]_vars => NoSleepWhileQueued'
<1> SUFFICES ASSUME IInv, NoSleepWhileQueued, [Next]_vars
             PROVE  NoSleepWhileQueued'
  OBVIOUS
<1>1. ASSUME NEW w \in Workers, DequeueMustWait(w) \/ DequeueSleep(w) \/ DequeueExit(w)
      PROVE  NoSleepWhileQueued'
  <2>1. qcount' = 0
    BY <1>1 DEF DequeueMustWait, DequeueSleep, DequeueExit, IInv, SleepInv, ring
  <2> QED BY <2>1, EmptyRing
<1>2. ASSUME NEW w \in Workers, DequeueTake(w)
      PROVE  NoSleepWhileQueued'
  <2>1. w \in Hungry /\ Hungry' = Hungry \ {w}
    BY <1>2, SessionQueueAssumption
       DEF DequeueTake, Hungry, Goto, IInv, TypeOK, SleepInv, Threads
  <2>2. Cardinality(Hungry') = Cardinality(Hungry) - 1
    BY <2>1, HungryFinite, FS_RemoveElement
  <2>3. cnd' = cnd /\ qcount' = qcount - 1 /\ qcount \in Int
    BY <1>2 DEF DequeueTake, IInv, TypeOK
  <2> QED BY <2>2, <2>3, HungryFinite DEF NoSleepWhileQueued
<1>3. ASSUME QueuePut PROVE NoSleepWhileQueued'
  <2>1. CASE cnd = {}
    BY <1>3, <2>1, WakeOneSubset DEF QueuePut, SignalSession, NoSleepWhileQueued
  <2>2. CASE cnd # {}
    <3>1. PICK t \in cnd : cnd' = cnd \ {t}
      BY <1>3, <2>2, WakeOneSubset DEF QueuePut, SignalSession
    <3>2. t \notin Hungry /\ Hungry' = Hungry \cup {t}
      BY <1>3, <3>1, SessionQueueAssumption
         DEF QueuePut, Hungry, Goto, IInv, TypeOK, SleepInv, Threads
    <3>3. Cardinality(Hungry') = Cardinality(Hungry) + 1
      BY <3>2, HungryFinite, FS_AddElement
    <3>4. qcount' = qcount + 1 /\ qcount \in Int
      BY <1>3 DEF QueuePut, IInv, TypeOK
    <3> QED BY <2>2, <3>3, <3>4, HungryFinite DEF NoSleepWhileQueued
  <2> QED BY <2>1, <2>2
<1>4. ASSUME NEW w \in Workers, DequeueLock(w) \/ ProcessSession(w)
      PROVE  NoSleepWhileQueued'
  <2>1. Hungry \subseteq Hungry' /\ qcount' = qcount /\ cnd' = cnd
    BY <1>4, SessionQueueAssumption
       DEF DequeueLock, ProcessSession, Hungry, Goto, ring, IInv, TypeOK, Threads
  <2> QED BY <2>1, HungryGrows
<1>5. ASSUME \/ AcceptorLoop \/ AcceptPoll \/ AcceptOk \/ AcceptFail
             \/ CountConnection \/ QueueLock \/ QueueMustWait \/ QueueSleep
             \/ QueueDrop
      PROVE  NoSleepWhileQueued'
  <2>1. \E l \in AcceptorLabels : pc' = [pc EXCEPT ![Acceptor] = l]
    BY <1>5 DEF AcceptorLoop, AcceptPoll, AcceptOk, AcceptFail, CountConnection,
                QueueLock, QueueMustWait, QueueSleep, QueueDrop, Goto, AcceptorLabels
  <2>2. qcount' = qcount /\ cnd' = cnd
    BY <1>5 DEF AcceptorLoop, AcceptPoll, AcceptOk, AcceptFail, CountConnection,
                QueueLock, QueueMustWait, QueueSleep, QueueDrop, ring
  <2>3. Hungry \subseteq Hungry'
    BY <2>1, <2>2, SessionQueueAssumption DEF Hungry, IInv, TypeOK, Threads
  <2> QED BY <2>2, <2>3, HungryGrows
<1>6. ASSUME \/ SigIntStop \/ SigIntWrite \/ Main \/ SpuriousWakeup
             \/ UNCHANGED vars
      PROVE  NoSleepWhileQueued'
  <2>1. qcount' = qcount /\ pc' = pc /\ cnd' \subseteq cnd
    BY <1>6 DEF SigIntStop, SigIntWrite, Main, MainPoll, MainClose, MainBroadcast,
                MainJoin, SpuriousWakeup, vars, ring
  <2>2. Hungry \subseteq Hungry'
    BY <2>1 DEF Hungry
  <2> QED BY <2>1, <2>2, HungryGrows
<1> QED
  BY <1>1, <1>2, <1>3, <1>4, <1>5, <1>6 DEF Next, Service, Dequeue, Accept, Terminated

-----------------------------------------------------------------------------
(* Every connection keeps its place *)

LEMMA InitPlaces == Init => PlaceInv
BY SessionQueueAssumption
   DEF Init, PlaceInv, OrderInv, ServeInv, ExitInv, Pending, Held, Lost, Entered,
       Gone, Holding, Threads, Conns, NoFd

\* The first slot is the one DequeueTake reads, the others move up by one.
LEMMA TakeShifts ==
  ASSUME IInv, PlaceInv, NEW w \in Workers, DequeueTake(w)
  PROVE  /\ squeue[rqpos] = Gone + 1
         /\ \A i \in 0 .. qcount' - 1 : squeue'[Slot(i)'] = Gone + 2 + i
<1>1. /\ QSize \in Nat \ {0} /\ qcount \in 1 .. QSize
      /\ rqpos \in 0 .. QSize - 1
      /\ qcount' = qcount - 1 /\ rqpos' = (rqpos + 1) % QSize
      /\ squeue' = squeue
  BY SessionQueueAssumption DEF DequeueTake, IInv, TypeOK, Advance
<1>2. \A i \in 0 .. QSize - 1 : (rqpos' + i) % QSize = (rqpos + (i + 1)) % QSize
  BY <1>1, AdvanceShifts
<1>3. \A i \in 0 .. qcount - 1 : squeue[(rqpos + i) % QSize] = Gone + 1 + i
  BY DEF PlaceInv, OrderInv, Slot
<1>4. Gone \in Int
  BY DEF IInv, TypeOK, Gone, Entered, Held, Lost
<1>5. squeue[rqpos] = Gone + 1
  <2>1. rqpos = (rqpos + 0) % QSize
    BY <1>1, ModSmall
  <2>2. 0 \in 0 .. qcount - 1
    BY <1>1
  <2>3. squeue[(rqpos + 0) % QSize] = Gone + 1 + 0
    BY <1>3, <2>2, Zenon
  <2> QED BY <1>4, <2>1, <2>3
<1>6. ASSUME NEW i \in 0 .. qcount' - 1
      PROVE  squeue'[(rqpos' + i) % QSize] = Gone + 2 + i
  <2>1. i \in 0 .. QSize - 1 /\ i + 1 \in 0 .. qcount - 1
    BY <1>1
  <2>2. squeue[(rqpos + (i + 1)) % QSize] = Gone + 1 + (i + 1)
    BY <1>3, <2>1, Zenon
  <2>3. squeue'[(rqpos' + i) % QSize] = squeue[(rqpos + (i + 1)) % QSize]
    BY <1>1, <1>2, <2>1, Zenon
  <2> QED BY <1>1, <1>4, <2>2, <2>3
<1> QED BY <1>5, <1>6 DEF Slot

LEMMA TakePlaces ==
  ASSUME IInv, PlaceInv, NEW w \in Workers, DequeueTake(w)
  PROVE  PlaceInv'
<1> USE SessionQueueAssumption
<1>1. /\ qcount \in 1 .. QSize /\ qcount' = qcount - 1
      /\ cfd' = [cfd EXCEPT ![w] = squeue[rqpos]]
      /\ pc' = [pc EXCEPT ![w] = "serve"] /\ pc[w] = "dtest"
      /\ UNCHANGED <<stopsvr, naccept, dropped, closed, squeue>>
      /\ naccept \in 0 .. MaxConns
      /\ cfd \in [Threads -> Conns \cup {NoFd}]
      /\ pc \in [Threads -> Labels \cup AcceptorLabels]
      /\ pc'[Acceptor] = pc[Acceptor] /\ cfd'[Acceptor] = cfd[Acceptor]
  BY DEF DequeueTake, IInv, TypeOK, Goto, outside, history, Threads
<1>2. /\ Held' = Held /\ Lost' = Lost /\ Entered' = Entered /\ Pending' = Pending
      /\ Gone' = Gone + 1 /\ Gone \in Int
  BY <1>1 DEF Held, Lost, Entered, Gone, Pending
<1>3. OrderInv'
  <2>1. \A i \in 0 .. qcount' - 1 : squeue'[Slot(i)'] = Gone + 2 + i
    BY TakeShifts
  <2> QED BY <1>1, <1>2, <2>1 DEF PlaceInv, OrderInv
<1>4. ServeInv'
  <2>1. squeue[rqpos] = Gone + 1
    BY TakeShifts
  <2>2. ASSUME NEW v \in Workers, pc'[v] # "serve" PROVE cfd'[v] = NoFd
    BY <1>1, <2>2 DEF PlaceInv, ServeInv, Threads
  <2>3. cfd[w] = NoFd
    BY <1>1 DEF PlaceInv, ServeInv
  <2>4. ASSUME NEW c \in Conns
        PROVE  c <= Gone + 1 <=> c \in closed \/ \E v \in Workers : cfd'[v] = c
    <3>1. \A v \in Workers : cfd'[v] = IF v = w THEN Gone + 1 ELSE cfd[v]
      BY <1>1, <2>1 DEF Threads
    <3>2. c # NoFd
      BY DEF Conns, NoFd
    <3>3. (\E v \in Workers : cfd'[v] = c) <=> c = Gone + 1 \/ \E v \in Workers : cfd[v] = c
      BY <2>3, <3>1, <3>2
    <3>4. c <= Gone <=> c \in closed \/ \E v \in Workers : cfd[v] = c
      BY DEF PlaceInv, ServeInv
    <3>5. c <= Gone + 1 <=> c <= Gone \/ c = Gone + 1
      BY <1>2 DEF Conns
    <3> QED BY <3>3, <3>4, <3>5
  <2> QED BY <1>1, <1>2, <2>2, <2>4 DEF ServeInv
<1>5. ExitInv'
  BY <1>1, <1>2 DEF PlaceInv, ExitInv, Lost, Pending, Threads
<1> QED BY <1>3, <1>4, <1>5 DEF PlaceInv

LEMMA PutPlaces ==
  ASSUME IInv, PlaceInv, QueuePut
  PROVE  PlaceInv'
<1> USE SessionQueueAssumption
<1>1. /\ QSize \in Nat \ {0} /\ qcount \in 0 .. QSize - 1
      /\ rqpos \in 0 .. QSize - 1 /\ naccept \in 0 .. MaxConns
      /\ qcount' = qcount + 1
      /\ squeue \in [0 .. QSize - 1 -> Conns \cup {Garbage}]
      /\ squeue' = [squeue EXCEPT ![wqpos] = cfd[Acceptor]]
      /\ wqpos \in 0 .. QSize - 1
      /\ cfd' = [cfd EXCEPT ![Acceptor] = NoFd]
      /\ pc' = [pc EXCEPT ![Acceptor] = "aloop"] /\ pc[Acceptor] = "qtest"
      /\ UNCHANGED <<rqpos, stopsvr, naccept, dropped, closed>>
      /\ cfd \in [Threads -> Conns \cup {NoFd}]
      /\ pc \in [Threads -> Labels \cup AcceptorLabels]
      /\ pc'[Acceptor] = "aloop"
      /\ \A w \in Workers : pc'[w] = pc[w] /\ cfd'[w] = cfd[w]
  BY SMTT(30) DEF QueuePut, IInv, TypeOK, Goto, outside, history, Threads
<1>2. dropped = {} /\ cfd[Acceptor] = naccept
  BY <1>1 DEF PlaceInv, OrderInv, Holding
<1>3. /\ Held = 1 /\ Held' = 0 /\ Lost = 0 /\ Lost' = 0
      /\ Entered = naccept - 1 /\ Entered' = naccept
      /\ Gone = naccept - 1 - qcount /\ Gone' = Gone
      /\ Pending = 1 /\ Pending' = 0
  BY <1>1, <1>2 DEF Held, Lost, Entered, Gone, Pending, Holding
<1>4. OrderInv'
  <2>1. /\ wqpos = (rqpos + qcount) % QSize
        /\ \A i \in 0 .. qcount - 1 : squeue[(rqpos + i) % QSize] = Gone + 1 + i
    BY DEF IInv, RingInv, PlaceInv, OrderInv, Slot
  <2>2. ASSUME NEW i \in 0 .. qcount
        PROVE  squeue'[(rqpos + i) % QSize] = Gone + 1 + i
    <3>1. CASE i = qcount
      BY <1>1, <1>2, <1>3, <2>1, <3>1
    <3>2. CASE i # qcount
      <4>1. i \in 0 .. QSize - 1 /\ i \in 0 .. qcount - 1 /\ qcount \in 0 .. QSize - 1
        BY <1>1, <3>2
      <4>2. /\ (rqpos + i) % QSize \in 0 .. QSize - 1
            /\ (rqpos + i) % QSize # (rqpos + qcount) % QSize
        BY <1>1, <3>2, <4>1, SlotsDiffer, Zenon
      <4>3. squeue[(rqpos + i) % QSize] = Gone + 1 + i
        BY <2>1, <4>1, Zenon
      <4> QED BY <1>1, <2>1, <4>2, <4>3
    <3> QED BY <3>1, <3>2
  <2>3. \A i \in 0 .. qcount' - 1 : squeue'[Slot(i)'] = Gone' + 1 + i
    <3>1. rqpos' = rqpos /\ Gone' = Gone /\ 0 .. qcount' - 1 = 0 .. qcount
      BY <1>1, <1>3
    <3> QED BY <2>2, <3>1, Zenon DEF Slot
  <2> QED BY <1>1, <1>2, <1>3, <2>3 DEF PlaceInv, OrderInv, Holding
<1>5. ServeInv'
  BY <1>1, <1>3 DEF PlaceInv, ServeInv, Threads
<1>6. ExitInv'
  BY <1>1, <1>3 DEF PlaceInv, ExitInv
<1> QED BY <1>4, <1>5, <1>6 DEF PlaceInv

\* A step that leaves the ring, the hands and the history alone, in which the
\* acceptor does not come back from where it accepts no more.
QuietStep ==
  /\ UNCHANGED <<squeue, rqpos, qcount, naccept, dropped, closed, cfd>>
  /\ stopsvr' \in Nat /\ stopsvr' >= stopsvr
  /\ pc'[Acceptor] \in Holding <=> pc[Acceptor] \in Holding
  /\ pc[Acceptor] \in {"aloop", "exit"} /\ stopsvr # 0
       => pc'[Acceptor] \in {"aloop", "exit"}
  /\ \A w \in Workers : pc'[w] = "serve" <=> pc[w] = "serve"
  /\ \A w \in Workers : pc'[w] = "exit" =>
       pc[w] = "exit" \/ (stopsvr # 0 /\ qcount = 0 /\ UNCHANGED <<stopsvr, pc[Acceptor]>>)

LEMMA AtMostOne ==
  ASSUME NEW q \in Int, NEW p \in Int, NEW l \in Int, NEW r \in Int,
         q + p + l <= 1, r <= p
  PROVE  q + r + l <= 1
OBVIOUS

\* A quiet step keeps the places.
LEMMA QuietPlaces ==
  ASSUME IInv, PlaceInv, QuietStep
  PROVE  PlaceInv'
<1>1. /\ UNCHANGED <<squeue, rqpos, qcount, naccept, dropped, closed, cfd>>
      /\ stopsvr' \in Nat /\ stopsvr' >= stopsvr
      /\ stopsvr \in Nat /\ qcount \in 0 .. QSize /\ naccept \in 0 .. MaxConns
  BY DEF QuietStep, IInv, TypeOK
<1>2. Held' = Held /\ Lost' = Lost
  BY <1>1 DEF QuietStep, Held, Lost
<1>3. Entered' = Entered /\ Gone' = Gone
  BY <1>1, <1>2, Zenon DEF Entered, Gone
<1>4. Lost \in 0 .. 1 /\ Pending \in 0 .. 1 /\ Pending' \in 0 .. 1
  BY DEF Lost, Pending
<1>5. OrderInv'
  <2>1. \A i \in 0 .. qcount - 1 : Slot(i)' = Slot(i)
    BY <1>1 DEF Slot
  <2> QED BY <1>1, <1>2, <1>3, <2>1 DEF QuietStep, PlaceInv, OrderInv
<1>6. ServeInv'
  BY <1>1, <1>3 DEF QuietStep, PlaceInv, ServeInv
<1>7. ExitInv'
  <2> SUFFICES ASSUME NEW w \in Workers, pc'[w] = "exit"
               PROVE  stopsvr' # 0 /\ qcount' + Pending' + Lost' <= 1
    BY DEF ExitInv
  <2>1. CASE pc[w] = "exit"
    <3>1. stopsvr # 0 /\ qcount + Pending + Lost <= 1
      BY <2>1 DEF PlaceInv, ExitInv
    <3>2. Pending' <= Pending
      BY <3>1 DEF QuietStep, Pending
    <3>3. qcount \in Int /\ Pending \in Int /\ Lost \in Int /\ Pending' \in Int
      BY <1>1, <1>4
    <3>4. qcount + Pending' + Lost <= 1
      BY <3>1, <3>2, <3>3, AtMostOne, Zenon
    <3>5. stopsvr' # 0
      BY <1>1, <3>1
    <3> QED BY <1>1, <1>2, <3>4, <3>5, Zenon
  <2>2. CASE stopsvr # 0 /\ qcount = 0 /\ UNCHANGED <<stopsvr, pc[Acceptor]>>
    <3>1. Pending' = Pending
      BY <1>1, <2>2, Zenon DEF Pending
    <3>2. qcount + Pending + Lost <= 1
      BY <2>2 DEF PlaceInv, OrderInv, Pending, Lost
    <3> QED BY <1>1, <1>2, <2>2, <3>1, <3>2, Zenon
  <2> QED BY <2>1, <2>2 DEF QuietStep
<1> QED BY <1>5, <1>6, <1>7 DEF PlaceInv

\* The types a step of one thread needs
LEMMA Typed ==
  ASSUME IInv
  PROVE  /\ pc \in [Threads -> Labels \cup AcceptorLabels]
         /\ stopsvr \in Nat /\ qcount \in 0 .. QSize
         /\ Acceptor \notin Workers /\ Acceptor \in Threads /\ Workers \subseteq Threads
BY SessionQueueAssumption DEF IInv, TypeOK, Threads

\* A worker that moves from a label that is neither "serve" nor "exit" to
\* another such label makes a quiet step.
LEMMA WorkerQuiet ==
  ASSUME IInv, NEW w \in Workers, NEW l \in Labels \ {"serve", "exit"},
         Goto(w, l), pc[w] # "serve",
         UNCHANGED <<squeue, rqpos, qcount, naccept, dropped, closed, cfd, stopsvr>>
  PROVE  QuietStep
<1>1. pc'[Acceptor] = pc[Acceptor] /\ \A v \in Workers : pc'[v] = IF v = w THEN l ELSE pc[v]
  BY Typed DEF Goto
<1> QED BY <1>1, Typed DEF QuietStep

\* The acceptor moves and neither takes up nor lets go of a connection.
LEMMA AcceptorQuiet ==
  ASSUME IInv, NEW l \in AcceptorLabels, Goto(Acceptor, l),
         l \in Holding <=> pc[Acceptor] \in Holding,
         pc[Acceptor] \in {"aloop", "exit"} /\ stopsvr # 0 => l \in {"aloop", "exit"},
         UNCHANGED <<squeue, rqpos, qcount, naccept, dropped, closed, cfd, stopsvr>>
  PROVE  QuietStep
<1>1. pc'[Acceptor] = l /\ \A v \in Workers : pc'[v] = pc[v]
  BY Typed DEF Goto
<1> QED BY <1>1, Typed DEF QuietStep

LEMMA StepPlaces == IInv /\ PlaceInv /\ [Next]_vars => PlaceInv'
<1> SUFFICES ASSUME IInv, PlaceInv, [Next]_vars PROVE PlaceInv'
  OBVIOUS
<1>1. ASSUME NEW w \in Workers, DequeueLock(w) \/ DequeueMustWait(w) \/ DequeueSleep(w)
      PROVE  PlaceInv'
  <2>1. CASE DequeueLock(w)
    BY <2>1, WorkerQuiet, QuietPlaces DEF DequeueLock, ring, history, outside, Labels
  <2>2. CASE DequeueMustWait(w)
    BY <2>2, WorkerQuiet, QuietPlaces DEF DequeueMustWait, ring, history, outside, Labels
  <2>3. CASE DequeueSleep(w)
    BY <2>3, WorkerQuiet, QuietPlaces DEF DequeueSleep, ring, history, outside, Labels
  <2> QED BY <1>1, <2>1, <2>2, <2>3
<1>2. ASSUME NEW w \in Workers, DequeueTake(w) PROVE PlaceInv'
  BY <1>2, TakePlaces
<1>3. ASSUME NEW w \in Workers, DequeueExit(w) PROVE PlaceInv'
  <2>1. /\ UNCHANGED <<squeue, rqpos, qcount, naccept, dropped, closed, cfd, stopsvr>>
        /\ pc[w] = "dtest" /\ stopsvr # 0 /\ qcount = 0
        /\ pc'[Acceptor] = pc[Acceptor]
        /\ \A v \in Workers : pc'[v] = IF v = w THEN "exit" ELSE pc[v]
    BY <1>3, Typed DEF DequeueExit, Goto, ring, history, outside
  <2>2. QuietStep
    BY <2>1, Typed DEF QuietStep
  <2> QED BY <2>2, QuietPlaces
<1>4. ASSUME NEW w \in Workers, ProcessSession(w) PROVE PlaceInv'
  <2>1. /\ pc[w] = "serve" /\ pc' = [pc EXCEPT ![w] = "dlock"]
        /\ closed' = closed \cup {cfd[w]} /\ cfd' = [cfd EXCEPT ![w] = NoFd]
        /\ UNCHANGED <<squeue, rqpos, qcount, naccept, dropped, stopsvr>>
        /\ pc'[Acceptor] = pc[Acceptor] /\ cfd'[Acceptor] = cfd[Acceptor]
        /\ cfd[w] \in Conns /\ cfd \in [Threads -> Conns \cup {NoFd}]
        /\ pc \in [Threads -> Labels \cup AcceptorLabels]
    <3>1. cfd[w] \in Conns /\ cfd \in [Threads -> Conns \cup {NoFd}]
      BY <1>4 DEF ProcessSession, IInv, TypeOK, HandInv
    <3> QED BY <1>4, <3>1, Typed DEF ProcessSession, Goto, ring, outside
  <2>2. /\ Held' = Held /\ Lost' = Lost /\ Entered' = Entered /\ Gone' = Gone
        /\ Pending' = Pending
    BY <2>1 DEF Held, Lost, Entered, Gone, Pending
  <2>3. OrderInv'
    BY <2>1, <2>2 DEF PlaceInv, OrderInv, Slot
  <2>4. ServeInv'
    BY <2>1, <2>2 DEF PlaceInv, ServeInv, Threads, Conns, NoFd
  <2>5. ExitInv'
    BY <2>1, <2>2 DEF PlaceInv, ExitInv, Threads
  <2> QED BY <2>3, <2>4, <2>5 DEF PlaceInv
<1>5. ASSUME \/ AcceptorLoop \/ AcceptPoll \/ AcceptFail \/ CountConnection
             \/ QueueLock \/ QueueMustWait \/ QueueSleep
      PROVE  PlaceInv'
  <2>1. CASE AcceptorLoop
    BY <2>1, AcceptorQuiet, QuietPlaces
       DEF AcceptorLoop, ring, history, outside, AcceptorLabels, Holding
  <2>2. CASE AcceptPoll
    BY <2>2, AcceptorQuiet, QuietPlaces
       DEF AcceptPoll, ring, history, outside, AcceptorLabels, Holding
  <2>3. CASE AcceptFail
    BY <2>3, AcceptorQuiet, QuietPlaces
       DEF AcceptFail, ring, history, outside, AcceptorLabels, Holding
  <2>4. CASE CountConnection
    BY <2>4, AcceptorQuiet, QuietPlaces
       DEF CountConnection, ring, history, outside, AcceptorLabels, Holding
  <2>5. CASE QueueLock
    BY <2>5, AcceptorQuiet, QuietPlaces
       DEF QueueLock, ring, history, outside, AcceptorLabels, Holding
  <2>6. CASE QueueMustWait
    BY <2>6, AcceptorQuiet, QuietPlaces
       DEF QueueMustWait, ring, history, outside, AcceptorLabels, Holding
  <2>7. CASE QueueSleep
    BY <2>7, AcceptorQuiet, QuietPlaces
       DEF QueueSleep, ring, history, outside, AcceptorLabels, Holding
  <2> QED BY <1>5, <2>1, <2>2, <2>3, <2>4, <2>5, <2>6, <2>7
<1>6. ASSUME AcceptOk PROVE PlaceInv'
  <2>1. /\ pc[Acceptor] = "aaccept" /\ pc' = [pc EXCEPT ![Acceptor] = "acount"]
        /\ naccept' = naccept + 1 /\ cfd' = [cfd EXCEPT ![Acceptor] = naccept + 1]
        /\ UNCHANGED <<squeue, rqpos, qcount, closed, dropped, stopsvr>>
        /\ naccept \in Nat /\ qcount \in Nat /\ dropped = {}
        /\ cfd'[Acceptor] = naccept'
        /\ pc'[Acceptor] = "acount"
        /\ \A w \in Workers : pc'[w] = pc[w] /\ cfd'[w] = cfd[w]
    <3>1. /\ pc[Acceptor] = "aaccept" /\ pc' = [pc EXCEPT ![Acceptor] = "acount"]
          /\ naccept' = naccept + 1 /\ cfd' = [cfd EXCEPT ![Acceptor] = naccept + 1]
          /\ UNCHANGED <<squeue, rqpos, qcount, closed, dropped, stopsvr>>
      BY <1>6 DEF AcceptOk, Goto, ring, outside
    <3>2. naccept \in Nat /\ qcount \in Nat /\ cfd \in [Threads -> Conns \cup {NoFd}]
      BY SessionQueueAssumption DEF IInv, TypeOK
    <3>3. dropped = {}
      BY <3>1 DEF PlaceInv, OrderInv
    <3> QED BY <3>1, <3>2, <3>3, Typed
  <2>2. Gone' = Gone /\ Pending' = Pending /\ Lost' = Lost
    BY <2>1 DEF Held, Lost, Entered, Gone, Pending, Holding
  <2> QED BY <2>1, <2>2 DEF PlaceInv, OrderInv, ServeInv, ExitInv, Slot
<1>7. ASSUME QueuePut PROVE PlaceInv'
  BY <1>7, PutPlaces
<1>8. ASSUME QueueDrop PROVE PlaceInv'
  <2>1. /\ pc[Acceptor] = "qtest" /\ pc' = [pc EXCEPT ![Acceptor] = "aloop"]
        /\ stopsvr # 0 /\ qcount >= QSize
        /\ dropped' = dropped \cup {cfd[Acceptor]} /\ dropped = {}
        /\ cfd[Acceptor] = naccept
        /\ UNCHANGED <<squeue, rqpos, qcount, closed, naccept, stopsvr>>
        /\ naccept \in Nat /\ qcount \in Nat
        /\ pc'[Acceptor] = "aloop"
        /\ \A w \in Workers : pc'[w] = pc[w] /\ cfd'[w] = cfd[w]
    <3>1. /\ pc[Acceptor] = "qtest" /\ pc' = [pc EXCEPT ![Acceptor] = "aloop"]
          /\ stopsvr # 0 /\ qcount >= QSize
          /\ dropped' = dropped \cup {cfd[Acceptor]}
          /\ cfd' = [cfd EXCEPT ![Acceptor] = NoFd]
          /\ UNCHANGED <<squeue, rqpos, qcount, closed, naccept, stopsvr>>
      BY <1>8 DEF QueueDrop, Goto, ring, outside
    <3>2. naccept \in Nat /\ qcount \in Nat /\ cfd \in [Threads -> Conns \cup {NoFd}]
      BY SessionQueueAssumption DEF IInv, TypeOK
    <3>3. dropped = {} /\ cfd[Acceptor] = naccept
      BY <3>1 DEF PlaceInv, OrderInv, Holding
    <3> QED BY <3>1, <3>2, <3>3, Typed
  <2>2. Gone' = Gone /\ Pending' + Lost' = Pending + Lost /\ dropped' = {naccept}
    BY <2>1 DEF Held, Lost, Entered, Gone, Pending, Holding
  <2>3. OrderInv'
    BY <2>1, <2>2 DEF PlaceInv, OrderInv, Slot, Holding
  <2>4. ServeInv'
    BY <2>1, <2>2 DEF PlaceInv, ServeInv
  <2>5. ExitInv'
    BY <2>1, <2>2 DEF PlaceInv, ExitInv, Pending, Lost
  <2> QED BY <2>3, <2>4, <2>5 DEF PlaceInv
<1>9. ASSUME SigIntStop \/ SigIntWrite \/ Main \/ SpuriousWakeup \/ UNCHANGED vars
      PROVE  PlaceInv'
  <2>1. UNCHANGED <<squeue, rqpos, qcount, naccept, dropped, closed, cfd, pc>>
    BY <1>9 DEF SigIntStop, SigIntWrite, Main, MainPoll, MainClose, MainBroadcast,
                MainJoin, SpuriousWakeup, vars, ring, history, outside
  <2>2. stopsvr' = stopsvr \/ stopsvr' = stopsvr + 1
    BY <1>9 DEF SigIntStop, SigIntWrite, Main, MainPoll, MainClose, MainBroadcast,
                MainJoin, SpuriousWakeup, vars, outside
  <2>3. stopsvr' \in Nat /\ stopsvr' >= stopsvr
    BY <2>2, Typed
  <2>4. QuietStep
    BY <2>1, <2>3, Zenon DEF QuietStep
  <2> QED BY <2>4, QuietPlaces
<1>10. ASSUME NEW w \in Workers, Service(w) PROVE PlaceInv'
  BY <1>1, <1>2, <1>3, <1>4, <1>10, Zenon DEF Service, Dequeue
<1>11. ASSUME Accept PROVE PlaceInv'
  BY <1>5, <1>6, <1>7, <1>8, <1>11, Zenon DEF Accept
<1>12. ASSUME Terminated PROVE PlaceInv'
  BY <1>9, <1>12, Zenon DEF Terminated
<1> QED
  BY <1>9, <1>10, <1>11, <1>12, Zenon DEF Next

-----------------------------------------------------------------------------
(* The ring implements the bounded queue *)

\* The abstract queue and the fates, read off the counters.
RingQueue == [i \in 1 .. qcount |-> squeue[Slot(i - 1)]]
At(c, gone, entered, lost) ==
  IF c <= gone THEN "taken"
  ELSE IF c <= entered THEN "queued"
  ELSE IF c \in lost THEN "dropped" ELSE "new"
Place(c) == At(c, Gone, Entered, dropped)

\* What moving one counter, or dropping the next connection, does to the places
LEMMA PlaceTaken ==
  ASSUME NEW c \in Int, NEW g \in Nat, NEW e \in Nat, NEW d, g < e
  PROVE  At(c, g + 1, e, d) = IF c = g + 1 THEN "taken" ELSE At(c, g, e, d)
BY DEF At

LEMMA PlaceQueued ==
  ASSUME NEW c \in Int, NEW g \in Nat, NEW e \in Nat, g <= e
  PROVE  At(c, g, e + 1, {}) = IF c = e + 1 THEN "queued" ELSE At(c, g, e, {})
BY DEF At

LEMMA PlaceDropped ==
  ASSUME NEW c \in Int, NEW g \in Nat, NEW e \in Nat, g <= e
  PROVE  At(c, g, e, {e + 1}) = IF c = e + 1 THEN "dropped" ELSE At(c, g, e, {})
BY DEF At

LEMMA CountersInt ==
  ASSUME IInv, PlaceInv
  PROVE  /\ Gone \in Nat /\ Entered \in Nat /\ qcount \in Nat /\ Gone + qcount = Entered
         /\ Entered <= naccept /\ naccept \in 0 .. MaxConns
<1>1. qcount \in Nat /\ naccept \in 0 .. MaxConns /\ Gone >= 0
  BY DEF IInv, TypeOK, PlaceInv, OrderInv
<1>2. Held \in {0, 1} /\ Lost \in {0, 1}
  BY DEF Held, Lost
<1> QED BY <1>1, <1>2 DEF Gone, Entered

LEMMA QueueIs ==
  ASSUME IInv, PlaceInv
  PROVE  RingQueue = [i \in 1 .. qcount |-> Gone + i]
<1>1. ASSUME NEW i \in 1 .. qcount PROVE squeue[Slot(i - 1)] = Gone + i
  <2>1. i - 1 \in 0 .. qcount - 1 /\ Gone + 1 + (i - 1) = Gone + i
    BY CountersInt
  <2>2. squeue[Slot(i - 1)] = Gone + 1 + (i - 1)
    BY <2>1 DEF PlaceInv, OrderInv
  <2> QED BY <2>1, <2>2
<1> QED BY <1>1 DEF RingQueue

LEMMA FateIs ==
  ASSUME IInv, PlaceInv, NEW c \in Conns
  PROVE  Fate(c) = Place(c)
<1>1. c \in Queued <=> Gone < c /\ c <= Entered
  <2>1. \A i \in 0 .. qcount - 1 : squeue[Slot(i)] = Gone + 1 + i
    BY DEF PlaceInv, OrderInv
  <2>2. ASSUME c \in Queued PROVE Gone < c /\ c <= Entered
    BY <2>1, <2>2, CountersInt DEF Queued
  <2>3. ASSUME Gone < c, c <= Entered PROVE c \in Queued
    <3>1. c - Gone - 1 \in 0 .. qcount - 1 /\ Gone + 1 + (c - Gone - 1) = c
      BY <2>3, CountersInt DEF Conns
    <3>2. squeue[Slot(c - Gone - 1)] = c
      BY <2>1, <3>1
    <3> QED BY <3>1, <3>2 DEF Queued
  <2> QED BY <2>2, <2>3
<1>2. c \in dropped => c > Entered
  BY CountersInt, SMTT(30) DEF PlaceInv, OrderInv, Entered, Held, Lost, Holding, Conns
<1>3. c <= Gone <=> c \in closed \/ \E w \in Workers : cfd[w] = c
  BY DEF PlaceInv, ServeInv
<1> QED BY <1>1, <1>2, <1>3, CountersInt DEF Fate, Place, At, Conns

\* What the mapping of SessionQueue to SessionFifo is in states of the invariant.
MappingIs ==
  /\ Gone \in Nat /\ Entered = Gone + qcount /\ qcount \in Nat
  /\ RingQueue = [i \in 1 .. qcount |-> Gone + i]
  /\ \A c \in Conns : Fate(c) = Place(c)

LEMMA Mapping == IInv /\ PlaceInv => MappingIs
BY CountersInt, QueueIs, FateIs DEF MappingIs

\* A step that moves no counter is a stuttering step of the queue.
LEMMA QuietFifo ==
  ASSUME MappingIs, MappingIs', UNCHANGED <<qcount, Gone, dropped>>
  PROVE  UNCHANGED <<RingQueue, [c \in Conns |-> Fate(c)]>>
<1>1. UNCHANGED Entered
  BY DEF MappingIs
<1>2. \A c \in Conns : Place(c)' = Place(c)
  BY <1>1 DEF Place
<1>3. \A c \in Conns : Fate(c)' = Fate(c)
  BY <1>2 DEF MappingIs
<1>4. RingQueue' = RingQueue
  BY DEF MappingIs
<1> QED BY <1>3, <1>4

LEMMA Numbered ==
  ASSUME NEW g \in Nat, NEW n \in Nat, n > 0
  PROVE  /\ [i \in 1 .. n |-> g + i] # <<>>
         /\ Head([i \in 1 .. n |-> g + i]) = g + 1
         /\ Tail([i \in 1 .. n |-> g + i]) = [i \in 1 .. n - 1 |-> (g + 1) + i]
<1> DEFINE s == [i \in 1 .. n |-> g + i]
<1>1. s \in Seq(Int) /\ Len(s) = n
  OBVIOUS
<1>2. s # <<>> /\ Head(s) = s[1] /\ s[1] = g + 1
  BY <1>1
<1>3. Tail(s) = [i \in 1 .. n - 1 |-> s[i + 1]]
  BY <1>1
<1>4. \A i \in 1 .. n - 1 : s[i + 1] = (g + 1) + i
  OBVIOUS
<1> QED BY <1>2, <1>3, <1>4

LEMMA StepFifo ==
  ASSUME IInv, PlaceInv, MappingIs, MappingIs', [Next]_vars
  PROVE  [Fifo!Next]_(Fifo!fifoVars)
<1> USE SessionQueueAssumption
<1>0. /\ Gone \in Nat /\ Entered = Gone + qcount /\ qcount \in Nat
      /\ Gone' \in Nat /\ Entered' = Gone' + qcount' /\ qcount' \in Nat
  BY Zenon DEF MappingIs
<1>1. ASSUME UNCHANGED <<qcount, Gone, dropped, stopsvr>>
      PROVE  UNCHANGED Fifo!fifoVars
  BY <1>1, QuietFifo DEF Fifo!fifoVars, RingQueue
<1>2. ASSUME NEW w \in Workers, DequeueTake(w)
      PROVE  Fifo!Take
  <2>1. /\ qcount' = qcount - 1 /\ qcount > 0 /\ UNCHANGED <<dropped, stopsvr>>
        /\ Entered' = Entered
    BY <1>2 DEF DequeueTake, Goto, outside, history, Entered, Held, Lost, Holding,
                IInv, TypeOK, Threads
  <2>2. Gone' = Gone + 1
    <3>1. Gone' + qcount' = Gone + qcount /\ qcount' = qcount - 1
      BY <1>0, <2>1, Zenon
    <3>2. PICK g \in Nat, h \in Nat, q \in Nat, r \in Nat :
            g = Gone /\ h = Gone' /\ q = qcount /\ r = qcount'
      BY <1>0, Zenon
    <3>3. h = g + 1
      <4>1. h + r = g + q /\ r = q - 1
        BY <3>1, <3>2, Zenon
      <4> QED BY <4>1
    <3> QED BY <3>2, <3>3, Zenon
  <2>3. RingQueue # <<>> /\ Head(RingQueue) = Gone + 1 /\ RingQueue' = Tail(RingQueue)
    <3>1. /\ RingQueue = [i \in 1 .. qcount |-> Gone + i]
          /\ RingQueue' = [i \in 1 .. qcount - 1 |-> (Gone + 1) + i]
      BY <2>1, <2>2 DEF MappingIs
    <3> QED BY <1>0, <2>1, <3>1, Numbered, Zenon
  <2>4. \A c \in Conns : Fate(c)' = IF c = Gone + 1 THEN "taken" ELSE Fate(c)
    <3> SUFFICES ASSUME NEW c \in Conns
                 PROVE  Fate(c)' = IF c = Gone + 1 THEN "taken" ELSE Fate(c)
      OBVIOUS
    <3>1. Fate(c)' = At(c, Gone + 1, Entered, dropped) /\ Fate(c) = At(c, Gone, Entered, dropped)
      BY <2>1, <2>2, Zenon DEF MappingIs, Place
    <3>2. c \in Int /\ Entered \in Nat /\ Gone < Entered
      BY <1>0, <2>1 DEF Conns
    <3>3. Gone \in Nat
      BY <1>0
    <3>4. At(c, Gone + 1, Entered, dropped)
            = IF c = Gone + 1 THEN "taken" ELSE At(c, Gone, Entered, dropped)
      BY <3>2, <3>3, PlaceTaken
    <3> QED BY <3>1, <3>4, Zenon
  <2>5. [c \in Conns |-> Fate(c)]' = [[c \in Conns |-> Fate(c)] EXCEPT ![Gone + 1] = "taken"]
    BY <2>4
  <2> QED BY <2>1, <2>3, <2>5 DEF Fifo!Take, RingQueue
<1>3. ASSUME QueuePut
      PROVE  \E c \in Conns : Fifo!Put(c)
  <2>1. /\ qcount' = qcount + 1 /\ qcount < QSize /\ UNCHANGED <<dropped, stopsvr>>
        /\ Entered' = Entered + 1 /\ Entered + 1 = naccept /\ naccept \in Conns /\ dropped = {}
    <3>1. /\ qcount' = qcount + 1 /\ qcount < QSize
          /\ UNCHANGED <<dropped, stopsvr, naccept>>
          /\ pc[Acceptor] = "qtest" /\ pc' = [pc EXCEPT ![Acceptor] = "aloop"]
      BY <1>3 DEF QueuePut, Goto, outside, history
    <3>2. pc'[Acceptor] = "aloop"
      BY <3>1, Typed
    <3>3. Held = 1 /\ Held' = 0
      BY <3>1, <3>2 DEF Held, Holding
    <3>4. dropped = {} /\ cfd[Acceptor] = naccept
      BY <3>1 DEF PlaceInv, OrderInv, Holding
    <3>5. naccept \in Conns
      BY <3>1, <3>4 DEF IInv, HandInv, Holding
    <3>6. Lost = 0 /\ Lost' = 0
      BY <3>1, <3>4 DEF Lost
    <3>7. naccept \in Int
      BY <3>5 DEF Conns
    <3>8. Entered = naccept - 1 - 0 /\ Entered' = naccept - 0 - 0
      BY <3>1, <3>3, <3>6, Zenon DEF Entered
    <3>9. Entered + 1 = naccept /\ Entered' = naccept
      BY <3>7, <3>8
    <3> QED BY <3>1, <3>4, <3>5, <3>9, Zenon
  <2>2. Gone' = Gone
    <3>1. Gone' + qcount' = (Gone + qcount) + 1 /\ qcount' = qcount + 1
      BY <1>0, <2>1, Zenon
    <3>2. PICK g \in Nat, h \in Nat, q \in Nat, r \in Nat :
            g = Gone /\ h = Gone' /\ q = qcount /\ r = qcount'
      BY <1>0, Zenon
    <3>3. h = g
      <4>1. h + r = (g + q) + 1 /\ r = q + 1
        BY <3>1, <3>2, Zenon
      <4> QED BY <4>1
    <3> QED BY <3>2, <3>3, Zenon
  <2>3. RingQueue' = Append(RingQueue, naccept) /\ Len(RingQueue) = qcount
    BY <2>1, <2>2 DEF MappingIs
  <2>4. \A c \in Conns : Fate(c)' = IF c = naccept THEN "queued" ELSE Fate(c)
    <3> SUFFICES ASSUME NEW c \in Conns
                 PROVE  Fate(c)' = IF c = naccept THEN "queued" ELSE Fate(c)
      OBVIOUS
    <3>1. Fate(c)' = At(c, Gone, Entered + 1, {}) /\ Fate(c) = At(c, Gone, Entered, {})
      BY <2>1, <2>2, Zenon DEF MappingIs, Place
    <3>2. c \in Int /\ Entered \in Nat /\ Gone <= Entered
      BY <1>0, <2>1 DEF Conns
    <3>3. Gone \in Nat
      BY <1>0
    <3>4. At(c, Gone, Entered + 1, {})
            = IF c = Entered + 1 THEN "queued" ELSE At(c, Gone, Entered, {})
      BY <3>2, <3>3, PlaceQueued
    <3>5. Entered + 1 = naccept
      BY <2>1
    <3> QED BY <3>1, <3>4, <3>5, Zenon
  <2>5. [c \in Conns |-> Fate(c)]' = [[c \in Conns |-> Fate(c)] EXCEPT ![naccept] = "queued"]
    BY <2>4
  <2>6. Fate(naccept) = "new" /\ \A b \in Conns : b < naccept => Fate(b) # "new"
    BY <2>1 DEF MappingIs, Place, At, Conns
  <2> QED BY <2>1, <2>3, <2>5, <2>6 DEF Fifo!Put, Fifo!IsNext, RingQueue
<1>4. ASSUME QueueDrop
      PROVE  \E c \in Conns : Fifo!Drop(c)
  <2>1. /\ UNCHANGED <<qcount, stopsvr, naccept>> /\ stopsvr # 0
        /\ Entered' = Entered /\ Entered + 1 = naccept /\ naccept \in Conns
        /\ dropped = {} /\ dropped' = {naccept}
    <3>1. /\ UNCHANGED <<qcount, stopsvr, naccept>> /\ stopsvr # 0
          /\ dropped' = dropped \cup {cfd[Acceptor]}
          /\ pc[Acceptor] = "qtest" /\ pc' = [pc EXCEPT ![Acceptor] = "aloop"]
      BY <1>4 DEF QueueDrop, Goto, outside, ring
    <3>2. pc'[Acceptor] = "aloop"
      BY <3>1, Typed
    <3>3. Held = 1 /\ Held' = 0
      BY <3>1, <3>2 DEF Held, Holding
    <3>4. dropped = {} /\ cfd[Acceptor] = naccept
      BY <3>1 DEF PlaceInv, OrderInv, Holding
    <3>5. naccept \in Conns
      BY <3>1, <3>4 DEF IInv, HandInv, Holding
    <3>6. Lost = 0 /\ Lost' = 1 /\ dropped' = {naccept}
      BY <3>1, <3>4 DEF Lost
    <3>7. naccept \in Int
      BY <3>5 DEF Conns
    <3>8. Entered = naccept - 1 - 0 /\ Entered' = naccept - 0 - 1
      BY <3>1, <3>3, <3>6, Zenon DEF Entered
    <3>9. Entered + 1 = naccept /\ Entered' = Entered
      BY <3>7, <3>8
    <3> QED BY <3>1, <3>4, <3>5, <3>6, <3>9, Zenon
  <2>2. Gone' = Gone
    <3>1. Gone' + qcount' = Gone + qcount /\ qcount' = qcount
      BY <1>0, <2>1, Zenon
    <3>2. PICK g \in Nat, h \in Nat, q \in Nat, r \in Nat :
            g = Gone /\ h = Gone' /\ q = qcount /\ r = qcount'
      BY <1>0, Zenon
    <3>3. h = g
      <4>1. h + r = g + q /\ r = q
        BY <3>1, <3>2, Zenon
      <4> QED BY <4>1
    <3> QED BY <3>2, <3>3, Zenon
  <2>3. RingQueue' = RingQueue
    BY <2>1, <2>2 DEF MappingIs
  <2>4. \A c \in Conns : Fate(c)' = IF c = naccept THEN "dropped" ELSE Fate(c)
    <3> SUFFICES ASSUME NEW c \in Conns
                 PROVE  Fate(c)' = IF c = naccept THEN "dropped" ELSE Fate(c)
      OBVIOUS
    <3>1. Fate(c)' = At(c, Gone, Entered, {Entered + 1}) /\ Fate(c) = At(c, Gone, Entered, {})
      BY <2>1, <2>2, Zenon DEF MappingIs, Place
    <3>2. c \in Int /\ Entered \in Nat /\ Gone <= Entered
      BY <1>0, <2>1 DEF Conns
    <3>3. Gone \in Nat
      BY <1>0
    <3>4. At(c, Gone, Entered, {Entered + 1})
            = IF c = Entered + 1 THEN "dropped" ELSE At(c, Gone, Entered, {})
      BY <3>2, <3>3, PlaceDropped
    <3>5. Entered + 1 = naccept
      BY <2>1
    <3> QED BY <3>1, <3>4, <3>5, Zenon
  <2>5. [c \in Conns |-> Fate(c)]' = [[c \in Conns |-> Fate(c)] EXCEPT ![naccept] = "dropped"]
    BY <2>4
  <2>6. Fate(naccept) = "new" /\ \A b \in Conns : b < naccept => Fate(b) # "new"
    BY <2>1 DEF MappingIs, Place, At, Conns
  <2> QED BY <2>1, <2>3, <2>5, <2>6 DEF Fifo!Drop, Fifo!IsNext, RingQueue
<1>5. ASSUME SigIntStop
      PROVE  Fifo!Stop
  <2>1. UNCHANGED <<qcount, dropped, naccept, pc>> /\ stopsvr' # 0
    BY <1>5, Typed DEF SigIntStop, ring, history
  <2>2. UNCHANGED <<Gone, dropped, qcount>>
    BY <2>1 DEF Gone, Entered, Held, Lost
  <2> QED BY <2>1, <2>2, QuietFifo DEF Fifo!Stop, RingQueue
<1>6. ASSUME NEW w \in Workers,
             \/ DequeueLock(w) \/ DequeueMustWait(w) \/ DequeueSleep(w)
             \/ DequeueExit(w) \/ ProcessSession(w)
      PROVE  UNCHANGED <<qcount, Gone, dropped, stopsvr>>
  <2>1. UNCHANGED <<qcount, dropped, stopsvr, naccept, pc[Acceptor]>>
    BY <1>6, Typed DEF DequeueLock, DequeueMustWait, DequeueSleep, DequeueExit,
                       ProcessSession, Goto, outside, ring, history
  <2> QED BY <2>1 DEF Gone, Entered, Held, Lost
<1>7. ASSUME \/ AcceptorLoop \/ AcceptPoll \/ AcceptOk \/ AcceptFail
             \/ CountConnection \/ QueueLock \/ QueueMustWait \/ QueueSleep
      PROVE  UNCHANGED <<qcount, Gone, dropped, stopsvr>>
  <2>1. UNCHANGED <<qcount, dropped, stopsvr>>
    BY <1>7 DEF AcceptorLoop, AcceptPoll, AcceptOk, AcceptFail, CountConnection,
                QueueLock, QueueMustWait, QueueSleep, outside, ring, history
  <2>2. CASE AcceptOk
    <3>1. naccept' = naccept + 1 /\ Held = 0 /\ Held' = 1 /\ naccept \in Int
      <4>1. naccept' = naccept + 1 /\ pc[Acceptor] = "aaccept" /\ pc'[Acceptor] = "acount"
        BY <2>2, Typed DEF AcceptOk, Goto
      <4>2. naccept \in Int
        BY DEF IInv, TypeOK
      <4> QED BY <4>1, <4>2 DEF Held, Holding
    <3>2. naccept' - Held' = naccept - Held
      BY <3>1
    <3> QED BY <2>1, <3>2, Zenon DEF Gone, Entered, Lost
  <2>3. CASE ~ AcceptOk
    <3>1. UNCHANGED naccept
      BY <1>7, <2>3 DEF AcceptorLoop, AcceptPoll, AcceptFail, CountConnection,
                        QueueLock, QueueMustWait, QueueSleep, history
    <3>2. UNCHANGED Held
      <4> USE Typed DEF Goto, Held, Holding
      <4>1. CASE AcceptorLoop
        BY <4>1 DEF AcceptorLoop
      <4>2. CASE AcceptPoll
        BY <4>2 DEF AcceptPoll
      <4>3. CASE AcceptFail
        BY <4>3 DEF AcceptFail
      <4>4. CASE CountConnection
        BY <4>4 DEF CountConnection
      <4>5. CASE QueueLock
        BY <4>5 DEF QueueLock
      <4>6. CASE QueueMustWait
        BY <4>6 DEF QueueMustWait
      <4>7. CASE QueueSleep
        BY <4>7 DEF QueueSleep
      <4> QED BY <1>7, <2>3, <4>1, <4>2, <4>3, <4>4, <4>5, <4>6, <4>7, Zenon
    <3> QED BY <2>1, <3>1, <3>2, Zenon DEF Gone, Entered, Lost
  <2> QED BY <2>2, <2>3
<1>8. ASSUME SigIntWrite \/ Main \/ SpuriousWakeup \/ UNCHANGED vars
      PROVE  UNCHANGED <<qcount, Gone, dropped, stopsvr>>
  <2>1. UNCHANGED <<qcount, dropped, stopsvr, naccept, pc>>
    BY <1>8 DEF SigIntWrite, Main, MainPoll, MainClose, MainBroadcast, MainJoin,
                SpuriousWakeup, vars, ring, history, outside
  <2> QED BY <2>1 DEF Gone, Entered, Held, Lost
<1> QED
  BY <1>1, <1>2, <1>3, <1>4, <1>5, <1>6, <1>7, <1>8
     DEF Next, Service, Dequeue, Accept, Terminated, Fifo!Next

-----------------------------------------------------------------------------
(* Theorems *)

\* The inductive invariant holds in every reachable state of thrplhttp's
\* per-CPU queue.
THEOREM Invariance == Spec => []IInv
BY InitEstablishes, StepPreserves, PTL DEF Spec

\* Every variable of per_cpu_ctx keeps its type: no position leaves the ring,
\* qcount never leaves 0..qsize, no thread takes an unwritten slot.
THEOREM TypeCorrect == Spec => []TypeOK
<1>1. IInv => TypeOK
  BY DEF IInv
<1> QED BY <1>1, Invariance, PTL

\* The acceptor sleeps on dqcnd only while the ring is full.
THEOREM AcceptorSleep == Spec => []AcceptorSleepsOnlyWhenFull
<1>1. IInv => AcceptorSleepsOnlyWhenFull
  BY DEF IInv, SleepInv, AcceptorSleepsOnlyWhenFull
<1> QED BY <1>1, Invariance, PTL

\* The unlocked broadcast of main strands at most one service thread.
THEOREM OneMiss == Spec => []AtMostOneMissesBroadcast
<1>1. IInv => AtMostOneMissesBroadcast
  <2> SUFFICES ASSUME IInv, mainpc \in {"join", "done"}
               PROVE  Cardinality(cnd) <= 1
    BY DEF AtMostOneMissesBroadcast
  <2>1. \A u, v \in cnd : u = v
    BY DEF IInv, TypeOK, MissInv, Misses
  <2>2. CASE cnd = {}
    BY <2>2, FS_EmptySet
  <2>3. CASE cnd # {}
    <3>1. PICK u \in cnd : cnd = {u}
      BY <2>1, <2>3
    <3> QED BY <3>1, FS_Singleton
  <2> QED BY <2>2, <2>3
<1> QED BY <1>1, Invariance, PTL

\* No session waits for a sleeping thread: the queue's signals are sufficient.
THEOREM SignalsSuffice == Spec => []NoSleepWhileQueued
<1>1. Init => NoSleepWhileQueued
  BY DEF Init, NoSleepWhileQueued
<1> QED BY <1>1, NoSleepStep, Invariance, PTL DEF Spec

\* Every accepted connection is where the order of accept() puts it: taken out,
\* in the ring, in the acceptor's hand or dropped.
THEOREM PlaceInvariance == Spec => []PlaceInv
BY InitPlaces, StepPlaces, Invariance, PTL DEF Spec

\* pthread_join returns once a thread has left its loop, and none comes back.
Joined == mainpc = "done" => \A t \in Threads : pc[t] = "exit"

LEMMA JoinedInvariance == Spec => []Joined
<1>1. Init => Joined
  BY DEF Init, Joined
<1>2. IInv /\ Joined /\ [Next]_vars => Joined'
  <2> SUFFICES ASSUME IInv, Joined, [Next]_vars, mainpc' = "done"
               PROVE  \A t \in Threads : pc'[t] = "exit"
    BY DEF Joined
  <2>1. CASE mainpc = "done"
    <3>1. \A t \in Threads : pc[t] = "exit"
      BY <2>1 DEF Joined
    <3>2. pc' = pc
      <4> USE <3>1 DEF Threads
      <4>1. CASE UNCHANGED vars
        BY <4>1 DEF vars
      <4>2. CASE \E w \in Workers : Service(w)
        BY <4>2 DEF Service, Dequeue, DequeueLock, DequeueTake, DequeueMustWait, DequeueSleep,
                    DequeueExit, ProcessSession
      <4>3. CASE Accept
        BY <4>3 DEF Accept, AcceptorLoop, AcceptPoll, AcceptOk, AcceptFail, CountConnection, QueueLock,
                    QueuePut, QueueMustWait, QueueSleep, QueueDrop
      <4>4. CASE SigIntStop \/ SigIntWrite \/ Main \/ SpuriousWakeup \/ Terminated
        BY <4>4 DEF SigIntStop, SigIntWrite, Main, MainPoll, MainClose, MainBroadcast,
                    MainJoin, SpuriousWakeup, Terminated, vars
      <4> QED BY <4>1, <4>2, <4>3, <4>4 DEF Next
    <3> QED BY <3>1, <3>2
  <2>2. CASE mainpc # "done"
    <3>1. MainJoin
      BY <2>2 DEF Next, vars, Service, Dequeue, DequeueLock, DequeueTake, DequeueMustWait, DequeueSleep,
                  DequeueExit, ProcessSession, Accept, AcceptorLoop, AcceptPoll, AcceptOk, AcceptFail,
                  CountConnection, QueueLock, QueuePut, QueueMustWait, QueueSleep, QueueDrop,
                  SigIntStop, SigIntWrite, Main, MainPoll, MainClose, MainBroadcast,
                  SpuriousWakeup, Terminated, outside
    <3> QED BY <3>1 DEF MainJoin
  <2> QED BY <2>1, <2>2
<1> QED BY <1>1, <1>2, Invariance, PTL DEF Spec

\* When main has joined every thread, at most one accepted connection has not
\* been served: the one the acceptor brought to the queue after the last
\* service thread had seen the stop.
THEOREM Unserved == Spec => []AtMostOneUnserved
<1>1. IInv /\ PlaceInv /\ Joined => AtMostOneUnserved
  <2> SUFFICES ASSUME IInv, PlaceInv, Joined, mainpc = "done"
               PROVE  naccept - Cardinality(closed) <= 1
    BY DEF AtMostOneUnserved
  <2>1. /\ \A w \in Workers : pc[w] = "exit"
        /\ pc[Acceptor] = "exit"
    BY DEF Joined, Threads
  <2>2. qcount + Lost <= 1 /\ Gone = naccept - Lost - qcount /\ Gone >= 0
    <3>1. Pending = 0 /\ Held = 0
      BY <2>1 DEF Pending, Held, Holding
    <3>2. PICK q \in Nat, l \in {0, 1}, m \in Nat : q = qcount /\ l = Lost /\ m = naccept
      BY DEF IInv, TypeOK, Lost
    <3>3. qcount + Pending + Lost <= 1
      BY <2>1, SessionQueueAssumption DEF PlaceInv, ExitInv
    <3>4. q + 0 + l <= 1
      BY <3>1, <3>2, <3>3, Zenon
    <3>5. q + l <= 1
      BY <3>4
    <3>6. Gone = ((m - 0) - l) - q
      BY <3>1, <3>2, Zenon DEF Gone, Entered
    <3>7. Gone = m - l - q
      BY <3>6
    <3>8. Gone >= 0
      BY DEF PlaceInv, OrderInv
    <3> QED BY <3>2, <3>5, <3>7, <3>8, Zenon
  <2>3. closed = 1 .. Gone
    <3>1. \A c \in Conns : c <= Gone <=> c \in closed
      <4>1. \A w \in Workers : cfd[w] = NoFd
        BY <2>1 DEF PlaceInv, ServeInv
      <4>2. \A c \in Conns : c # NoFd
        BY DEF Conns, NoFd
      <4> QED BY <4>1, <4>2, Zenon DEF PlaceInv, ServeInv
    <3>2. naccept \in 0 .. MaxConns /\ qcount \in Nat /\ closed \subseteq Conns /\ Lost \in Nat
      BY SessionQueueAssumption DEF IInv, TypeOK, Lost
    <3>3. Gone \in 0 .. MaxConns
      BY <2>2, <3>2, SessionQueueAssumption
    <3>4. \A c \in Conns : c \in closed <=> c \in 1 .. Gone
      <4>1. \A c \in Conns : c \in 1 .. Gone <=> c <= Gone
        BY <3>3 DEF Conns
      <4> QED BY <3>1, <4>1, Zenon
    <3>5. 1 .. Gone \subseteq Conns
      BY <3>3, SessionQueueAssumption DEF Conns
    <3> QED BY <3>2, <3>4, <3>5, Zenon
  <2>4. Cardinality(1 .. Gone) = Gone
    <3>1. naccept \in Int /\ qcount \in Int /\ Lost \in Int
      BY DEF IInv, TypeOK, Lost
    <3>2. Gone \in Nat
      BY <2>2, <3>1
    <3> QED BY <3>2, FS_Interval
  <2>5. naccept \in Int /\ qcount \in Int /\ Lost \in Int
    BY DEF IInv, TypeOK, Lost
  <2> QED BY <2>2, <2>3, <2>4, <2>5
<1> QED BY <1>1, Invariance, PlaceInvariance, JoinedInvariance, PTL

\* The circular buffer with its two positions, its counter and its two
\* conditions implements the bounded queue of SessionFifo.
THEOREM RefinesFifo == Spec => ImplementsFifo
<1>1. Init => Fifo!Init
  <2> SUFFICES ASSUME Init PROVE Fifo!Init
    OBVIOUS
  <2>1. qcount = 0 /\ stopsvr = 0 /\ dropped = {} /\ closed = {}
        /\ \A w \in Workers : cfd[w] = NoFd
    BY DEF Init, Threads
  <2>2. [i \in 1 .. qcount |-> squeue[Slot(i - 1)]] = <<>>
    <3>1. 1 .. qcount = {}
      BY <2>1
    <3> QED BY <3>1
  <2>3. \A c \in Conns : Fate(c) = "new"
    <3>1. Queued = {}
      BY <2>1 DEF Queued
    <3>2. \A c \in Conns : c # NoFd
      BY SessionQueueAssumption DEF Conns, NoFd
    <3> QED BY <2>1, <3>1, <3>2 DEF Fate
  <2> QED BY <2>1, <2>2, <2>3 DEF Fifo!Init
<1>2. IInv /\ PlaceInv /\ (IInv /\ PlaceInv)' /\ [Next]_vars => [Fifo!Next]_(Fifo!fifoVars)
  BY Mapping, StepFifo, PTL
<1> QED BY <1>1, <1>2, Invariance, PlaceInvariance, PTL DEF Spec, ImplementsFifo, Fifo!Spec
=============================================================================
