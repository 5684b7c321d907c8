---------------------------- MODULE EventsProofs ----------------------------
(***************************************************************************)
(* What the programs over event descriptors promise, for every value of    *)
(* the constants.                                                          *)
(*                                                                         *)
(* totalmess: no byte is stranded, for any number of threads and pipes and *)
(* any schedule of their system calls.  The invariant is stronger than     *)
(* NeverStranded: a thread between its DEL and its ADD answers for a pipe  *)
(* only while the pipe is out of the set.  An ADD that finds the pipe in   *)
(* the set already makes no edge, so the thread whose ADD came first, or   *)
(* who was given its edge since, must answer for the byte.                 *)
(*                                                                         *)
(* The other programs: EventsAccounted.  eventfd-aio-test: results, signals*)
(* and blocks add up over the requests.  timerfd-test: the wait of a test  *)
(* finds what its own setting makes, and the script says how much.         *)
(* eventfd-sem, pthread-lat-ctx: what is in a channel follows from the     *)
(* places of the two players alone.  eventfd-bench, pipetest-4: from       *)
(* EdgeRingProofs.                                                         *)
(***************************************************************************)
EXTENDS MCEvents, FiniteSets, TLAPS

-----------------------------------------------------------------------------
(* totalmess *)

Busy == {"next", "del", "add", "read", "write"}

MessType ==
  /\ bytes \in [Pipes -> Nat] /\ inSet \subseteq Pipes
  /\ pc \in [Threads -> {"gate", "test", "ended", "wait"} \cup Busy]
  /\ events \in [Threads -> SUBSET Pipes]
  /\ idx \in [Threads -> Pipes \cup {None}]
  /\ widx \in [Threads -> Pipes \cup {None}]
  /\ \A t \in Threads : pc[t] \in Busy \ {"next"} => idx[t] \in Pipes /\ widx[t] \in Pipes

\* The threads wait for main's initial writes.
FillInv == main = "fill" => inSet = Pipes /\ \A t \in Threads : pc[t] = "gate"

\* A thread waits for events with none left to handle.
EventsInv == \A t \in Threads : pc[t] \notin Busy => events[t] = {}

\* A pipe out of the set will be put back.
OutInv == \A p \in Pipes \ inSet : \E t \in Threads : pc[t] = "add" /\ idx[t] = p

\* The thread has the event of p and has not yet taken p out of the set.
Owes(t, p) == p \in events[t] \/ (idx[t] = p /\ pc[t] = "del")

EdgeInv ==
  \A p \in inSet : bytes[p] > 0 =>
    (epet => p \in edges) \/ \E t \in Threads : Owes(t, p)

MessInv == MessType /\ FillInv /\ EventsInv /\ OutInv /\ EdgeInv

LEMMA MessInit == Mess!Init => MessInv
<1> SUFFICES ASSUME Mess!Init PROVE MessInv
  OBVIOUS
<1>1. MessType
  BY DEF Mess!Init, MessType, Busy
<1>2. FillInv /\ EventsInv /\ OutInv /\ EdgeInv
  BY DEF Mess!Init, FillInv, EventsInv, OutInv, EdgeInv
<1> QED BY <1>1, <1>2 DEF MessInv

LEMMA MainStep ==
  ASSUME MessInv, Mess!Fill \/ Mess!Awake \/ Mess!Join \/ Mess!SigInt
  PROVE  MessInv'
<1>1. UNCHANGED <<inSet, pc, events, idx, widx, epet>>
  BY DEF Mess!Fill, Mess!Awake, Mess!Join, Mess!SigInt, Mess!th
<1>2. main' = "fill" => main = "fill"
  BY DEF Mess!Fill, Mess!Awake, Mess!Join, Mess!SigInt
<1>3. FillInv' /\ EventsInv' /\ OutInv'
  BY <1>1, <1>2 DEF MessInv, FillInv, EventsInv, OutInv
<1>4. CASE Mess!Fill
  <2>1. MessType'
    BY <1>1, <1>4 DEF MessInv, MessType, Mess!Fill
  <2>2. EdgeInv'
    BY <1>1, <1>4 DEF MessInv, FillInv, EdgeInv, Mess!Fill
  <2> QED BY <1>3, <2>1, <2>2 DEF MessInv
<1>5. CASE ~Mess!Fill
  <2>1. UNCHANGED <<bytes, edges>>
    BY <1>5 DEF Mess!Awake, Mess!Join, Mess!SigInt
  <2>2. MessType' /\ EdgeInv'
    BY <1>1, <2>1 DEF MessInv, MessType, EdgeInv, Owes
  <2> QED BY <1>3, <2>2 DEF MessInv
<1> QED BY <1>4, <1>5

\* Gate, the reading of stop, and the end of a batch
LEMMA TurnStep ==
  ASSUME MessInv, NEW t \in Threads,
         Mess!Gate(t) \/ Mess!Test(t) \/ (Mess!NextEvent(t) /\ events[t] = {})
  PROVE  MessInv'
<1>1. /\ UNCHANGED <<epet, main, bytes, inSet, edges, events, idx, widx>>
      /\ pc[t] \in {"gate", "test", "next"} /\ events[t] = {} /\ main # "fill"
  BY DEF Mess!Gate, Mess!Test, Mess!NextEvent, MessInv, EventsInv, FillInv, Busy
<1>2. \E l \in {"test", "ended", "wait"} : pc' = [pc EXCEPT ![t] = l]
  BY DEF Mess!Gate, Mess!Test, Mess!NextEvent, Mess!Goto
<1>3. /\ pc'[t] \in {"test", "ended", "wait"}
      /\ \A u \in Threads : u # t => pc'[u] = pc[u]
  BY <1>2 DEF MessInv, MessType
<1>4. MessType'
  BY <1>1, <1>2, <1>3 DEF MessInv, MessType, Busy
<1>5. FillInv' /\ EventsInv'
  BY <1>1, <1>3 DEF MessInv, FillInv, EventsInv
<1>6. OutInv'
  BY <1>1, <1>3 DEF MessInv, OutInv
<1>7. EdgeInv'
  BY <1>1, <1>3 DEF MessInv, EdgeInv, Owes
<1> QED BY <1>4, <1>5, <1>6, <1>7 DEF MessInv

LEMMA EpollWaitStep ==
  ASSUME MessInv, NEW t \in Threads, Mess!EpollWait(t)
  PROVE  MessInv'
<1>1. pc[t] = "wait" /\ UNCHANGED <<epet, main, bytes, inSet, idx, widx>>
  BY DEF Mess!EpollWait
<1>2. PICK e \in SUBSET Mess!Reportable :
        /\ events' = [events EXCEPT ![t] = e] /\ edges' = edges \ e
        /\ pc' = [pc EXCEPT ![t] = IF e = {} THEN "test" ELSE "next"]
  BY DEF Mess!EpollWait, Mess!Goto
<1>3. e \in SUBSET Pipes
  BY <1>2 DEF Mess!Reportable, MessInv, MessType
<1>4. /\ events'[t] = e /\ (pc'[t] = "next" \/ (pc'[t] = "test" /\ e = {}))
      /\ \A u \in Threads : u # t => pc'[u] = pc[u] /\ events'[u] = events[u]
  BY <1>2 DEF MessInv, MessType
<1>5. MessType'
  BY <1>1, <1>2, <1>3, <1>4 DEF MessInv, MessType, Busy
<1>6. FillInv' /\ EventsInv'
  BY <1>1, <1>4 DEF MessInv, FillInv, EventsInv, Busy
<1>7. OutInv'
  BY <1>1, <1>4 DEF MessInv, OutInv
<1>8. EdgeInv'
  <2> SUFFICES ASSUME NEW p \in inSet, bytes[p] > 0, epet, p \notin edges'
               PROVE  \E u \in Threads : Owes(u, p)'
    BY <1>1 DEF EdgeInv
  <2>1. CASE p \in e
    BY <1>4, <2>1 DEF Owes
  <2>2. CASE p \notin e
    <3>1. PICK u \in Threads : Owes(u, p)
      BY <1>2, <2>2 DEF MessInv, EdgeInv
    <3>2. u # t
      BY <1>1, <3>1 DEF MessInv, EventsInv, Owes, Busy
    <3> QED BY <1>1, <1>4, <3>1, <3>2 DEF Owes
  <2> QED BY <2>1, <2>2
<1> QED BY <1>5, <1>6, <1>7, <1>8 DEF MessInv

LEMMA NextEventStep ==
  ASSUME MessInv, NEW t \in Threads, Mess!NextEvent(t), events[t] # {}
  PROVE  MessInv'
<1>1. pc[t] = "next" /\ UNCHANGED <<epet, main, bytes, inSet, edges>>
  BY DEF Mess!NextEvent
<1>2. PICK q \in events[t], w \in Pipes :
        /\ idx' = [idx EXCEPT ![t] = q] /\ widx' = [widx EXCEPT ![t] = w]
        /\ events' = [events EXCEPT ![t] = @ \ {q}]
        /\ pc' = [pc EXCEPT ![t] = "del"]
  BY DEF Mess!NextEvent, Mess!Goto
<1>3. q \in Pipes
  BY DEF MessInv, MessType
<1>4. /\ events'[t] = events[t] \ {q} /\ pc'[t] = "del" /\ idx'[t] = q /\ widx'[t] = w
      /\ \A u \in Threads : u # t => /\ pc'[u] = pc[u] /\ events'[u] = events[u]
                                     /\ idx'[u] = idx[u] /\ widx'[u] = widx[u]
  BY <1>2 DEF MessInv, MessType
<1>5. MessType'
  BY <1>1, <1>2, <1>3, <1>4 DEF MessInv, MessType, Busy
<1>6. FillInv' /\ EventsInv'
  BY <1>1, <1>4 DEF MessInv, FillInv, EventsInv, Busy
<1>7. OutInv'
  BY <1>1, <1>4 DEF MessInv, OutInv
<1>8. EdgeInv'
  BY <1>1, <1>4 DEF MessInv, EdgeInv, Owes
<1> QED BY <1>5, <1>6, <1>7, <1>8 DEF MessInv

LEMMA DelStep ==
  ASSUME MessInv, NEW t \in Threads, Mess!Del(t)
  PROVE  MessInv'
<1>1. PICK q \in Pipes : q = idx[t]
  BY DEF Mess!Del, MessInv, MessType, Busy
<1>2. /\ pc[t] = "del" /\ pc' = [pc EXCEPT ![t] = "add"]
      /\ inSet' = inSet \ {q} /\ edges' = edges \ {q}
      /\ UNCHANGED <<epet, main, bytes, events, idx, widx>>
  BY <1>1 DEF Mess!Del, Mess!Goto
<1>3. pc'[t] = "add" /\ \A u \in Threads : u # t => pc'[u] = pc[u]
  BY <1>2 DEF MessInv, MessType
<1>4. MessType'
  BY <1>2, <1>3 DEF MessInv, MessType, Busy
<1>5. FillInv' /\ EventsInv'
  BY <1>2, <1>3 DEF MessInv, FillInv, EventsInv, Busy
<1>6. OutInv'
  BY <1>1, <1>2, <1>3 DEF MessInv, OutInv
<1>7. EdgeInv'
  BY <1>1, <1>2, <1>3 DEF MessInv, EdgeInv, Owes
<1> QED BY <1>4, <1>5, <1>6, <1>7 DEF MessInv

LEMMA AddStep ==
  ASSUME MessInv, NEW t \in Threads, Mess!Add(t)
  PROVE  MessInv'
<1>1. PICK q \in Pipes : q = idx[t]
  BY DEF Mess!Add, MessInv, MessType, Busy
<1>2. /\ pc[t] = "add" /\ pc' = [pc EXCEPT ![t] = "read"]
      /\ inSet' = inSet \cup {q}
      /\ UNCHANGED <<epet, main, bytes, events, idx, widx>>
  BY <1>1 DEF Mess!Add, Mess!Goto, Mess!Added
<1>3. pc'[t] = "read" /\ \A u \in Threads : u # t => pc'[u] = pc[u]
  BY <1>2 DEF MessInv, MessType
<1>4. MessType'
  BY <1>2, <1>3 DEF MessInv, MessType, Busy
<1>5. FillInv' /\ EventsInv'
  BY <1>2, <1>3 DEF MessInv, FillInv, EventsInv, Busy
<1>6. OutInv'
  BY <1>1, <1>2, <1>3 DEF MessInv, OutInv
<1>7. EdgeInv'
  <2>1. /\ edges \subseteq edges'
        /\ q \notin inSet /\ bytes[q] > 0 => q \in edges'
    BY <1>1 DEF Mess!Add, Mess!Added
  <2> QED BY <1>1, <1>2, <1>3, <2>1 DEF MessInv, EdgeInv, Owes
<1> QED BY <1>4, <1>5, <1>6, <1>7 DEF MessInv

\* read() of one byte leaves no more than there was.
LEMMA LeftIs == ASSUME NEW v \in Nat PROVE Mess!Left(v) \in Nat /\ Mess!Left(v) <= v
<1>1. CASE v = 0
  BY <1>1 DEF Mess!Left
<1>2. CASE v > 0
  BY <1>2 DEF Mess!Left
<1> QED BY <1>1, <1>2

LEMMA ReadStep ==
  ASSUME MessInv, NEW t \in Threads, Mess!Read(t)
  PROVE  MessInv'
<1>1. PICK q \in Pipes : q = idx[t]
  BY DEF Mess!Read, MessInv, MessType, Busy
<1>2. /\ pc[t] = "read" /\ pc' = [pc EXCEPT ![t] = "write"]
      /\ bytes' = [bytes EXCEPT ![q] = Mess!Left(bytes[q])]
      /\ UNCHANGED <<epet, main, inSet, edges, events, idx, widx>>
  BY <1>1 DEF Mess!Read, Mess!Goto
<1>3. pc'[t] = "write" /\ \A u \in Threads : u # t => pc'[u] = pc[u]
  BY <1>2 DEF MessInv, MessType
<1>4. PICK n \in Nat : n = Mess!Left(bytes[q]) /\ n <= bytes[q]
  <2>1. PICK v \in Nat : v = bytes[q]
    BY DEF MessInv, MessType
  <2> QED BY <2>1, LeftIs
<1>5. MessType'
  BY <1>2, <1>3, <1>4 DEF MessInv, MessType, Busy
<1>6. FillInv' /\ EventsInv'
  BY <1>2, <1>3 DEF MessInv, FillInv, EventsInv, Busy
<1>7. OutInv'
  BY <1>1, <1>2, <1>3 DEF MessInv, OutInv
<1>8. EdgeInv'
  <2>1. \A p \in Pipes : bytes'[p] > 0 => bytes[p] > 0
    BY <1>2, <1>4 DEF MessInv, MessType
  <2> QED BY <1>2, <1>3, <2>1 DEF MessInv, MessType, EdgeInv, Owes
<1> QED BY <1>5, <1>6, <1>7, <1>8 DEF MessInv

LEMMA WriteStep ==
  ASSUME MessInv, NEW t \in Threads, Mess!Write(t)
  PROVE  MessInv'
<1>1. PICK w \in Pipes : w = widx[t]
  BY DEF Mess!Write, MessInv, MessType, Busy
<1>2. /\ pc[t] = "write" /\ pc' = [pc EXCEPT ![t] = "next"]
      /\ bytes' = [bytes EXCEPT ![w] = bytes[w] + 1]
      /\ edges' = edges \cup ({w} \cap inSet)
      /\ idx' = [idx EXCEPT ![t] = None] /\ widx' = [widx EXCEPT ![t] = None]
      /\ UNCHANGED <<epet, main, inSet, events>>
  BY <1>1 DEF Mess!Write, Mess!Goto
<1>3. /\ pc'[t] = "next"
      /\ \A u \in Threads : u # t => pc'[u] = pc[u] /\ idx'[u] = idx[u] /\ widx'[u] = widx[u]
  BY <1>2 DEF MessInv, MessType
<1>4. MessType'
  BY <1>2, <1>3 DEF MessInv, MessType, Busy
<1>5. FillInv' /\ EventsInv'
  BY <1>2, <1>3 DEF MessInv, FillInv, EventsInv, Busy
<1>6. OutInv'
  BY <1>2, <1>3 DEF MessInv, OutInv
<1>7. EdgeInv'
  <2>1. \A p \in Pipes \ {w} : bytes'[p] = bytes[p]
    BY <1>2 DEF MessInv, MessType
  <2> QED BY <1>2, <1>3, <2>1 DEF MessInv, MessType, EdgeInv, Owes
<1> QED BY <1>4, <1>5, <1>6, <1>7 DEF MessInv

LEMMA MessNext == MessInv /\ Mess!Next => MessInv'
<1> QED BY MainStep, TurnStep, EpollWaitStep, NextEventStep, DelStep, AddStep, ReadStep,
           WriteStep DEF Mess!Next, Mess!Thread

LEMMA MessIs == MessInv => Mess!NeverStranded
<1> QED BY DEF MessInv, MessType, OutInv, EdgeInv, Owes, Mess!NeverStranded,
           Mess!Reportable, Mess!Handling

-----------------------------------------------------------------------------
(* timerfd-test and timerfd-test2 *)

\* What ticks counts between the setting of a timer and the read: a single timer has
\* expired once, or will at its time; the periodic one has expired once for every
\* unit since tnow.
Counts(first, every) ==
  /\ period = every
  /\ every = 0 => \/ ticks = 0 /\ remain > 0 /\ age + remain >= first
                  \/ ticks = 1 /\ remain = 0 /\ age >= first
  /\ every = 1 => ticks = age /\ remain = 1

SetInv ==
  /\ pc \in {"sleep", "gettime", "poll", "read"} =>
       Counts(Timer!Script[test].value, Timer!Script[test].every)
  /\ pc = "read" => ticks > 0

\* After the last test the timer is not armed.
SpentInv == pc = "nonblock" => ticks = 0 /\ remain = 0

TimerInv ==
  /\ test \in 1 .. 4 /\ age \in Nat /\ remain \in Nat /\ ticks \in Nat
  /\ period \in {0, 1}
  /\ pc \in {"now", "set", "sleep", "gettime", "poll", "read", "nonblock", "end"}
  /\ SetInv /\ SpentInv

LEMMA ScriptIs ==
  /\ Len(Timer!Script) = 4
  /\ Timer!Script[1] = [value |-> Once, every |-> 0, abs |-> FALSE, sleeps |-> FALSE]
  /\ Timer!Script[2] = [value |-> Once, every |-> 0, abs |-> TRUE, sleeps |-> FALSE]
  /\ Timer!Script[3] = [value |-> 1, every |-> 1, abs |-> TRUE, sleeps |-> TRUE]
  /\ Timer!Script[4] = [value |-> 1, every |-> 0, abs |-> FALSE, sleeps |-> FALSE]
<1> QED BY DEF Timer!Script

LEMMA Entries ==
  /\ Timer!Script[1].value = Once /\ Timer!Script[1].every = 0 /\ Timer!Script[1].abs = FALSE
  /\ Timer!Script[2].value = Once /\ Timer!Script[2].every = 0 /\ Timer!Script[2].abs = TRUE
  /\ Timer!Script[3].value = 1 /\ Timer!Script[3].every = 1 /\ Timer!Script[3].abs = TRUE
  /\ Timer!Script[4].value = 1 /\ Timer!Script[4].every = 0 /\ Timer!Script[4].abs = FALSE
<1>1. PICK r1, r2, r3, r4 :
        /\ r1 = Timer!Script[1] /\ r2 = Timer!Script[2]
        /\ r3 = Timer!Script[3] /\ r4 = Timer!Script[4]
  OBVIOUS
<1>2. r1 = [value |-> Once, every |-> 0, abs |-> FALSE, sleeps |-> FALSE]
  BY <1>1, ScriptIs, Zenon
<1>3. r2 = [value |-> Once, every |-> 0, abs |-> TRUE, sleeps |-> FALSE]
  BY <1>1, ScriptIs, Zenon
<1>4. r3 = [value |-> 1, every |-> 1, abs |-> TRUE, sleeps |-> TRUE]
  BY <1>1, ScriptIs, Zenon
<1>5. r4 = [value |-> 1, every |-> 0, abs |-> FALSE, sleeps |-> FALSE]
  BY <1>1, ScriptIs, Zenon
<1>6. r1.value = Once /\ r1.every = 0 /\ r1.abs = FALSE
  BY <1>2
<1>7. r2.value = Once /\ r2.every = 0 /\ r2.abs = TRUE
  BY <1>3
<1>8. r3.value = 1 /\ r3.every = 1 /\ r3.abs = TRUE
  BY <1>4
<1>9. r4.value = 1 /\ r4.every = 0 /\ r4.abs = FALSE
  BY <1>5
<1> QED BY <1>1, <1>6, <1>7, <1>8, <1>9, Zenon

LEMMA EntryIs ==
  ASSUME NEW i \in 1 .. 4
  PROVE  /\ Timer!Script[i].value \in Nat \ {0}
         /\ Timer!Script[i].every \in {0, 1}
         /\ Timer!Script[i].abs = TRUE \/ Timer!Script[i].abs = FALSE
         /\ Timer!Script[i].every = 1 => Timer!Script[i].value = 1 /\ Timer!Script[i].abs = TRUE
         /\ i = 4 => Timer!Script[i].every = 0
<1>1. i = 1 \/ i = 2 \/ i = 3 \/ i = 4
  OBVIOUS
<1>2. Timer!Script[i].value \in Nat \ {0} /\ Timer!Script[i].every \in {0, 1}
  <2>1. /\ Timer!Script[1].value = Once /\ Timer!Script[2].value = Once
        /\ Timer!Script[3].value = 1 /\ Timer!Script[4].value = 1
    BY Entries
  <2>2. /\ Timer!Script[1].every = 0 /\ Timer!Script[2].every = 0
        /\ Timer!Script[3].every = 1 /\ Timer!Script[4].every = 0
    BY Entries
  <2>3. Once \in Nat \ {0}
    BY EventsAssumption
  <2>4. 1 \in Nat \ {0}
    OBVIOUS
  <2>5. Timer!Script[i].value \in Nat \ {0}
    BY <1>1, <2>1, <2>3, <2>4, Zenon
  <2>6. Timer!Script[i].every \in {0, 1}
    BY <1>1, <2>2, Zenon
  <2> QED BY <2>5, <2>6
<1>3. /\ Timer!Script[1].abs = FALSE /\ Timer!Script[2].abs = TRUE
      /\ Timer!Script[3].abs = TRUE /\ Timer!Script[4].abs = FALSE
  BY Entries
<1>4. Timer!Script[i].every = 1 => i = 3
  BY <1>1, Entries
<1>5. Timer!Script[3].value = 1
  BY Entries
<1>6. Timer!Script[4].every = 0
  BY Entries
<1> QED BY <1>1, <1>2, <1>3, <1>4, <1>5, <1>6, Zenon

LEMMA TimerInit == Timer!Init => TimerInv
<1> QED BY DEF Timer!Init, TimerInv, SetInv, SpentInv

\* SetInv after a step that stays in the test.
LEMMA SameTest ==
  ASSUME TimerInv, test' = test
  PROVE  \E v \in Nat \ {0}, e \in {0, 1} :
           /\ v = Timer!Script[test].value /\ e = Timer!Script[test].every
           /\ e = 1 => v = 1 /\ Timer!Script[test].abs = TRUE
           /\ test = 4 => e = 0
           /\ SetInv' = (/\ pc' \in {"sleep", "gettime", "poll", "read"} => Counts(v, e)'
                         /\ pc' = "read" => ticks' > 0)
<1>1. PICK v \in Nat \ {0}, e \in {0, 1} :
        /\ v = Timer!Script[test].value /\ e = Timer!Script[test].every
        /\ e = 1 => v = 1 /\ Timer!Script[test].abs = TRUE
        /\ test = 4 => e = 0
  BY EntryIs DEF TimerInv
<1>2. Timer!Script' = Timer!Script
  BY DEF Timer!Script
<1>3. v = (Timer!Script[test].value)' /\ e = (Timer!Script[test].every)'
  BY <1>1, <1>2
<1>4. SetInv' = (/\ pc' \in {"sleep", "gettime", "poll", "read"} => Counts(v, e)'
                 /\ pc' = "read" => ticks' > 0)
  BY <1>3 DEF SetInv, Counts
<1> QED BY <1>1, <1>4

LEMMA PassStep ==
  ASSUME TimerInv, Timer!Pass
  PROVE  TimerInv'
<1>1. age' = age + 1 /\ UNCHANGED <<pc, test, period>>
  BY DEF Timer!Pass, Timer!prog
<1>2. PICK v \in Nat \ {0}, e \in {0, 1} :
        /\ v = Timer!Script[test].value /\ e = Timer!Script[test].every
        /\ SetInv' = (/\ pc' \in {"sleep", "gettime", "poll", "read"} => Counts(v, e)'
                      /\ pc' = "read" => ticks' > 0)
  BY <1>1, SameTest
<1>3. pc \in {"sleep", "gettime", "poll", "read"} => Counts(v, e)
  BY <1>2 DEF TimerInv, SetInv
<1>4. \/ remain = 1 /\ remain' = period /\ ticks' = ticks + 1
      \/ /\ remain # 1 /\ remain' = (IF remain = 0 THEN 0 ELSE remain - 1)
         /\ ticks' = ticks
  BY DEF Timer!Pass, TimerInv
<1>5. pc' \in {"sleep", "gettime", "poll", "read"} => Counts(v, e)'
  BY <1>1, <1>3, <1>4 DEF TimerInv, Counts
<1>6. pc' = "read" => ticks' > 0
  BY <1>1, <1>4 DEF TimerInv, SetInv
<1>7. SetInv'
  BY <1>2, <1>5, <1>6
<1> QED BY <1>1, <1>4, <1>7 DEF TimerInv, SpentInv

LEMMA SettimeStep ==
  ASSUME TimerInv, Timer!Settime
  PROVE  TimerInv'
<1>1. pc' \in {"sleep", "poll"} /\ UNCHANGED <<test, age>>
  BY DEF Timer!Settime
<1>2. PICK v \in Nat \ {0}, e \in {0, 1} :
        /\ v = Timer!Script[test].value /\ e = Timer!Script[test].every
        /\ e = 1 => v = 1 /\ Timer!Script[test].abs = TRUE
        /\ SetInv' = (/\ pc' \in {"sleep", "gettime", "poll", "read"} => Counts(v, e)'
                      /\ pc' = "read" => ticks' > 0)
  BY <1>1, SameTest
<1>3. PICK d \in Int : /\ Timer!Armed(d, e)
                       /\ d = v - age \/ (d = v /\ e = 0)
  <2>1. PICK d \in Int : d = IF Timer!Script[test].abs THEN v - age ELSE v
    <3>1. v - age \in Int /\ v \in Int
      BY DEF TimerInv
    <3> QED BY <3>1, Zenon
  <2>2. Timer!Armed(d, e)
    BY <1>2, <2>1, Zenon DEF Timer!Settime
  <2>3. d = v - age \/ (d = v /\ e = 0)
    BY <1>2, <2>1
  <2> QED BY <2>2, <2>3
<1>4. /\ age \in Nat /\ v \in Nat \ {0} /\ (e = 0 \/ e = 1)
      /\ pc' # "read" /\ SpentInv' /\ test' \in 1 .. 4 /\ age' \in Nat
      /\ pc' \in {"now", "set", "sleep", "gettime", "poll", "read", "nonblock", "end"}
  BY <1>1 DEF TimerInv, SpentInv
<1>5. ASSUME period' \in {0, 1}, remain' \in Nat, ticks' \in Nat, Counts(v, e)'
      PROVE  TimerInv'
  <2>1. SetInv'
    BY <1>4, <1>2, <1>5, Zenon
  <2> QED BY <1>4, <1>5, <2>1, Zenon DEF TimerInv
<1>6. CASE d > 0
  <2>1. period' = e /\ remain' = d /\ ticks' = 0
    BY <1>3, <1>6 DEF Timer!Armed, Timer!Cleared
  <2>2. age' = age /\ age \in Nat /\ v \in Nat /\ (e = 1 => v = 1)
    BY <1>1, <1>2, <1>4
  <2>3. e = 0 => age' + d >= v
    BY <1>3, <1>6, <2>2
  <2>5. e = 1 => age' = 0 /\ d = 1
    BY <1>3, <1>6, <2>2
  <2>4. Counts(v, e)'
    BY <1>4, <1>6, <2>1, <2>3, <2>5 DEF Counts
  <2> QED BY <1>4, <1>6, <1>5, <2>1, <2>4
<1>7. CASE d <= 0 /\ e = 0
  <2>1. period' = e /\ remain' = 0 /\ ticks' = 1
    BY <1>3, <1>7 DEF Timer!Armed, Timer!Cleared
  <2>2. age' >= v
    BY <1>4, <1>1, <1>3, <1>7
  <2>3. Counts(v, e)'
    BY <1>7, <2>1, <2>2 DEF Counts
  <2> QED BY <1>7, <1>5, <2>1, <2>3
<1>8. CASE d <= 0 /\ e = 1
  <2>1. PICK m \in Nat : m = -d
    BY <1>8
  <2>2. m % 1 = 0 /\ m \div 1 = m
    OBVIOUS
  <2>3. period' = 1 /\ remain' = 1 /\ ticks' = age
    <3>1. period' = 1 /\ remain' = 1 - (m % 1) /\ ticks' = 0 + 1 + (m \div 1)
      BY <1>3, <1>8, <2>1 DEF Timer!Armed, Timer!Cleared
    <3>2. 1 + m = age
      BY <1>4, <1>2, <1>3, <1>8, <2>1
    <3> QED BY <2>2, <3>1, <3>2
  <2>4. Counts(v, e)'
    BY <1>1, <1>8, <2>3 DEF Counts
  <2> QED BY <1>4, <1>8, <1>5, <2>3, <2>4
<1> QED BY <1>6, <1>7, <1>8

LEMMA TimerNext == TimerInv /\ Timer!Next => TimerInv'
<1> SUFFICES ASSUME TimerInv, Timer!Next PROVE TimerInv'
  OBVIOUS
<1>1. CASE Timer!Now
  BY <1>1 DEF Timer!Now, TimerInv, SetInv, SpentInv
<1>2. CASE Timer!Slept \/ Timer!Gettime \/ Timer!Poll
  <2>1. /\ UNCHANGED <<test, age, remain, period, ticks>>
        /\ pc \in {"sleep", "gettime", "poll"} /\ pc' \in {"sleep", "gettime", "poll", "read"}
        /\ pc' = "read" => ticks > 0
    BY <1>2 DEF Timer!Slept, Timer!Gettime, Timer!Poll
  <2>2. PICK v \in Nat \ {0}, e \in {0, 1} :
          /\ v = Timer!Script[test].value /\ e = Timer!Script[test].every
          /\ SetInv' = (/\ pc' \in {"sleep", "gettime", "poll", "read"} => Counts(v, e)'
                        /\ pc' = "read" => ticks' > 0)
    BY <2>1, SameTest
  <2>3. Counts(v, e)
    BY <2>1, <2>2 DEF TimerInv, SetInv
  <2>4. SetInv'
    BY <2>1, <2>2, <2>3 DEF Counts
  <2> QED BY <2>1, <2>4 DEF TimerInv, SpentInv
<1>3. CASE Timer!Read
  <2>1. Len(Timer!Script) = 4
    BY ScriptIs
  <2>2. /\ pc = "read" /\ ticks' = 0 /\ UNCHANGED <<age, remain, period>>
        /\ \/ test < 4 /\ test' = test + 1 /\ pc' = "now"
           \/ test = 4 /\ test' = test /\ pc' = "nonblock"
    BY <1>3, <2>1 DEF Timer!Read, TimerInv
  <2>3. test = 4 => remain = 0
    BY <2>2, EntryIs DEF TimerInv, SetInv, Counts
  <2> QED BY <2>2, <2>3 DEF TimerInv, SetInv, SpentInv
<1>4. CASE Timer!ReadNonblock
  BY <1>4 DEF Timer!ReadNonblock, TimerInv, SetInv, SpentInv
<1> QED BY <1>1, <1>2, <1>3, <1>4, SettimeStep, PassStep DEF Timer!Next, Timer!Program

LEMMA TimerIs == TimerInv => Timer!Accounted
<1> SUFFICES ASSUME TimerInv PROVE Timer!Accounted
  OBVIOUS
<1>1. PICK v \in Nat \ {0}, e \in {0, 1} :
        /\ v = Timer!Script[test].value /\ e = Timer!Script[test].every /\ (e = 1 => v = 1)
  BY EntryIs DEF TimerInv
<1>2. pc = "read" => age >= v /\ ticks = IF e = 0 THEN 1 ELSE age
  <2> SUFFICES ASSUME pc = "read" PROVE age >= v /\ ticks = IF e = 0 THEN 1 ELSE age
    OBVIOUS
  <2>1. Counts(v, e) /\ ticks > 0 /\ age \in Nat
    BY <1>1 DEF TimerInv, SetInv
  <2> QED BY <1>1, <2>1 DEF Counts
<1> QED BY <1>1, <1>2 DEF TimerInv, SpentInv, Timer!Accounted

-----------------------------------------------------------------------------
(* eventfd-sem and pthread-lat-ctx: what a player has posted, has taken and how often it
   has posted, from its place in the script alone *)

Sent(g, a) ==
  IF g = "eventfd-sem"
  THEN IF a <= 1 THEN 0 ELSE IF a <= 3 THEN 1 ELSE IF a <= 5 THEN 2 ELSE 2 + Burst
  ELSE a \div 2

Took(g, a) ==
  IF g = "eventfd-sem"
  THEN IF a <= 2 THEN 0 ELSE IF a <= 4 THEN 1 ELSE IF a <= 6 THEN 2 ELSE a - 4
  ELSE IF a = 0 THEN 0 ELSE (a - 1) \div 2

Turns(g, a) ==
  IF g = "eventfd-sem"
  THEN IF a <= 1 THEN 0 ELSE IF a <= 3 THEN 1 ELSE IF a <= 5 THEN 2 ELSE 3
  ELSE a \div 2

Posts(s, a) == Cardinality({i \in 1 .. a - 1 : s[i] > 0})

PlayersInv ==
  /\ at \in [Ping!Players -> Nat] /\ chan \in [Ping!Players -> Nat]
  /\ nth \in Ping!Players /\ left \subseteq Ping!Players
  /\ pc \in {"start", "wait", "end", "exit"}
  /\ \A p \in Ping!Players : at[p] <= Len(Ping!Script) + 1

ChanInv ==
  \A p \in Ping!Players :
    /\ chan[p] = Sent(program, at[p]) - Took(program, at[Ping!Peer(p)])
    /\ Posts(Ping!Script, at[p]) = Turns(program, at[p])

\* main has started no player it does not know of, and a player it has waited for is
\* over.
JoinInv ==
  /\ \A p \in Ping!Players :
       /\ at[p] = 0 => p \notin left
       /\ at[p] # 0 /\ p \notin left => Ping!Exited(p)
  /\ pc = "start" => at[2] = 0 /\ (nth = 1 => at[1] = 0)
  /\ pc = "wait" /\ nth = 2 => 1 \notin left
  /\ pc = "end" => left = {}

PingInv == program \in Ping!Programs /\ PlayersInv /\ ChanInv /\ JoinInv

LEMMA SameScript == program' = program => Ping!Script' = Ping!Script
<1> QED BY DEF Ping!Script, Ping!SemScript, Ping!LatScript, Ping!Times

LEMMA ConcatIs ==
  ASSUME NEW S, NEW y \in Seq(S), NEW z \in Seq(S)
  PROVE  /\ Len(y \o z) = Len(y) + Len(z)
         /\ \A i \in 1 .. Len(y) + Len(z) :
              (y \o z)[i] = IF i <= Len(y) THEN y[i] ELSE z[i - Len(y)]
<1> QED OBVIOUS

\* sem_player's script, entry by entry.
LEMMA SemIs ==
  ASSUME program = "eventfd-sem"
  PROVE  /\ Len(Ping!Script) = 5 + Burst
         /\ Ping!Script[1] = 1 /\ Ping!Script[2] = 0 /\ Ping!Script[3] = 1
         /\ Ping!Script[4] = 0 /\ Ping!Script[5] = Burst
         /\ \A i \in 6 .. 5 + Burst : Ping!Script[i] = 0
<1>1. PICK z : z = Ping!Times(Burst, <<0>>)
  OBVIOUS
<1>2. z \in Seq(Nat) /\ Len(z) = Burst /\ \A i \in 1 .. Burst : z[i] = 0
  <2>1. Len(<<0>>) = 1 /\ <<0>>[1] = 0
    OBVIOUS
  <2>2. z = [i \in 1 .. Burst |-> <<0>>[((i - 1) % 1) + 1]]
    BY <1>1, <2>1, EventsAssumption DEF Ping!Times
  <2>3. \A i \in 1 .. Burst : ((i - 1) % 1) + 1 = 1
    OBVIOUS
  <2>4. z = [i \in 1 .. Burst |-> 0]
    BY <2>1, <2>2, <2>3
  <2> QED BY <2>4, EventsAssumption
<1>3. Ping!Script = <<1, 0, 1, 0, Burst>> \o z
  BY <1>1 DEF Ping!Script, Ping!SemScript
<1>4. PICK y : y = <<1, 0, 1, 0, Burst>>
  OBVIOUS
<1>5. /\ y \in Seq(Nat) /\ Len(y) = 5
      /\ y[1] = 1 /\ y[2] = 0 /\ y[3] = 1 /\ y[4] = 0 /\ y[5] = Burst
  BY <1>4, EventsAssumption
<1>6. /\ Len(y \o z) = 5 + Burst
      /\ \A i \in 1 .. 5 : (y \o z)[i] = y[i]
      /\ \A i \in 6 .. 5 + Burst : (y \o z)[i] = z[i - 5]
  <2>0. /\ Len(y \o z) = Len(y) + Len(z)
        /\ \A i \in 1 .. Len(y) + Len(z) :
             (y \o z)[i] = IF i <= Len(y) THEN y[i] ELSE z[i - Len(y)]
    BY <1>2, <1>5, ConcatIs, Zenon
  <2>1. Len(y \o z) = 5 + Burst
    BY <1>2, <1>5, <2>0, Zenon
  <2>2. \A i \in 1 .. 5 + Burst : (y \o z)[i] = IF i <= 5 THEN y[i] ELSE z[i - 5]
    BY <1>2, <1>5, <2>0, Zenon
  <2>3. 1 .. 5 \subseteq 1 .. 5 + Burst /\ 6 .. 5 + Burst \subseteq 1 .. 5 + Burst
    BY EventsAssumption
  <2>4. (\A i \in 1 .. 5 : i <= 5) /\ (\A i \in 6 .. 5 + Burst : ~ (i <= 5))
    BY EventsAssumption
  <2> QED BY <2>1, <2>2, <2>3, <2>4
<1>7. \A i \in 6 .. 5 + Burst : i - 5 \in 1 .. Burst
  BY EventsAssumption
<1> QED BY <1>2, <1>3, <1>4, <1>5, <1>6, <1>7

\* tproc's script: the odd entries write, the even ones read.
LEMMA LatIs ==
  ASSUME program # "eventfd-sem"
  PROVE  /\ Len(Ping!Script) = 2 * Swcount
         /\ \A i \in 1 .. 2 * Swcount : Ping!Script[i] = IF i % 2 = 1 THEN 1 ELSE 0
<1>1. Len(<<1, 0>>) = 2 /\ <<1, 0>>[1] = 1 /\ <<1, 0>>[2] = 0
  OBVIOUS
<1>2. Ping!Script = [i \in 1 .. 2 * Swcount |-> <<1, 0>>[((i - 1) % 2) + 1]]
  <2>1. Swcount * 2 = 2 * Swcount
    BY EventsAssumption
  <2> QED BY <1>1, <2>1 DEF Ping!Script, Ping!LatScript, Ping!Times
<1>3. \A i \in 1 .. 2 * Swcount : ((i - 1) % 2) + 1 = IF i % 2 = 1 THEN 1 ELSE 2
  BY EventsAssumption
<1>4. Ping!Script = [i \in 1 .. 2 * Swcount |-> IF i % 2 = 1 THEN 1 ELSE 0]
  BY <1>1, <1>2, <1>3
<1>5. 2 * Swcount \in Nat
  BY EventsAssumption
<1> QED BY <1>4, <1>5

\* What one entry of the script changes.
LEMMA Advance ==
  ASSUME NEW a \in 1 .. Len(Ping!Script)
  PROVE  /\ Len(Ping!Script) \in Nat
         /\ Ping!Script[a] \in Nat
         /\ Ping!Script[a] > 0 =>
              /\ Sent(program, a + 1) = Sent(program, a) + Ping!Script[a]
              /\ Took(program, a + 1) = Took(program, a)
              /\ Turns(program, a + 1) = Turns(program, a) + 1
         /\ Ping!Script[a] = 0 =>
              /\ Sent(program, a + 1) = Sent(program, a)
              /\ Took(program, a + 1) = Took(program, a) + 1
              /\ Turns(program, a + 1) = Turns(program, a)
<1>1. CASE program = "eventfd-sem"
  <2>1. a \in {1, 2, 3, 4, 5} \/ a \in 6 .. 5 + Burst
    BY <1>1, SemIs, EventsAssumption
  <2>2. CASE a \in {1, 2, 3, 4, 5}
    <3>1. Burst \in Nat \ {0} /\ Len(Ping!Script) \in Nat
      BY <1>1, SemIs, EventsAssumption
    <3>2. CASE a = 1
      <4>1. /\ Sent(program, 1) = 0 /\ Sent(program, 1 + 1) = 1
            /\ Took(program, 1) = 0 /\ Took(program, 1 + 1) = 0
        BY <1>1 DEF Sent, Took
      <4>2. Turns(program, 1) = 0 /\ Turns(program, 1 + 1) = 1
        BY <1>1 DEF Turns
      <4>3. Ping!Script[1] = 1
        BY <1>1, SemIs
      <4> QED BY <3>1, <3>2, <4>1, <4>2, <4>3
    <3>3. CASE a = 2
      <4>1. /\ Sent(program, 2) = 1 /\ Sent(program, 2 + 1) = 1
            /\ Took(program, 2) = 0 /\ Took(program, 2 + 1) = 1
        BY <1>1 DEF Sent, Took
      <4>2. Turns(program, 2) = 1 /\ Turns(program, 2 + 1) = 1
        BY <1>1 DEF Turns
      <4>3. Ping!Script[2] = 0
        BY <1>1, SemIs
      <4> QED BY <3>1, <3>3, <4>1, <4>2, <4>3
    <3>4. CASE a = 3
      <4>1. /\ Sent(program, 3) = 1 /\ Sent(program, 3 + 1) = 2
            /\ Took(program, 3) = 1 /\ Took(program, 3 + 1) = 1
        BY <1>1 DEF Sent, Took
      <4>2. Turns(program, 3) = 1 /\ Turns(program, 3 + 1) = 2
        BY <1>1 DEF Turns
      <4>3. Ping!Script[3] = 1
        BY <1>1, SemIs
      <4> QED BY <3>1, <3>4, <4>1, <4>2, <4>3
    <3>5. CASE a = 4
      <4>1. /\ Sent(program, 4) = 2 /\ Sent(program, 4 + 1) = 2
            /\ Took(program, 4) = 1 /\ Took(program, 4 + 1) = 2
        BY <1>1 DEF Sent, Took
      <4>2. Turns(program, 4) = 2 /\ Turns(program, 4 + 1) = 2
        BY <1>1 DEF Turns
      <4>3. Ping!Script[4] = 0
        BY <1>1, SemIs
      <4> QED BY <3>1, <3>5, <4>1, <4>2, <4>3
    <3>6. CASE a = 5
      <4>1. /\ Sent(program, 5) = 2 /\ Sent(program, 5 + 1) = 2 + Burst
            /\ Took(program, 5) = 2 /\ Took(program, 5 + 1) = 2
        BY <1>1 DEF Sent, Took
      <4>2. Turns(program, 5) = 2 /\ Turns(program, 5 + 1) = 3
        BY <1>1 DEF Turns
      <4>3. Ping!Script[5] = Burst
        BY <1>1, SemIs
      <4> QED BY <3>1, <3>6, <4>1, <4>2, <4>3
    <3> QED BY <2>2, <3>2, <3>3, <3>4, <3>5, <3>6, Zenon
  <2>3. CASE a \in 6 .. 5 + Burst
    <3>1. Burst \in Nat \ {0} /\ Len(Ping!Script) \in Nat /\ Ping!Script[a] = 0
      BY <1>1, <2>3, SemIs, EventsAssumption
    <3>2. a \in Int /\ a >= 6
      BY <2>3, <3>1
    <3>3. Sent(program, a + 1) = Sent(program, a)
      BY <1>1, <3>2 DEF Sent
    <3>4. Took(program, a + 1) = Took(program, a) + 1
      BY <1>1, <3>2 DEF Took
    <3>5. Turns(program, a + 1) = Turns(program, a)
      BY <1>1, <3>2 DEF Turns
    <3>6. ~(Ping!Script[a] > 0) /\ Ping!Script[a] \in Nat
      BY <3>1
    <3> QED BY <3>1, <3>3, <3>4, <3>5, <3>6, Zenon
  <2> QED BY <2>1, <2>2, <2>3
<1>2. CASE program # "eventfd-sem"
  <2>1. /\ Len(Ping!Script) \in Nat /\ a \in Nat \ {0}
        /\ Ping!Script[a] = IF a % 2 = 1 THEN 1 ELSE 0
    BY <1>2, LatIs, EventsAssumption
  <2>2. a % 2 = 1 => (a + 1) \div 2 = (a \div 2) + 1 /\ a \div 2 = (a - 1) \div 2
    BY <2>1
  <2>3. a % 2 # 1 => (a + 1) \div 2 = a \div 2 /\ a \div 2 = ((a - 1) \div 2) + 1
    BY <2>1
  <2>4. CASE a % 2 = 1
    <3>1. Sent(program, a + 1) = Sent(program, a) + 1
      BY <1>2, <2>2, <2>4, Zenon DEF Sent
    <3>2. Took(program, a + 1) = Took(program, a)
      <4>1. a # 0 /\ a + 1 # 0 /\ (a + 1) - 1 = a
        BY <2>1
      <4> QED BY <1>2, <2>2, <2>4, <4>1, Zenon DEF Took
    <3>3. Turns(program, a + 1) = Turns(program, a) + 1
      BY <1>2, <2>2, <2>4, Zenon DEF Turns
    <3>4. Ping!Script[a] = 1
      BY <2>1, <2>4
    <3>5. 1 \in Nat /\ ~(1 = 0)
      OBVIOUS
    <3> QED BY <2>1, <3>1, <3>2, <3>3, <3>4, <3>5, Zenon
  <2>5. CASE a % 2 # 1
    <3>1. Sent(program, a + 1) = Sent(program, a)
      BY <1>2, <2>3, <2>5, Zenon DEF Sent
    <3>2. Took(program, a + 1) = Took(program, a) + 1
      <4>1. a # 0 /\ a + 1 # 0 /\ (a + 1) - 1 = a
        BY <2>1
      <4> QED BY <1>2, <2>3, <2>5, <4>1, Zenon DEF Took
    <3>3. Turns(program, a + 1) = Turns(program, a)
      BY <1>2, <2>3, <2>5, Zenon DEF Turns
    <3>4. Ping!Script[a] = 0
      BY <2>1, <2>5
    <3>5. 0 \in Nat /\ ~(0 > 0)
      OBVIOUS
    <3> QED BY <2>1, <3>1, <3>2, <3>3, <3>4, <3>5, Zenon
  <2> QED BY <2>4, <2>5
<1> QED BY <1>1, <1>2

\* The counts before the first entry, as naturals, and at the end of the script.
LEMMA CountsAre ==
  /\ Len(Ping!Script) \in Nat
  /\ \A a \in Nat : /\ Sent(program, a) \in Nat
                    /\ Took(program, a) \in Nat
                    /\ Turns(program, a) \in Nat
  /\ \A a \in {0, 1} : Sent(program, a) = 0 /\ Took(program, a) = 0 /\ Turns(program, a) = 0
  /\ \A a : a = Len(Ping!Script) + 1 => Sent(program, a) = Took(program, a)
<1>1. CASE program = "eventfd-sem"
  <2>1. Burst \in Nat \ {0} /\ Len(Ping!Script) = 5 + Burst
    BY <1>1, SemIs, EventsAssumption
  <2>2. Len(Ping!Script) \in Nat
    BY <2>1
  <2>3. \A a \in Nat : Sent(program, a) \in Nat
    BY <1>1, <2>1 DEF Sent
  <2>4. \A a \in Nat : Took(program, a) \in Nat
    BY <1>1 DEF Took
  <2>5. \A a \in Nat : Turns(program, a) \in Nat
    BY <1>1 DEF Turns
  <2>6. \A a \in {0, 1} : Sent(program, a) = 0 /\ Took(program, a) = 0 /\ Turns(program, a) = 0
    BY <1>1 DEF Sent, Took, Turns
  <2>7. \A a : a = Len(Ping!Script) + 1 => Sent(program, a) = Took(program, a)
    BY <1>1, <2>1 DEF Sent, Took
  <2> QED BY <2>2, <2>3, <2>4, <2>5, <2>6, <2>7
<1>2. CASE program # "eventfd-sem"
  <2>1. /\ Len(Ping!Script) = 2 * Swcount /\ 2 * Swcount \in Nat
        /\ (2 * Swcount + 1) \div 2 = Swcount /\ (2 * Swcount) \div 2 = Swcount
    BY <1>2, LatIs, EventsAssumption
  <2>2. \A a \in Nat : a \div 2 \in Nat /\ (a # 0 => (a - 1) \div 2 \in Nat)
    OBVIOUS
  <2>3. 0 \div 2 = 0 /\ 1 \div 2 = 0
    OBVIOUS
  <2>4. \A a \in Nat : /\ Sent(program, a) \in Nat
                       /\ Took(program, a) \in Nat
                       /\ Turns(program, a) \in Nat
    BY <1>2, <2>2 DEF Sent, Took, Turns
  <2>5. \A a \in {0, 1} : Sent(program, a) = 0 /\ Took(program, a) = 0 /\ Turns(program, a) = 0
    BY <1>2, <2>3 DEF Sent, Took, Turns
  <2>6. \A a : a = Len(Ping!Script) + 1 => Sent(program, a) = Took(program, a)
    BY <1>2, <2>1, EventsAssumption DEF Sent, Took
  <2> QED BY <2>1, <2>4, <2>5, <2>6
<1> QED BY <1>1, <1>2

\* A player that has taken no more than the other has posted has posted at most once
\* more than the other.
LEMMA NotAhead ==
  ASSUME NEW a \in Nat, NEW b \in Nat, Took(program, a) <= Sent(program, b)
  PROVE  Turns(program, a) <= Turns(program, b) + 1
<1>1. CASE program = "eventfd-sem"
  BY <1>1, EventsAssumption DEF Sent, Took, Turns
<1>2. CASE program # "eventfd-sem"
  BY <1>2 DEF Sent, Took, Turns
<1> QED BY <1>1, <1>2

\* Cardinalities, used from here on
INSTANCE FiniteSetTheorems

\* The posts before an entry and before the next one.
LEMMA PostsIs ==
  ASSUME NEW s, NEW a \in Nat \ {0}
  PROVE  /\ Posts(s, 0) = 0 /\ Posts(s, 1) = 0
         /\ Posts(s, a) \in Nat
         /\ s[a] > 0 => Posts(s, a + 1) = Posts(s, a) + 1
         /\ ~ (s[a] > 0) => Posts(s, a + 1) = Posts(s, a)
<1> DEFINE S == {i \in 1 .. a - 1 : s[i] > 0}
<1>1. {i \in 1 .. 0 - 1 : s[i] > 0} = {} /\ {i \in 1 .. 1 - 1 : s[i] > 0} = {}
  OBVIOUS
<1>2. IsFiniteSet(1 .. a - 1)
  BY FS_Interval
<1>3. IsFiniteSet(S)
  BY <1>2, FS_Subset
<1>4. Cardinality(S) \in Nat
  BY <1>3, FS_CardinalityType
<1>5. ASSUME s[a] > 0 PROVE {i \in 1 .. (a + 1) - 1 : s[i] > 0} = S \cup {a}
  BY <1>5
<1>6. ASSUME ~ (s[a] > 0) PROVE {i \in 1 .. (a + 1) - 1 : s[i] > 0} = S
  BY <1>6
<1>7. a \notin S
  OBVIOUS
<1>8. Cardinality(S \cup {a}) = Cardinality(S) + 1
  BY <1>3, <1>7, FS_AddElement
<1>9. Cardinality({}) = 0
  BY FS_EmptySet
<1> QED BY <1>1, <1>4, <1>5, <1>6, <1>8, <1>9 DEF Posts

LEMMA PingInit == Ping!Init => PingInv
<1> SUFFICES ASSUME Ping!Init PROVE PingInv
  OBVIOUS
<1>1. /\ program \in Ping!Programs /\ pc = "start" /\ nth = 1
      /\ at = [p \in {1, 2} |-> 0] /\ chan = [p \in {1, 2} |-> 0] /\ left = {}
  BY DEF Ping!Init, Ping!Players
<1>2. PlayersInv
  BY <1>1, CountsAre DEF PlayersInv, Ping!Players
<1>3. ChanInv
  <2>1. \A p \in {1, 2} : at[p] = 0 /\ chan[p] = 0 /\ at[3 - p] = 0
    BY <1>1
  <2>2. Posts(Ping!Script, 0) = 0
    BY PostsIs
  <2>3. Sent(program, 0) = 0 /\ Took(program, 0) = 0 /\ Turns(program, 0) = 0
    BY CountsAre
  <2> QED BY <2>1, <2>2, <2>3 DEF ChanInv, Ping!Players, Ping!Peer
<1>4. JoinInv
  BY <1>1 DEF JoinInv, Ping!Players
<1> QED BY <1>1, <1>2, <1>3, <1>4 DEF PingInv

LEMMA StartStep == PingInv /\ Ping!Start => PingInv'
<1> SUFFICES ASSUME PingInv, Ping!Start PROVE PingInv'
  OBVIOUS
<1>1. /\ program' = program /\ chan' = chan /\ pc = "start"
      /\ at \in [{1, 2} -> Nat] /\ chan \in [{1, 2} -> Nat] /\ nth \in {1, 2}
      /\ at' = [at EXCEPT ![nth] = 1]
      /\ left \subseteq {1, 2} /\ left' = left \cup {nth}
      /\ nth = 2 => pc' = "wait" /\ nth' = 1
      /\ nth = 1 => pc' = "start" /\ nth' = 2
  BY DEF PingInv, PlayersInv, Ping!Start, Ping!StartNext, Ping!Peer, Ping!Players
<1>2. at[2] = 0 /\ at[nth] = 0
  BY <1>1 DEF PingInv, JoinInv
<1>3. Ping!Script' = Ping!Script
  BY <1>1, SameScript
<1>4. Len(Ping!Script) \in Nat
  BY CountsAre
<1>5. \A p \in {1, 2} : at'[p] \in Nat /\ (at'[p] = at[p] \/ (at[p] = 0 /\ at'[p] = 1))
  BY <1>1, <1>2
<1>6. \A p \in {1, 2} :
        /\ Sent(program, at'[p]) = Sent(program, at[p])
        /\ Took(program, at'[p]) = Took(program, at[p])
        /\ Turns(program, at'[p]) = Turns(program, at[p])
  BY <1>5, CountsAre
<1>7. \A p \in {1, 2} : Posts(Ping!Script, at'[p]) = Posts(Ping!Script, at[p])
  <2>1. Posts(Ping!Script, 0) = 0 /\ Posts(Ping!Script, 1) = 0
    BY PostsIs
  <2> QED BY <1>5, <2>1
<1>8. PlayersInv'
  BY <1>1, <1>3, <1>4, <1>5 DEF PingInv, PlayersInv, Ping!Players
<1>9. ChanInv'
  BY <1>1, <1>3, <1>6, <1>7, SMTT(30) DEF PingInv, ChanInv, Ping!Players, Ping!Peer
<1>10. JoinInv'
  BY <1>1, <1>2, <1>3 DEF PingInv, JoinInv, Ping!Exited, Ping!Players
<1> QED BY <1>1, <1>8, <1>9, <1>10 DEF PingInv

LEMMA StartFailsStep == PingInv /\ Ping!StartFails => PingInv'
<1> SUFFICES ASSUME PingInv, Ping!StartFails PROVE PingInv'
  OBVIOUS
<1>1. /\ program' = program /\ chan' = chan /\ at' = at /\ left' = left
      /\ pc = "start" /\ nth \in {1, 2} /\ nth' \in {1, 2}
      /\ pc' = "exit" \/ (pc' = "wait" /\ nth = 2 /\ nth' = 1)
           \/ (pc' = "start" /\ nth = 1 /\ nth' = 2)
  BY DEF PingInv, PlayersInv, Ping!StartFails, Ping!StartNext, Ping!Peer, Ping!Players
<1>2. Ping!Script' = Ping!Script
  BY <1>1, SameScript
<1>3. PlayersInv'
  BY <1>1, <1>2 DEF PingInv, PlayersInv, Ping!Players
<1>4. ChanInv'
  BY <1>1, <1>2 DEF PingInv, ChanInv, Ping!Players, Ping!Peer
<1>5. JoinInv'
  BY <1>1, <1>2 DEF PingInv, JoinInv, Ping!Exited, Ping!Players
<1> QED BY <1>1, <1>3, <1>4, <1>5 DEF PingInv

\* waitpid() takes a player that is over, the one it is for or, for -1, any.
LEMMA JoinStep == PingInv /\ Ping!Join => PingInv'
<1> SUFFICES ASSUME PingInv, Ping!Join PROVE PingInv'
  OBVIOUS
<1>1. /\ program' = program /\ chan' = chan /\ at' = at /\ pc = "wait"
      /\ nth \in {1, 2} /\ left \subseteq {1, 2}
      /\ nth = 2 => pc' = "end" /\ nth' = nth
      /\ nth = 1 => pc' = "wait" /\ nth' = 2
      /\ \/ Ping!Awaited = {} /\ left' = left
         \/ \E p \in Ping!Awaited : Ping!Exited(p) /\ left' = left \ {p}
  BY DEF PingInv, PlayersInv, Ping!Join, Ping!Players
<1>2. Ping!Script' = Ping!Script
  BY <1>1, SameScript
<1>3. left' \subseteq left /\ nth \notin left'
  <2>1. at[nth] = 0 => nth \notin left
    BY <1>1 DEF PingInv, JoinInv, Ping!Players
  <2> QED BY <1>1, <2>1 DEF Ping!Awaited
<1>4. \A p \in {1, 2} : p \in left /\ p \notin left' => at[p] = Len(Ping!Script) + 1
  BY <1>1 DEF Ping!Exited
<1>5. PlayersInv'
  BY <1>1, <1>2, <1>3 DEF PingInv, PlayersInv, Ping!Players
<1>6. ChanInv'
  BY <1>1, <1>2 DEF PingInv, ChanInv, Ping!Players, Ping!Peer
<1>7. JoinInv'
  BY <1>1, <1>2, <1>3, <1>4 DEF PingInv, JoinInv, Ping!Exited, Ping!Players
<1> QED BY <1>1, <1>5, <1>6, <1>7 DEF PingInv

LEMMA MoreSent ==
  ASSUME NEW x \in Nat, NEW y \in Nat, NEW k \in Nat
  PROVE  (x - y) + k = (x + k) - y
OBVIOUS

LEMMA MoreTaken ==
  ASSUME NEW x \in Nat, NEW y \in Nat
  PROVE  (x - y) - 1 = x - (y + 1)
OBVIOUS

\* A player's step: what it posts or takes is what its script says.
LEMMA PlayerStep ==
  ASSUME NEW p \in Ping!Players, PingInv, Ping!Player(p)
  PROVE  PingInv'
<1>1. PICK a \in Nat, q \in {1, 2}, b \in Nat :
        /\ a = at[p] /\ q = 3 - p /\ b = at[q] /\ p \in {1, 2} /\ p = 3 - q /\ p # q
  BY DEF PingInv, PlayersInv, Ping!Players
<1>2. /\ program' = program /\ pc' = pc /\ nth' = nth /\ left' = left
      /\ at \in [{1, 2} -> Nat] /\ chan \in [{1, 2} -> Nat]
      /\ a \in 1 .. Len(Ping!Script) /\ at' = [at EXCEPT ![p] = a + 1]
  BY <1>1 DEF PingInv, PlayersInv, Ping!Player, Ping!Post, Ping!Wait, Ping!Running,
       Ping!Players
<1>3. Ping!Script' = Ping!Script
  BY <1>2, SameScript
<1>4. Len(Ping!Script) \in Nat /\ Ping!Script[a] \in Nat
  BY <1>2, Advance
<1>5. at' \in [{1, 2} -> Nat] /\ at'[p] = a + 1 /\ at'[q] = b
  BY <1>1, <1>2
<1>6. /\ chan[p] = Sent(program, a) - Took(program, b)
      /\ chan[q] = Sent(program, b) - Took(program, a)
      /\ Posts(Ping!Script, a) = Turns(program, a)
      /\ Posts(Ping!Script, b) = Turns(program, b)
  BY <1>1 DEF PingInv, ChanInv, Ping!Players, Ping!Peer
<1>7. /\ Sent(program, a) \in Nat /\ Took(program, a) \in Nat
      /\ Sent(program, b) \in Nat /\ Took(program, b) \in Nat
  BY CountsAre
<1>8. chan' \in [{1, 2} -> Nat] /\ chan'[p] = Sent(program, a + 1) - Took(program, b)
        /\ chan'[q] = Sent(program, b) - Took(program, a + 1)
        /\ Posts(Ping!Script, a + 1) = Turns(program, a + 1)
  <2>1. CASE Ping!Post(p)
    <3>1. Ping!Script[a] > 0 /\ chan' = [chan EXCEPT ![p] = chan[p] + Ping!Script[a]]
      BY <1>1, <2>1 DEF Ping!Post
    <3>2. /\ Sent(program, a + 1) = Sent(program, a) + Ping!Script[a]
          /\ Took(program, a + 1) = Took(program, a)
          /\ Turns(program, a + 1) = Turns(program, a) + 1
      BY <1>2, <3>1, Advance
    <3>3. Posts(Ping!Script, a + 1) = Posts(Ping!Script, a) + 1
      BY <1>2, <3>1, PostsIs, SMTT(30)
    <3>4. chan' \in [{1, 2} -> Nat] /\ chan'[p] = chan[p] + Ping!Script[a] /\ chan'[q] = chan[q]
      BY <1>1, <1>2, <1>4, <3>1
    <3>5. chan'[p] = Sent(program, a + 1) - Took(program, b)
      <4>1. chan'[p] = (Sent(program, a) - Took(program, b)) + Ping!Script[a]
        BY <1>6, <3>4, Zenon
      <4>2. Ping!Script[a] \in Nat
        BY <1>4
      <4>3. (Sent(program, a) - Took(program, b)) + Ping!Script[a]
              = (Sent(program, a) + Ping!Script[a]) - Took(program, b)
        BY <1>7, <4>2, MoreSent
      <4> QED BY <3>2, <4>1, <4>3, Zenon
    <3> QED BY <1>6, <3>2, <3>3, <3>4, <3>5, Zenon
  <2>2. CASE Ping!Wait(p)
    <3>1. /\ Ping!Script[a] = 0 /\ chan[q] > 0
          /\ chan' = [chan EXCEPT ![q] = chan[q] - 1]
      BY <1>1, <2>2 DEF Ping!Wait, Ping!Taken, Ping!Peer
    <3>2. /\ Sent(program, a + 1) = Sent(program, a)
          /\ Took(program, a + 1) = Took(program, a) + 1
          /\ Turns(program, a + 1) = Turns(program, a)
      BY <1>2, <3>1, Advance
    <3>3. Posts(Ping!Script, a + 1) = Posts(Ping!Script, a)
      BY <1>2, <3>1, PostsIs, SMTT(30)
    <3>4. chan' \in [{1, 2} -> Nat] /\ chan'[p] = chan[p] /\ chan'[q] = chan[q] - 1
      <4>1. chan[q] \in Nat \ {0} /\ chan[q] - 1 \in Nat
        BY <1>1, <1>2, <3>1
      <4> QED BY <1>1, <1>2, <3>1, <4>1
    <3>5. chan'[q] = Sent(program, b) - Took(program, a + 1)
      <4>1. chan'[q] = (Sent(program, b) - Took(program, a)) - 1
        BY <1>6, <3>4, Zenon
      <4> QED BY <1>7, <3>2, <4>1, MoreTaken, Zenon
    <3> QED BY <1>6, <3>2, <3>3, <3>4, <3>5, Zenon
  <2> QED BY <2>1, <2>2 DEF Ping!Player
<1>9. PlayersInv'
  <2>1. \A x \in {1, 2} : at[x] <= Len(Ping!Script) + 1
    BY DEF PingInv, PlayersInv, Ping!Players
  <2>2. at'[p] <= Len(Ping!Script) + 1 /\ at'[q] <= Len(Ping!Script) + 1
    <3>1. b <= Len(Ping!Script) + 1
      BY <1>1, <2>1, Zenon
    <3>2. a + 1 <= Len(Ping!Script) + 1
      BY <1>2, <1>4
    <3> QED BY <1>5, <3>1, <3>2, Zenon
  <2>3. \A x \in {1, 2} : at'[x] <= Len(Ping!Script) + 1
    BY <1>1, <2>2
  <2>4. /\ nth' \in {1, 2} /\ left' \subseteq {1, 2}
        /\ pc' \in {"start", "wait", "end", "exit"}
    BY <1>2 DEF PingInv, PlayersInv, Ping!Players
  <2> QED BY <1>3, <1>5, <1>8, <2>3, <2>4 DEF PlayersInv, Ping!Players
<1>10. ChanInv'
  <2>1. \A x \in {1, 2} : x = p \/ x = q
    BY <1>1
  <2> QED BY <1>1, <1>2, <1>3, <1>5, <1>6, <1>8, <2>1 DEF ChanInv, Ping!Players, Ping!Peer
<1>11. JoinInv'
  <2>1. at[p] # 0 /\ at[p] # Len(Ping!Script) + 1
    BY <1>1, <1>2, <1>4
  <2>2. p \in left
    BY <1>1, <2>1 DEF PingInv, JoinInv, Ping!Exited, Ping!Players
  <2> QED BY <1>1, <1>2, <1>3, <1>5, <2>1, <2>2 DEF PingInv, JoinInv, Ping!Exited, Ping!Players
<1> QED BY <1>2, <1>9, <1>10, <1>11 DEF PingInv

LEMMA PingNext == PingInv /\ Ping!Next => PingInv'
<1> QED BY StartStep, StartFailsStep, JoinStep, PlayerStep DEF Ping!Next

LEMMA PingIs == PingInv => Ping!Accounted
<1> SUFFICES ASSUME PingInv PROVE Ping!Accounted
  OBVIOUS
<1>1. ASSUME NEW p \in Ping!Players PROVE Ping!PostsOf(p) <= Ping!PostsOf(Ping!Peer(p)) + 1
  <2>1. PICK a \in Nat, q \in Ping!Players, b \in Nat :
          /\ a = at[p] /\ q = Ping!Peer(p) /\ b = at[q] /\ p = Ping!Peer(q)
    BY DEF PingInv, PlayersInv, Ping!Players, Ping!Peer
  <2>2. /\ chan[q] \in Nat /\ chan[q] = Sent(program, b) - Took(program, a)
        /\ Ping!PostsOf(p) = Turns(program, a) /\ Ping!PostsOf(q) = Turns(program, b)
    <3>1. Ping!PostsOf(p) = Posts(Ping!Script, a) /\ Ping!PostsOf(q) = Posts(Ping!Script, b)
      BY <2>1 DEF Posts, Ping!PostsOf, Ping!Cardinality, Cardinality, Ping!IsFiniteSet, IsFiniteSet
    <3> QED BY <2>1, <3>1 DEF PingInv, PlayersInv, ChanInv
  <2>3. Sent(program, b) \in Nat /\ Took(program, a) \in Nat
    BY CountsAre
  <2>4. Took(program, a) <= Sent(program, b)
    BY <2>2, <2>3
  <2>5. Turns(program, a) <= Turns(program, b) + 1
    BY <2>4, NotAhead
  <2> QED BY <2>1, <2>2, <2>5
<1>2. ASSUME pc = "end", NEW p \in Ping!Players PROVE chan[p] = 0
  <2>1. PICK q \in Ping!Players : q = Ping!Peer(p) /\ p = Ping!Peer(q)
    BY DEF Ping!Players, Ping!Peer
  <2>2. \A x \in {p, q} : Sent(program, at[x]) = Took(program, at[x])
    <3>1. \A x \in {p, q} : at[x] = 0 \/ at[x] = Len(Ping!Script) + 1
      BY <1>2, <2>1 DEF PingInv, JoinInv, Ping!Exited
    <3> QED BY <3>1, CountsAre
  <2>3. \A x \in {p, q} : Sent(program, at[x]) \in Nat
    BY <2>1, CountsAre DEF PingInv, PlayersInv
  <2>4. chan[p] \in Nat /\ chan[q] \in Nat
    BY <2>1 DEF PingInv, PlayersInv
  <2>5. /\ chan[p] = Sent(program, at[p]) - Took(program, at[q])
        /\ chan[q] = Sent(program, at[q]) - Took(program, at[p])
    BY <2>1, Zenon DEF PingInv, ChanInv
  <2> QED BY <2>2, <2>3, <2>4, <2>5
<1> QED BY <1>1, <1>2 DEF Ping!Accounted

-----------------------------------------------------------------------------
(* eventfd-aio-test *)

AioType ==
  /\ op \in {"write", "read"} /\ pc \in {"submit", "poll", "drain", "end"}
  /\ flight \subseteq Aio!Requests /\ over \subseteq Aio!Requests
  /\ ring \in Nat /\ unsaid \in Nat /\ afd \in Nat /\ eval \in Nat /\ got \in Nat

\* No result is counted before it is in the ring, nor twice.
RingInv == ring = eval + afd + unsaid /\ (pc # "drain" => eval = 0)

\* While a test runs, what it got, what is in the ring and what is in flight are
\* at most its requests; between tests nothing is left.
LeftInv ==
  /\ pc \in {"poll", "drain"} => got + ring + Cardinality(flight) <= Reqs
  /\ pc \in {"submit", "end"} => flight = {} /\ ring = 0

\* test_write: a block is over for each result.
BlocksInv ==
  /\ op = "write" /\ pc = "submit" => over = {}
  /\ op = "write" /\ pc \in {"poll", "drain"} =>
       /\ Cardinality(over) = got + ring
       /\ \A r \in flight : Aio!Block(r) \notin over
  /\ op = "read" => over = {} \/ over = Aio!Requests
  /\ pc = "end" => op = "read"

AioInv == AioType /\ RingInv /\ LeftInv /\ BlocksInv

LEMMA RequestsFinite == IsFiniteSet(Aio!Requests) /\ Cardinality(Aio!Requests) = Reqs
<1>1. 0 \in Int /\ Reqs - 1 \in Int
  BY EventsAssumption
<1>2. IsFiniteSet(0 .. Reqs - 1)
      /\ Cardinality(0 .. Reqs - 1) = IF 0 > Reqs - 1 THEN 0 ELSE Reqs - 1 - 0 + 1
  BY <1>1, FS_Interval
<1> QED BY <1>2, EventsAssumption DEF Aio!Requests

LEMMA PartFinite ==
  ASSUME NEW T, T \subseteq Aio!Requests
  PROVE  /\ IsFiniteSet(T) /\ Cardinality(T) \in Nat /\ Cardinality(T) <= Reqs
         /\ Cardinality(T) = Reqs => T = Aio!Requests
         /\ Cardinality(T) = 0 <=> T = {}
<1>1. IsFiniteSet(T) /\ Cardinality(T) <= Reqs
      /\ (Cardinality(T) = Reqs => T = Aio!Requests)
  BY RequestsFinite, FS_Subset
<1> QED BY <1>1, FS_CardinalityType, FS_EmptySet

LEMMA AioInit == Aio!Init => AioInv
<1> SUFFICES ASSUME Aio!Init PROVE AioInv
  OBVIOUS
<1> QED BY DEF Aio!Init, AioInv, AioType, RingInv, LeftInv, BlocksInv

\* A test is over with nothing left behind, and test_write with every block over.
LEMMA ReturnStep ==
  ASSUME AioInv, Aio!Return, UNCHANGED <<flight, ring, unsaid, afd, eval, got, over>>,
         flight = {}, ring = 0, op = "write" => over = {} \/ over = Aio!Requests
  PROVE  AioInv'
<1>1. op' = "read" /\ pc' \in {"submit", "end"}
  BY DEF Aio!Return
<1> QED BY <1>1 DEF AioInv, AioType, RingInv, LeftInv, BlocksInv

LEMMA SubmitStep ==
  ASSUME AioInv, Aio!Submit
  PROVE  AioInv'
<1>1. /\ pc = "submit" /\ pc' = "poll" /\ got' = 0
      /\ flight' \subseteq Aio!Requests
      /\ UNCHANGED <<op, ring, unsaid, afd, over, eval>>
  BY DEF Aio!Submit
<1>2. PICK c \in Nat : c = Cardinality(flight') /\ c <= Reqs
  BY <1>1, PartFinite
<1>3. AioType' /\ RingInv'
  BY <1>1 DEF AioInv, AioType, RingInv
<1>4. LeftInv'
  BY <1>1, <1>2, EventsAssumption DEF AioInv, LeftInv
<1>5. BlocksInv'
  <2>1. Cardinality({}) = 0
    BY FS_EmptySet
  <2> QED BY <1>1, <2>1 DEF AioInv, LeftInv, BlocksInv
<1> QED BY <1>3, <1>4, <1>5 DEF AioInv

LEMMA ReadAfdStep ==
  ASSUME AioInv, Aio!ReadAfd
  PROVE  AioInv'
<1>1. /\ pc = "poll" /\ pc' = "drain" /\ eval' = afd /\ afd' = 0
      /\ UNCHANGED <<op, got, flight, ring, unsaid, over>>
  BY DEF Aio!ReadAfd
<1>2. AioType'
  BY <1>1 DEF AioInv, AioType
<1>3. RingInv'
  BY <1>1 DEF AioInv, AioType, RingInv
<1>4. LeftInv'
  BY <1>1 DEF AioInv, LeftInv
<1>5. BlocksInv'
  BY <1>1 DEF AioInv, BlocksInv
<1> QED BY <1>2, <1>3, <1>4, <1>5 DEF AioInv

LEMMA GetEventsStep ==
  ASSUME AioInv, Aio!GetEvents
  PROVE  AioInv'
<1>1. PICK w \in Nat : w = Aio!Wanted /\ w <= eval
  BY EventsAssumption DEF AioInv, AioType, Aio!Wanted
<1>0. PICK r \in Nat : /\ r = (IF Aio!Wanted > ring THEN ring ELSE Aio!Wanted)
                       /\ r <= eval /\ r <= ring
  BY <1>1 DEF AioInv, AioType
<1>2. r <= eval /\ r <= ring
  BY <1>0
<1>3. /\ pc = "drain" /\ got' = got + r /\ eval' = eval - r /\ ring' = ring - r
      /\ UNCHANGED <<op, pc, flight, unsaid, afd, over>>
  BY <1>0 DEF Aio!GetEvents, Aio!Left
<1>4. PICK c \in Nat : c = Cardinality(flight)
  BY PartFinite DEF AioInv, AioType
<1>5. AioType' /\ RingInv'
  BY <1>2, <1>3 DEF AioInv, AioType, RingInv
<1>6. LeftInv'
  BY <1>2, <1>3, <1>4 DEF AioInv, AioType, LeftInv
<1>7. BlocksInv'
  <2>1. got' + ring' = got + ring
    BY <1>2, <1>3 DEF AioInv, AioType
  <2> QED BY <1>3, <2>1 DEF AioInv, BlocksInv
<1> QED BY <1>5, <1>6, <1>7 DEF AioInv

LEMMA DrainedStep ==
  ASSUME AioInv, Aio!Drained
  PROVE  AioInv'
<1>1. pc = "drain" /\ UNCHANGED <<flight, ring, unsaid, afd, eval, got, over>>
  BY DEF Aio!Drained, Aio!kernel
<1>2. CASE got >= Reqs
  <2>1. PICK c \in Nat : c = Cardinality(flight)
    BY PartFinite DEF AioInv, AioType
  <2>2. c = 0 /\ ring = 0 /\ got = Reqs
    BY <1>1, <1>2, <2>1, EventsAssumption DEF AioInv, AioType, LeftInv
  <2>3. flight = {}
    BY <2>1, <2>2, PartFinite DEF AioInv, AioType
  <2>4. op = "write" => over = Aio!Requests
    <3>1. op = "write" => Cardinality(over) = got + ring
      BY <1>1 DEF AioInv, BlocksInv
    <3>2. got + ring = Reqs
      BY <2>2, EventsAssumption
    <3>3. Cardinality(over) = Reqs => over = Aio!Requests
      BY PartFinite DEF AioInv, AioType
    <3> QED BY <3>1, <3>2, <3>3, Zenon
  <2>5. Aio!Return
    BY <1>2 DEF Aio!Drained, Aio!AllGot
  <2> QED BY <1>1, <2>2, <2>3, <2>4, <2>5, ReturnStep
<1>3. CASE ~(got >= Reqs)
  <2>1. pc' = "poll" /\ UNCHANGED op /\ eval = 0
    BY <1>3 DEF Aio!Drained, Aio!AllGot
  <2> QED BY <1>1, <2>1 DEF AioInv, AioType, RingInv, LeftInv, BlocksInv
<1> QED BY <1>2, <1>3

LEMMA FinishStep ==
  ASSUME AioInv, NEW r \in Aio!Requests, Aio!Finish(r)
  PROVE  AioInv'
<1>1. /\ r \in flight /\ flight' = flight \ {r} /\ ring' = ring + 1
      /\ unsaid' = unsaid + 1 /\ UNCHANGED <<op, pc, afd, eval, got>>
      /\ pc \in {"poll", "drain"}
  BY DEF Aio!Finish, AioInv, AioType, LeftInv
<1>2. PICK b \in Aio!Requests : b = Aio!Block(r)
  BY EventsAssumption DEF Aio!Requests, Aio!Block
<1>3. over' = IF op = "write" THEN over \cup {b} ELSE over
  BY <1>2 DEF Aio!Finish
<1>4. AioType' /\ RingInv'
  BY <1>1, <1>2, <1>3 DEF AioInv, AioType, RingInv
<1>5. LeftInv'
  <2>1. PICK c \in Nat : c = Cardinality(flight)
    BY PartFinite DEF AioInv, AioType
  <2>2. Cardinality(flight') = c - 1
    BY <1>1, <2>1, PartFinite, FS_RemoveElement DEF AioInv, AioType
  <2> QED BY <1>1, <2>1, <2>2, EventsAssumption DEF AioInv, AioType, LeftInv
<1>6. BlocksInv'
  <2>1. CASE op = "write"
    <3>1. b \notin over /\ Cardinality(over) = got + ring
      BY <1>1, <1>2, <2>1 DEF AioInv, BlocksInv
    <3>2. Cardinality(over') = Cardinality(over) + 1
      BY <1>3, <2>1, <3>1, PartFinite, FS_AddElement DEF AioInv, AioType
    <3>3. Cardinality(over') = got' + ring'
      BY <1>1, <3>1, <3>2 DEF AioInv, AioType
    <3>4. \A q \in flight' : Aio!Block(q) # b
      BY <1>1, <1>2, EventsAssumption DEF AioInv, AioType, Aio!Requests, Aio!Block
    <3>5. \A q \in flight' : Aio!Block(q) \notin over'
      BY <1>1, <1>3, <2>1, <3>4 DEF AioInv, BlocksInv
    <3> QED BY <1>1, <2>1, <3>3, <3>5 DEF BlocksInv, Aio!Block
  <2>2. CASE op = "read"
    BY <1>1, <1>3, <2>2 DEF AioInv, BlocksInv
  <2> QED BY <2>1, <2>2 DEF AioInv, AioType
<1> QED BY <1>4, <1>5, <1>6 DEF AioInv

LEMMA SignalStep ==
  ASSUME AioInv, Aio!Signal
  PROVE  AioInv'
<1>1. /\ unsaid > 0 /\ unsaid' = unsaid - 1 /\ afd' = afd + 1
      /\ UNCHANGED <<op, pc, flight, ring, over, eval, got>>
  BY DEF Aio!Signal
<1>2. AioType'
  BY <1>1 DEF AioInv, AioType
<1>3. RingInv'
  BY <1>1 DEF AioInv, AioType, RingInv
<1>4. LeftInv'
  BY <1>1 DEF AioInv, LeftInv
<1>5. BlocksInv'
  BY <1>1 DEF AioInv, BlocksInv
<1> QED BY <1>2, <1>3, <1>4, <1>5 DEF AioInv

LEMMA AioNext == AioInv /\ Aio!Next => AioInv'
<1> SUFFICES ASSUME AioInv, Aio!Next PROVE AioInv'
  OBVIOUS
<1>1. CASE Aio!SubmitFails
  BY <1>1, ReturnStep DEF Aio!SubmitFails, Aio!kernel, AioInv, LeftInv, BlocksInv
<1> QED BY <1>1, SubmitStep, ReadAfdStep, GetEventsStep, DrainedStep, FinishStep, SignalStep
        DEF Aio!Next, Aio!Program

LEMMA AioIs == AioInv => Aio!Accounted
<1> QED BY DEF AioInv, AioType, RingInv, LeftInv, BlocksInv, Aio!Accounted

-----------------------------------------------------------------------------
(* The programs side by side *)

Bench == INSTANCE EdgeRingProofs

\* The module of the ring's proofs and the one that MCEvents instantiates are the same
\* specification.
LEMMA SameRing ==
  /\ Edge!Init => Bench!Init
  /\ Edge!Next => Bench!Next
  /\ Bench!Accounted => Edge!Accounted
<1>1. Edge!Init => Bench!Init
  BY DEF Edge!Init, Edge!Programs, Edge!ActiveOf, Edge!Fds,
       Bench!Init, Bench!Programs, Bench!ActiveOf, Bench!Fds
<1>2. Edge!Fill \/ Edge!Filled \/ Edge!EpollWait \/ Edge!LoopTest =>
        Bench!Fill \/ Bench!Filled \/ Bench!EpollWait \/ Bench!LoopTest
  BY DEF Edge!Fill, Edge!Filled, Edge!EpollWait, Edge!LoopTest, Edge!config,
       Edge!Edge, Edge!OnList, Bench!Fill, Bench!Filled, Bench!EpollWait, Bench!LoopTest,
       Bench!config, Bench!Edge, Bench!OnList
<1>3. Edge!ReadCb => Bench!ReadCb
  BY DEF Edge!ReadCb, Edge!ReadOf, Edge!EventfdRead, Edge!PipeRead, Edge!Target,
       Edge!Edge, Edge!OnList, Edge!config, Bench!ReadCb, Bench!ReadOf, Bench!EventfdRead,
       Bench!PipeRead, Bench!Target, Bench!Edge, Bench!OnList, Bench!config
<1>4. Bench!Accounted => Edge!Accounted
  BY DEF Edge!Accounted, Edge!Fds, Edge!OnList, Bench!Accounted, Bench!Fds, Bench!OnList
<1> QED BY <1>1, <1>2, <1>3, <1>4 DEF Edge!Next, Bench!Next

EInv ==
  /\ program \in Mess!Programs => MessInv
  /\ program \in Edge!Programs => Bench!BenchInv
  /\ program \in Ping!Programs => PingInv
  /\ program \in Aio!Programs => AioInv
  /\ program \in Timer!Programs => TimerInv

\* A program has one module.
LEMMA Apart ==
  \A p :
    /\ p \in Mess!Programs =>
         p \notin Edge!Programs \cup Ping!Programs \cup Aio!Programs \cup Timer!Programs
    /\ p \in Edge!Programs =>
         p \notin Mess!Programs \cup Ping!Programs \cup Aio!Programs \cup Timer!Programs
    /\ p \in Ping!Programs =>
         p \notin Mess!Programs \cup Edge!Programs \cup Aio!Programs \cup Timer!Programs
    /\ p \in Aio!Programs =>
         p \notin Mess!Programs \cup Edge!Programs \cup Ping!Programs \cup Timer!Programs
    /\ p \in Timer!Programs =>
         p \notin Mess!Programs \cup Edge!Programs \cup Ping!Programs \cup Aio!Programs
<1> QED BY DEF Mess!Programs, Edge!Programs, Ping!Programs, Aio!Programs, Timer!Programs

LEMMA ProgramStays == Next => program' = program
<1> SUFFICES ASSUME Next PROVE program' = program
  OBVIOUS
<1>1. CASE Mess!Next
  BY <1>1 DEF Mess!Next, Mess!Thread, Mess!Fill, Mess!Awake, Mess!Join, Mess!SigInt,
       Mess!Gate, Mess!Test, Mess!EpollWait, Mess!NextEvent, Mess!Del, Mess!Add,
       Mess!Read, Mess!Write
<1>2. CASE Edge!Next
  BY <1>2 DEF Edge!Next, Edge!Fill, Edge!Filled, Edge!EpollWait, Edge!ReadCb, Edge!LoopTest, Edge!config
<1>3. CASE Ping!Next
  BY <1>3 DEF Ping!Next, Ping!Start, Ping!StartFails, Ping!Join, Ping!Player, Ping!Post, Ping!Wait
<1>4. CASE Aio!Next
  BY <1>4 DEF Aio!Next, Aio!Program, Aio!Submit, Aio!SubmitFails, Aio!ReadAfd,
       Aio!GetEvents, Aio!Drained, Aio!Finish, Aio!Signal
<1>5. CASE Timer!Next
  BY <1>5 DEF Timer!Next, Timer!Program, Timer!Pass, Timer!Now, Timer!Settime, Timer!Slept,
       Timer!Gettime, Timer!Poll, Timer!Read, Timer!ReadNonblock, Timer!prog
<1> QED BY <1>1, <1>2, <1>3, <1>4, <1>5 DEF Next, InMess, InEdge, InPing, InAio, InTimer

LEMMA InitEInv == Init => EInv
<1> SUFFICES ASSUME Init PROVE EInv
  OBVIOUS
<1>1. CASE Mess!Init
  BY <1>1, MessInit, Apart DEF EInv, Mess!Init
<1>2. CASE Edge!Init
  BY <1>2, SameRing, Bench!BenchInit, EventsAssumption, Apart DEF EInv, Edge!Init
<1>3. CASE Ping!Init
  BY <1>3, PingInit, Apart DEF EInv, Ping!Init
<1>4. CASE Aio!Init
  BY <1>4, AioInit, Apart DEF EInv, Aio!Init
<1>5. CASE Timer!Init
  BY <1>5, TimerInit, Apart DEF EInv, Timer!Init
<1> QED BY <1>1, <1>2, <1>3, <1>4, <1>5 DEF Init

LEMMA NextEInv == EInv /\ [Next]_vars => EInv'
<1> SUFFICES ASSUME EInv, [Next]_vars PROVE EInv'
  OBVIOUS
<1>1. /\ Mess!Programs' = Mess!Programs /\ Edge!Programs' = Edge!Programs
      /\ Ping!Programs' = Ping!Programs /\ Aio!Programs' = Aio!Programs
      /\ Timer!Programs' = Timer!Programs
  BY DEF Mess!Programs, Edge!Programs, Ping!Programs, Aio!Programs, Timer!Programs
<1>2. CASE Next
  <2>1. program' = program
    BY <1>2, ProgramStays
  <2>2. CASE InMess(Mess!Next)
    BY <1>1, <2>1, <2>2, MessNext, Apart DEF EInv, InMess
  <2>3. CASE InEdge(Edge!Next)
    BY <1>1, <2>1, <2>3, SameRing, Bench!BenchNext, Apart DEF EInv, InEdge
  <2>4. CASE InPing(Ping!Next)
    BY <1>1, <2>1, <2>4, PingNext, Apart DEF EInv, InPing
  <2>5. CASE InAio(Aio!Next)
    BY <1>1, <2>1, <2>5, AioNext, Apart DEF EInv, InAio
  <2>6. CASE InTimer(Timer!Next)
    BY <1>1, <2>1, <2>6, TimerNext, Apart DEF EInv, InTimer
  <2> QED BY <1>2, <2>2, <2>3, <2>4, <2>5, <2>6 DEF Next
<1>3. CASE UNCHANGED vars
  <2>1. MessInv' = MessInv
    <3>1. UNCHANGED mess /\ UNCHANGED pc
      BY <1>3 DEF vars
    <3>2. MessType' = MessType
      BY <3>1 DEF mess, MessType
    <3>3. FillInv' = FillInv
      BY <3>1 DEF mess, FillInv
    <3>4. EventsInv' = EventsInv
      BY <3>1 DEF mess, EventsInv
    <3>5. OutInv' = OutInv
      BY <3>1 DEF mess, OutInv, Owes
    <3>6. EdgeInv' = EdgeInv
      BY <3>1 DEF mess, EdgeInv, Owes, Busy
    <3> QED BY <3>2, <3>3, <3>4, <3>5, <3>6, Zenon DEF MessInv
  <2>2. AioInv' = AioInv
    BY <1>3 DEF vars, aio, AioInv, AioType, RingInv, LeftInv, BlocksInv, Aio!Requests,
         Aio!Block
  <2>3. TimerInv' = TimerInv
    BY <1>3 DEF vars, timer, TimerInv, SetInv, SpentInv, Counts, Timer!Script
  <2>4. program' = program
    BY <1>3 DEF vars
  <2>5. Bench!BenchInv' = Bench!BenchInv
    <3>1. UNCHANGED edge /\ UNCHANGED pc
      BY <1>3 DEF vars
    <3>6. UNCHANGED <<num, active, numWrites, value, ready, batch, count, writes, fired, pc>>
      BY <3>1 DEF edge
    <3>2. Bench!BenchType' = Bench!BenchType
      BY <3>6 DEF Bench!BenchType
    <3>7. \A c, h : Bench!OnRing(c, h)' = Bench!OnRing(c, h)
      BY <3>6 DEF Bench!OnRing
    <3>3. Bench!TokenInv' = Bench!TokenInv
      BY <3>6, <3>7 DEF Bench!TokenInv
    <3>4. Bench!ValueInv' = Bench!ValueInv
      BY <3>6 DEF Bench!ValueInv
    <3>5. Bench!RunInv' = Bench!RunInv
      BY <3>6 DEF Bench!RunInv
    <3> QED BY <3>2, <3>3, <3>4, <3>5, Zenon DEF Bench!BenchInv
  <2>6. Ping!Script' = Ping!Script
    BY <2>4, SameScript
  <2>7. PingInv' = PingInv
    BY <1>1, <1>3, <2>4, <2>6 DEF vars, ping, PingInv, PlayersInv, ChanInv, JoinInv,
         Ping!Players, Ping!Peer, Ping!Exited
  <2> QED BY <1>1, <2>1, <2>2, <2>3, <2>4, <2>5, <2>7 DEF EInv
<1> QED BY <1>2, <1>3

-----------------------------------------------------------------------------
(* The theorems *)

\* The inductive invariants hold throughout.
THEOREM Invariance == Spec => []EInv
<1> QED BY InitEInv, NextEInv, PTL DEF Spec

\* totalmess, for any threads and pipes, level- or edge-triggered: no thread's DEL,
\* failed ADD or read leaves a byte in a pipe that nobody will look at.
THEOREM NoByteStranded == Spec => []NeverStranded
<1>1. EInv => NeverStranded
  BY MessIs DEF EInv, NeverStranded
<1> QED BY <1>1, Invariance, PTL

\* The other programs, for any numbers of descriptors, writes, switches and requests and
\* any delays.  eventfd-bench and pipetest-4: a descriptor is readable exactly when it is
\* on its way to read_cb, and no two writes fall together.  eventfd-sem and
\* pthread-lat-ctx: neither player gets a whole round ahead, and every post is waited
\* for.  eventfd-aio-test: the results it is told of are in the ring, a test leaves none
\* for the next, and test_write is over only when the write of every
\* block has finished.  timerfd-test and
\* timerfd-test2: each wait comes back with the expirations of its own test, and the
\* last read finds none.
THEOREM AllAccounted == Spec => []EventsAccounted
<1>1. EInv => EventsAccounted
  BY SameRing, Bench!BenchIs, PingIs, AioIs, TimerIs DEF EInv, EventsAccounted
<1> QED BY <1>1, Invariance, PTL
=============================================================================
