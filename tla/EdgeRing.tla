------------------------------ MODULE EdgeRing ------------------------------
(***************************************************************************)
(* The measuring loop of eventfd-bench.c and pipetest-4.c: num_active      *)
(* descriptors of a ring are made readable, and every read event makes the *)
(* descriptor num_active + 1 further on readable, until num_writes writes  *)
(* are used up and every event has been counted.                           *)
(*                                                                         *)
(* epoll is edge-triggered: a write to a descriptor puts it on the ready   *)
(* list once, and epoll_wait takes the whole list, in order.  Two writes   *)
(* before a read make one event only; an eventfd then gives both to one    *)
(* read and a pipe keeps the second byte, and either way the loop would    *)
(* not end.                                                                *)
(***************************************************************************)
EXTENDS Integers, Sequences

CONSTANTS MaxFds,    \* bound on num_evfds and num_pipes
          MaxWrites, \* bound on num_writes
          Runs       \* RUNTIMES

VARIABLES
  program, \* "eventfd-bench" or "pipetest-4"
  num, active, numWrites,  \* num_evfds, num_active, num_writes
  value,  \* value[i]: the counter, or the bytes in the pipe
  ready,  \* the ready list of epfd
  batch, \* what epoll_wait returned and the loop has not yet looked at
  count, writes, fired,
  pc,     \* "fill", "wait", "loop", "exit7" or "end"
  run     \* runs of run_once completed

config == <<program, num, active, numWrites>>
vars == <<config, value, ready, batch, count, writes, fired, pc, run>>

Programs == {"eventfd-bench", "pipetest-4"}

Fds == 0 .. num - 1

\* main reduces num_active below the number of descriptors.
ActiveOf(n, a) == IF a >= n THEN n - 1 ELSE a

Init ==
  /\ program \in Programs
  /\ num \in 1 .. MaxFds
  /\ \E a \in 0 .. MaxFds : active = ActiveOf(num, a)
  /\ numWrites \in 0 .. MaxWrites
  /\ value = [i \in Fds |-> 0]
  /\ ready = <<>> /\ batch = <<>>
  /\ count = 0 /\ writes = 0 /\ fired = 0
  /\ pc = "fill" /\ run = 0

OnList(r, i) == \E j \in 1 .. Len(r) : r[j] = i

\* What a write() of one to a descriptor makes of the ready list.
Edge(r, i) == IF OnList(r, i) THEN r ELSE Append(r, i)

\* The first writes of run_once, which fired counts
Fill ==
  /\ pc = "fill" /\ fired < active
  /\ value' = [value EXCEPT ![fired] = @ + 1]
  /\ ready' = Edge(ready, fired)
  /\ fired' = fired + 1
  /\ UNCHANGED <<config, batch, count, writes, pc, run>>

Filled ==
  /\ pc = "fill" /\ fired = active
  /\ count' = 0 /\ writes' = numWrites
  /\ pc' = "wait"
  /\ UNCHANGED <<config, value, ready, batch, fired, run>>

EpollWait ==
  /\ pc = "wait"
  /\ batch' = ready /\ ready' = <<>>
  /\ pc' = "loop"
  /\ UNCHANGED <<config, value, count, writes, fired, run>>

\* A read() of a descriptor holding v: what it takes, and whether read_cb counts
\* it.  pipetest-4.c takes one byte, and -1 is true there.
EventfdRead(v) == [taken |-> v, counts |-> v > 0]
PipeRead(v) == [taken |-> IF v > 0 THEN 1 ELSE 0, counts |-> TRUE]
ReadOf(v) == IF program = "eventfd-bench" THEN EventfdRead(v) ELSE PipeRead(v)

\* The descriptor a read event makes readable.  The variant takes a stride of
\* one.
TargetNext(i) == (i + 1) % num
Target(i) == IF i + active + 1 >= num THEN i + active + 1 - num ELSE i + active + 1

\* read_cb
ReadCb ==
  /\ pc = "loop" /\ batch # <<>>
  /\ LET i == Head(batch)
         v == [value EXCEPT ![i] = @ - ReadOf(@).taken]
     IN /\ count' = IF ReadOf(value[i]).counts THEN count + 1 ELSE count
        /\ IF writes > 0
           THEN /\ value' = [v EXCEPT ![Target(i)] = @ + 1]
                /\ ready' = Edge(ready, Target(i))
                /\ writes' = writes - 1 /\ fired' = fired + 1
           ELSE value' = v /\ UNCHANGED <<ready, writes, fired>>
  /\ batch' = Tail(batch)
  /\ UNCHANGED <<config, pc, run>>

\* while (count != fired), and main when run_once is over
LoopTest ==
  /\ pc = "loop" /\ batch = <<>>
  /\ IF count # fired THEN pc' = "wait" /\ UNCHANGED <<run, fired>>
     ELSE IF count = 0 THEN pc' = "exit7" /\ UNCHANGED <<run, fired>>
     ELSE /\ run' = run + 1
          /\ IF run + 1 = Runs THEN pc' = "end" /\ UNCHANGED fired
             ELSE pc' = "fill" /\ fired' = 0
  /\ UNCHANGED <<config, value, ready, batch, count, writes>>

Next == Fill \/ Filled \/ EpollWait \/ ReadCb \/ LoopTest

Spec == Init /\ [][Next]_vars

-----------------------------------------------------------------------------
(* Properties *)

\* For any ring size and any number of active descriptors no descriptor is ever
\* written twice before it is read, the strides of the tokens never meet; every
\* readable descriptor is on its way to read_cb; and every event fired is counted
\* or still to be: no edge is lost.
Accounted ==
  /\ \A i \in Fds : value[i] <= 1
  /\ pc \in {"wait", "loop"} =>
       /\ \A i \in Fds : value[i] > 0 <=> OnList(ready \o batch, i)
       /\ fired = count + Len(ready) + Len(batch)

\* main returns 7 when nothing was active.
Ended == pc = "end" \/ (pc = "exit7" /\ active = 0)
=============================================================================
