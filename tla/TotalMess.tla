----------------------------- MODULE TotalMess -----------------------------
(***************************************************************************)
(* totalmess.c: threads share one epoll set of pipes.  A thread that is    *)
(* given a readable pipe takes it out of the set and puts it back, reads a *)
(* byte without blocking and writes one to a pipe picked at random,        *)
(* whether or not the read found a byte; the write may block.  SIGINT sets *)
(* stop.                                                                   *)
(*                                                                         *)
(* Steps of different threads interleave at every system call.  epoll is   *)
(* level-triggered, or edge-triggered with -e; which of the readable pipes *)
(* epoll_wait gives first is left open, and so is rand_r().                *)
(***************************************************************************)
EXTENDS Integers, FiniteSets

CONSTANTS Threads, Pipes,
          Active,   \* the first num_active pipes
          NumEvts,  \* num_evts
          Cap,      \* bytes a pipe holds
          None

VARIABLES
  program, \* "totalmess"
  epet,    \* edge-triggered?
  stop,
  main,    \* "fill", "sleep", "join" or "end"
  bytes,   \* bytes in each pipe
  inSet,   \* the pipes in the epoll set
  edges,   \* the pipes with an edge not yet reported (edge-triggered)
  pc,      \* per thread
  events,  \* per thread: the events of its batch still to be handled
  idx, widx  \* per thread: the pipe it handles and the one it will write to

th == <<pc, events, idx, widx>>
vars == <<program, epet, stop, main, bytes, inSet, edges, th>>

Programs == {"totalmess"}

Init ==
  /\ program \in Programs
  /\ epet \in BOOLEAN
  /\ stop = FALSE /\ main = "fill"
  /\ bytes = [p \in Pipes |-> 0]
  /\ inSet = Pipes /\ edges = {}
  /\ pc = [t \in Threads |-> "gate"]
  /\ events = [t \in Threads |-> {}]
  /\ idx = [t \in Threads |-> None] /\ widx = idx

Goto(t, l) == pc' = [pc EXCEPT ![t] = l]

-----------------------------------------------------------------------------
(* main *)

\* The initial writes, done while main holds mtx and the threads wait for it
Fill ==
  /\ main = "fill" /\ main' = "sleep"
  /\ bytes' = [p \in Pipes |-> IF p \in Active THEN 1 ELSE 0]
  /\ edges' = Active
  /\ UNCHANGED <<program, epet, stop, inSet, th>>

\* for (; !stop;) sleep(1)
Awake ==
  /\ main = "sleep" /\ stop /\ main' = "join"
  /\ UNCHANGED <<program, epet, stop, bytes, inSet, edges, th>>

Join ==
  /\ main = "join" /\ \A t \in Threads : pc[t] = "ended"
  /\ main' = "end"
  /\ UNCHANGED <<program, epet, stop, bytes, inSet, edges, th>>

SigInt ==
  /\ main # "end" /\ stop' = TRUE
  /\ UNCHANGED <<program, epet, main, bytes, inSet, edges, th>>

-----------------------------------------------------------------------------
(* thproc *)

\* pthread_mutex_lock(&mtx); pthread_mutex_unlock(&mtx)
Gate(t) ==
  /\ pc[t] = "gate" /\ main # "fill"
  /\ Goto(t, "test")
  /\ UNCHANGED <<program, epet, stop, main, bytes, inSet, edges, events, idx, widx>>

\* The loop's reading of stop, which is not volatile.  The variant is that of a
\* compiler which reads it once.
StopSeenNever == FALSE
StopSeen == stop

Test(t) ==
  /\ pc[t] = "test"
  /\ Goto(t, IF StopSeen THEN "ended" ELSE "wait")
  /\ UNCHANGED <<program, epet, stop, main, bytes, inSet, edges, events, idx, widx>>

\* What epoll_wait finds to report
Reportable == {p \in inSet : bytes[p] > 0 /\ (epet => p \in edges)}

\* epoll_wait returns with as many events as it may, or after its timeout with
\* none.
EpollWait(t) ==
  /\ pc[t] = "wait"
  /\ \E e \in SUBSET Reportable :
       /\ Cardinality(e) <= NumEvts
       /\ e = Reportable \/ Cardinality(e) = NumEvts
       /\ events' = [events EXCEPT ![t] = e]
       /\ edges' = edges \ e
       /\ Goto(t, IF e = {} THEN "test" ELSE "next")
  /\ UNCHANGED <<program, epet, stop, main, bytes, inSet, idx, widx>>

\* The for loop over the events
NextEvent(t) ==
  /\ pc[t] = "next"
  /\ IF events[t] = {} THEN Goto(t, "test") /\ UNCHANGED <<events, idx, widx>>
     ELSE \E p \in events[t], w \in Pipes :
            /\ idx' = [idx EXCEPT ![t] = p]
            /\ widx' = [widx EXCEPT ![t] = w]
            /\ events' = [events EXCEPT ![t] = @ \ {p}]
            /\ Goto(t, "del")
  /\ UNCHANGED <<program, epet, stop, main, bytes, inSet, edges>>

\* EPOLL_CTL_DEL, which may find that another thread was first
Del(t) ==
  /\ pc[t] = "del" /\ Goto(t, "add")
  /\ inSet' = inSet \ {idx[t]} /\ edges' = edges \ {idx[t]}
  /\ UNCHANGED <<program, epet, stop, main, bytes, events, idx, widx>>

\* EPOLL_CTL_ADD: a pipe new in the set and readable is an edge at once.  The
\* variant adds only what has bytes.
AddedReadable(p) == {q \in {p} \ inSet : bytes[q] > 0}
Added(p) == {p} \ inSet

Add(t) ==
  /\ pc[t] = "add" /\ Goto(t, "read")
  /\ inSet' = inSet \cup Added(idx[t])
  /\ edges' = edges \cup {q \in Added(idx[t]) : bytes[q] > 0}
  /\ UNCHANGED <<program, epet, stop, main, bytes, events, idx, widx>>

\* What read() of one byte leaves of v.
Left(v) == IF v > 0 THEN v - 1 ELSE 0

\* read(), which does not block
Read(t) ==
  /\ pc[t] = "read" /\ Goto(t, "write")
  /\ bytes' = [bytes EXCEPT ![idx[t]] = Left(@)]
  /\ UNCHANGED <<program, epet, stop, main, inSet, edges, events, idx, widx>>

\* write() of a byte, which blocks while the pipe is full
Room(p) == bytes[p] < Cap

Write(t) ==
  /\ pc[t] = "write" /\ Room(widx[t])
  /\ bytes' = [bytes EXCEPT ![widx[t]] = @ + 1]
  /\ edges' = edges \cup ({widx[t]} \cap inSet)
  /\ idx' = [idx EXCEPT ![t] = None] /\ widx' = [widx EXCEPT ![t] = None]
  /\ Goto(t, "next")
  /\ UNCHANGED <<program, epet, stop, main, inSet, events>>

Thread(t) == Gate(t) \/ Test(t) \/ EpollWait(t) \/ NextEvent(t) \/ Del(t) \/ Add(t) \/ Read(t) \/ Write(t)

Next == Fill \/ Awake \/ Join \/ SigInt \/ \E t \in Threads : Thread(t)

Spec == Init /\ [][Next]_vars

-----------------------------------------------------------------------------
(* Properties *)

\* A thread has been given the event of p and has yet to put p back.
Handling(t, p) == p \in events[t] \/ (idx[t] = p /\ pc[t] \in {"del", "add"})

\* A byte in a pipe is always announced or about to be: with edges too, no thread's
\* DEL, failed ADD or read strands a byte in a pipe that nobody will look at.
NeverStranded ==
  \A p \in Pipes : bytes[p] > 0 =>
    p \in Reportable \/ \E t \in Threads : Handling(t, p)

\* Each thread has ended, or its write is blocked on a full pipe.
Stopped ==
  \A t \in Threads : pc[t] = "ended" \/ (pc[t] = "write" /\ bytes[widx[t]] = Cap)
=============================================================================
