---------------------------- MODULE ThreadServer ----------------------------
(***************************************************************************)
(* main of thrhttp.c: one detached thread for every connection, counters   *)
(* under mtx, SIGINT to stop.  HttpSession says what a session reads and   *)
(* answers; here a thread counts requests and closes.                      *)
(***************************************************************************)
EXTENDS Integers, FiniteSets

CONSTANTS Conns,   \* connections that can exist at a time
          MaxReqs  \* bound on the requests counted

VARIABLES
  program,
  pc,       \* where main is
  cfd,      \* the connection main has accepted, or none
  conn,     \* conn[c]: "none", "backlog", "main" or "thread" (who holds it)
  stopsvr,
  conns, reqs,  \* the counters
  late,     \* history: connections accepted after SIGINT
  aborted,  \* history: connections main closed for want of a thread
  closed    \* history: connections a thread closed

vars == <<program, pc, cfd, conn, stopsvr, conns, reqs, late, aborted, closed>>

Programs == {"thrhttp"}

NoConn == "none"
Held(s) == {c \in Conns : conn[c] = s}

Init ==
  /\ program \in Programs
  /\ pc = "test" /\ cfd = NoConn
  /\ conn = [c \in Conns |-> "none"]
  /\ stopsvr = FALSE
  /\ conns = 0 /\ reqs = 0 /\ late = 0 /\ aborted = 0 /\ closed = 0

-----------------------------------------------------------------------------
(* main *)

\* The loop's test; the variant stops only when no thread is left.
StopsIdle == stopsvr /\ Held("thread") = {}
Stops == stopsvr

Test ==
  /\ pc = "test"
  /\ pc' = IF Stops THEN "print" ELSE "accept"
  /\ UNCHANGED <<program, cfd, conn, stopsvr, conns, reqs, late, aborted, closed>>

Accept(c) ==
  /\ pc = "accept" /\ c \in Held("backlog")
  /\ cfd' = c
  /\ conn' = [conn EXCEPT ![c] = "main"]
  /\ pc' = "count"
  /\ late' = IF stopsvr THEN late + 1 ELSE late
  /\ UNCHANGED <<program, stopsvr, conns, reqs, aborted, closed>>

\* accept() fails because the client has gone again.
AcceptFail(c) ==
  /\ pc = "accept" /\ c \in Held("backlog")
  /\ conn' = [conn EXCEPT ![c] = "none"]
  /\ pc' = "test"
  /\ UNCHANGED <<program, cfd, stopsvr, conns, reqs, late, aborted, closed>>

Count ==
  /\ pc = "count"
  /\ conns' = conns + 1
  /\ pc' = "create"
  /\ UNCHANGED <<program, cfd, conn, stopsvr, reqs, late, aborted, closed>>

\* pthread_create, or close() when it fails; the variant forgets the
\* close(), and nobody holds the descriptor.
CreateLeak ==
  /\ pc = "create"
  /\ conn' = [conn EXCEPT ![cfd] = "lost"] /\ aborted' = aborted + 1
  /\ cfd' = NoConn /\ pc' = "test"
  /\ UNCHANGED <<program, stopsvr, conns, reqs, late, closed>>
CreateFail ==
  /\ pc = "create"
  /\ conn' = [conn EXCEPT ![cfd] = "none"] /\ aborted' = aborted + 1
  /\ cfd' = NoConn /\ pc' = "test"
  /\ UNCHANGED <<program, stopsvr, conns, reqs, late, closed>>

Create ==
  /\ pc = "create"
  /\ conn' = [conn EXCEPT ![cfd] = "thread"]
  /\ cfd' = NoConn /\ pc' = "test"
  /\ UNCHANGED <<program, stopsvr, conns, reqs, late, aborted, closed>>

\* The counters are read without mtx, and the process ends with its threads.
Exit ==
  /\ pc = "print"
  /\ pc' = "exited"
  /\ UNCHANGED <<program, cfd, conn, stopsvr, conns, reqs, late, aborted, closed>>

Main == Test \/ (\E c \in Conns : Accept(c)) \/ Count \/ Create \/ Exit

-----------------------------------------------------------------------------
(* Threads, clients and the signal *)

Running == pc # "exited"

Request(c) ==
  /\ Running /\ c \in Held("thread") /\ reqs < MaxReqs
  /\ reqs' = reqs + 1
  /\ UNCHANGED <<program, pc, cfd, conn, stopsvr, conns, late, aborted, closed>>

\* bstream_close at the end of thproc, or close() when bstream_open fails.
Finish(c) ==
  /\ Running /\ c \in Held("thread")
  /\ conn' = [conn EXCEPT ![c] = "none"] /\ closed' = closed + 1
  /\ UNCHANGED <<program, pc, cfd, stopsvr, conns, reqs, late, aborted>>

Connect(c) ==
  /\ Running /\ c \in Held("none") /\ conns < MaxReqs
  /\ conn' = [conn EXCEPT ![c] = "backlog"]
  /\ UNCHANGED <<program, pc, cfd, stopsvr, conns, reqs, late, aborted, closed>>

\* Taken by main, the signal interrupts an accept(); a thread may take it instead.
SigInt ==
  /\ Running /\ ~stopsvr
  /\ stopsvr' = TRUE
  /\ pc' \in {pc, IF pc = "accept" THEN "test" ELSE pc}
  /\ pc' = pc => pc # "accept" \/ Held("thread") # {}
  /\ UNCHANGED <<program, cfd, conn, conns, reqs, late, aborted, closed>>

Next == Main \/ CreateFail \/ SigInt
          \/ \E c \in Conns : AcceptFail(c) \/ Request(c) \/ Finish(c) \/ Connect(c)

-----------------------------------------------------------------------------
(* What the program is held to *)

\* No descriptor is lost: every connection that was counted is in the hands of a
\* thread, about to get one, or was closed.  One at most is accepted after SIGINT.
Accounted ==
  /\ conns = Cardinality(Held("thread")) + closed + aborted
               + (IF pc = "create" THEN 1 ELSE 0)
  /\ Held("lost") = {}
  /\ Held("main") = IF cfd = NoConn THEN {} ELSE {cfd}
  /\ late <= 1

\* After SIGINT main ends, or waits in an accept() that the signal did not
\* interrupt and that the next connection will end.
Ended == ~Running \/ (pc = "accept" /\ Held("backlog") = {})
=============================================================================
