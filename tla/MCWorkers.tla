----------------------------- MODULE MCWorkers -----------------------------
(***************************************************************************)
(* The programs whose main starts workers and gathers them again, side by  *)
(* side as TLC checks them: program is chosen at the start, its module     *)
(* says what it does, and the variables of the others stay Off.            *)
(***************************************************************************)
EXTENDS Integers, Sequences, FiniteSets

CONSTANTS Conns, MaxReqs,                      \* ThreadServer
          NT, NTTotal,                         \* StackThreads
          Tasks, RandBits, MaxPasses, MaxDelay \* Sload

\* pth-stk-test runs no more threads at a time than in all; sload has a task,
\* and forks at least one child for each.
ASSUME WorkersAssumption ==
  /\ IsFiniteSet(Conns) /\ "none" \notin Conns
  /\ NT \in Nat \ {0} /\ NTTotal \in Nat /\ NT <= NTTotal
  /\ Len(Tasks) \in Nat \ {0} /\ DOMAIN Tasks = 1 .. Len(Tasks)
  /\ \A i \in 1 .. Len(Tasks) : Tasks[i].count \in Nat \ {0}

VARIABLES
  program, pc,
  cfd, conn, stopsvr, conns, reqs, late, aborted, closed,
  next, th, running, completed, tlst, thread, mapped, signaled, waited,
  at, pids, kid, stop_test, missd, time, passes, pipe, killed, totcpu

Server == INSTANCE ThreadServer
Stack == INSTANCE StackThreads
Load == INSTANCE Sload

server == <<cfd, conn, stopsvr, conns, reqs, late, aborted, closed>>
stack == <<next, th, running, completed, tlst, thread, mapped, signaled, waited>>
load == <<at, pids, kid, stop_test, missd, time, passes, pipe, killed, totcpu>>

Off == 0

ServerOff ==
  /\ cfd = Off /\ conn = Off /\ stopsvr = Off /\ conns = Off /\ reqs = Off
  /\ late = Off /\ aborted = Off /\ closed = Off
StackOff ==
  /\ next = Off /\ th = Off /\ running = Off /\ completed = Off /\ tlst = Off
  /\ thread = Off /\ mapped = Off /\ signaled = Off /\ waited = Off
LoadOff ==
  /\ at = Off /\ pids = Off /\ kid = Off /\ stop_test = Off /\ missd = Off
  /\ time = Off /\ passes = Off /\ pipe = Off /\ killed = Off /\ totcpu = Off

Init ==
  \/ Server!Init /\ StackOff /\ LoadOff
  \/ Stack!Init /\ ServerOff /\ LoadOff
  \/ Load!Init /\ ServerOff /\ StackOff

\* A step of one program
InServer(A) == program \in Server!Programs /\ A /\ UNCHANGED <<stack, load>>
InStack(A) == program \in Stack!Programs /\ A /\ UNCHANGED <<server, load>>
InLoad(A) == program \in Load!Programs /\ A /\ UNCHANGED <<server, stack>>

Next == InServer(Server!Next) \/ InStack(Stack!Next) \/ InLoad(Load!Next)

vars == <<program, pc, server, stack, load>>

\* main, the threads and the children are scheduled, and mtx goes to a thread that
\* keeps asking for it.  sload runs with -R: its alarm goes off in every child.
Fairness ==
  /\ WF_vars(InServer(Server!Main))
  /\ WF_vars(InStack(Stack!Main))
  /\ \A i \in Stack!Slots : SF_vars(InStack(Stack!Leave(i))) /\ WF_vars(InStack(Stack!Return(i)))
  /\ WF_vars(InLoad(Load!Main))
  /\ \A c \in Load!Kids :
       WF_vars(InLoad(Load!Child(c))) /\ WF_vars(InLoad(Load!sig_int(c)))

Spec == Init /\ [][Next]_vars /\ Fairness

\* A task of one child with jitter, and one of two children with a deadline.
MCTasks == <<[count |-> 1, bus |-> 2, jbus |-> 1, wus |-> 0],
             [count |-> 2, bus |-> 1, jbus |-> 0, wus |-> 2]>>

-----------------------------------------------------------------------------
(* Properties *)

\* Each worker is accounted for: thrhttp has a thread or a close() for every
\* connection it counted; pth-stk-test unmaps no stack under a thread and runs
\* nt_total of them; sload's total is what all its children burnt.
WorkersAccounted ==
  /\ program \in Server!Programs => Server!Accounted
  /\ program \in Stack!Programs => Stack!Accounted
  /\ program \in Load!Programs => Load!Accounted

\* main is blocked for good in two cases only: pth-stk-test's when all threads end
\* before its first pthread_cond_wait, sload's in the read of a report that a
\* killed or never forked child has not written.
BlockedOnlyByLoss ==
  /\ program \in Stack!Programs => Stack!LostOnlyBeforeFirstWait
  /\ program \in Load!Programs => Load!BlockedOnlyByLoss

\* main ends but for these cases; thrhttp's after SIGINT, once it is not in an
\* accept() that the signal did not interrupt.
WorkersEnd ==
  /\ (program \in Server!Programs /\ stopsvr /\ (pc = "accept" => Server!Held("backlog") # {}))
       ~> (program \in Server!Programs /\ ~Server!Running)
  /\ <>[](\/ program \in Server!Programs
          \/ program \in Stack!Programs /\ Stack!Ended
          \/ program \in Load!Programs /\ Load!Ended)
=============================================================================
