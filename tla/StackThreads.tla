---------------------------- MODULE StackThreads ----------------------------
(***************************************************************************)
(* pth-stk-test.c: threads on stacks that main maps for them.  A thread    *)
(* that ends puts itself on tlst and signals cnd under mtx; main waits on  *)
(* cnd, joins what is on tlst, unmaps the stack and starts the slot again  *)
(* until nt_total threads have run.  nt is at most nt_total.               *)
(***************************************************************************)
EXTENDS Integers, Sequences

CONSTANTS NT,      \* nt, slots of tt
          NTTotal  \* nt_total, threads to run

Programs == {"pth-stk-test"}

Slots == 1 .. NT

VARIABLES
  program,
  pc,       \* "create", "lock", "test", "asleep", "drain", "join", "done", "failed"
  next,     \* create: the slot main starts next
  th,       \* the slot main has taken off tlst
  running, completed,
  tlst,     \* slots whose threads have ended, the last one first
  thread,   \* thread[i]: "none", "runs", "listed" (on tlst, not yet returned), "ended"
  mapped,   \* slots with a mapped stack
  signaled, \* main was signalled in its pthread_cond_wait
  waited    \* history: main has been woken once

vars == <<program, pc, next, th, running, completed, tlst, thread, mapped, signaled, waited>>

Init ==
  /\ program \in Programs
  /\ pc = "create" /\ next = 1 /\ th = 0
  /\ running = 0 /\ completed = 0
  /\ tlst = <<>>
  /\ thread = [i \in Slots |-> "none"]
  /\ mapped = {}
  /\ signaled = FALSE /\ waited = FALSE

\* main has mtx from its lock to its unlock, but for pthread_cond_wait.
MtxFree == pc \in {"create", "lock", "asleep", "done"}

-----------------------------------------------------------------------------
(* thread_proc *)

\* The critical section: the signal reaches main only if it waits.
Signal == pc = "asleep"

Leave(i) ==
  /\ thread[i] = "runs" /\ MtxFree
  /\ tlst' = <<i>> \o tlst
  /\ signaled' = (signaled \/ Signal)
  /\ thread' = [thread EXCEPT ![i] = "listed"]
  /\ UNCHANGED <<program, pc, next, th, running, completed, mapped, waited>>

Return(i) ==
  /\ thread[i] = "listed" /\ pc # "failed"
  /\ thread' = [thread EXCEPT ![i] = "ended"]
  /\ UNCHANGED <<program, pc, next, th, running, completed, tlst, mapped, signaled, waited>>

-----------------------------------------------------------------------------
(* main *)

Create ==
  /\ pc = "create"
  /\ mapped' = mapped \cup {next}
  /\ thread' = [thread EXCEPT ![next] = "runs"]
  /\ running' = running + 1
  /\ next' = next + 1
  /\ pc' = IF next = NT THEN "lock" ELSE "create"
  /\ UNCHANGED <<program, th, completed, tlst, signaled, waited>>

Lock ==
  /\ pc = "lock"
  /\ pc' = "test"
  /\ UNCHANGED <<program, next, th, running, completed, tlst, thread, mapped, signaled, waited>>

\* running > 0; pthread_cond_wait gives up mtx and waits in one step.
Test ==
  /\ pc = "test"
  /\ pc' = IF running > 0 THEN "asleep" ELSE "done"
  /\ UNCHANGED <<program, next, th, running, completed, tlst, thread, mapped, signaled, waited>>

Wake ==
  /\ pc = "asleep" /\ signaled
  /\ signaled' = FALSE /\ waited' = TRUE
  /\ pc' = "drain"
  /\ UNCHANGED <<program, next, th, running, completed, tlst, thread, mapped>>

\* pthread_cond_wait may return without a signal.
SpuriousWake ==
  /\ pc = "asleep" /\ ~signaled
  /\ waited' = TRUE
  /\ pc' = "drain"
  /\ UNCHANGED <<program, next, th, running, completed, tlst, thread, mapped, signaled>>

\* The inner loop; the variant takes one thread for each wake-up.
AfterJoinOnce == "test"
AfterJoin == "drain"

Drain ==
  /\ pc = "drain"
  /\ IF tlst = <<>> THEN pc' = "test" /\ UNCHANGED <<th, tlst>>
     ELSE pc' = "join" /\ th' = Head(tlst) /\ tlst' = Tail(tlst)
  /\ UNCHANGED <<program, next, running, completed, thread, mapped, signaled, waited>>

\* pthread_join; the variant does not wait for the thread to return.
JoinableNow(i) == thread[i] \in {"listed", "ended"}
Joinable(i) == thread[i] = "ended"

\* Whether the slot is started again; the variant starts one too many.
AgainOneMore(c, r) == c + r <= NTTotal
Again(c, r) == c + r < NTTotal

Join ==
  /\ pc = "join" /\ Joinable(th)
  /\ completed' = completed + 1
  /\ IF Again(completed + 1, running - 1)
     THEN /\ thread' = [thread EXCEPT ![th] = "runs"]
          /\ UNCHANGED <<running, mapped>>
     ELSE /\ thread' = [thread EXCEPT ![th] = IF @ = "ended" THEN "none" ELSE @]
          /\ running' = running - 1
          /\ mapped' = mapped \ {th}
  /\ pc' = AfterJoin
  /\ UNCHANGED <<program, next, th, tlst, signaled, waited>>

Main == Create \/ Lock \/ Test \/ Wake \/ Drain \/ Join

\* A stack that cannot be mapped or a thread that cannot be started: exit(1).
Fail ==
  /\ pc = "create" \/ (pc = "join" /\ Joinable(th) /\ Again(completed + 1, running - 1))
  /\ pc' = "failed"
  /\ UNCHANGED <<program, next, th, running, completed, tlst, thread, mapped, signaled, waited>>

Next == Main \/ SpuriousWake \/ Fail \/ \E i \in Slots : Leave(i) \/ Return(i)

-----------------------------------------------------------------------------
(* What the program is held to *)

\* A thread has a stack as long as it runs: munmap comes after its return.  When
\* main is done, nt_total threads have run and no stack is left.
Accounted ==
  /\ \A i \in Slots : thread[i] \in {"runs", "listed"} => i \in mapped
  /\ pc = "done" => completed = NTTotal /\ running = 0 /\ mapped = {}

\* main asleep is always about to be signalled, except for one case: every thread
\* ended before main first waited, and their signals are gone.
LostOnlyBeforeFirstWait ==
  pc = "asleep" /\ ~signaled /\ (\A i \in Slots : thread[i] # "runs")
    => ~waited /\ Len(tlst) = NT

Ended == pc \in {"done", "failed"} \/ (pc = "asleep" /\ ~waited /\ Len(tlst) = NT)
=============================================================================
