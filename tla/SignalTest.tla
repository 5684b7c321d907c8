----------------------------- MODULE SignalTest -----------------------------
(***************************************************************************)
(* main of signalfd-test.c: signals from and to children, a changed mask,  *)
(* two descriptors for one signal, the relay of TEST_SIG through the       *)
(* threads, and the epoll tests 1 to 4 and the fork stress test one after  *)
(* the other.  The output says what each wait expects; here main is a      *)
(* script of steps with those expectations, next to children and threads   *)
(* that run on their own.                                                  *)
(*                                                                         *)
(* A signal already pending is not queued again, and a read of a signalfd  *)
(* takes the lowest one pending that its mask allows.  Threads made with   *)
(* pthread_create share the pending signals of the process; those made     *)
(* with clone() have their own, and send SIGCHLD when they end.            *)
(***************************************************************************)
EXTENDS Integers, Sequences, SequencesExt, FiniteSetsExt

-----------------------------------------------------------------------------
(***************************************************************************)
(* The epoll tests 1 to 4 of signalfd-test.c and its fork stress test.     *)
(* Each runs in a child of main, the tester, which puts a number of        *)
(* signalfds into an epoll set; most fork a child that inherits the set,   *)
(* the stress test forks children that make their own.  All of these       *)
(* processes block their signals and read them in xepoll_wait_sigs.        *)
(*                                                                         *)
(* A signalfd is readable for a process that has signals pending, whoever  *)
(* made it, and all descriptors of the set announce the same signal.       *)
(***************************************************************************)

CONSTANTS NFds,   \* SIGNALFDS_X_EPOLLFD
          NForks  \* FORK_PROC_COUNT

USR1 == 10
CHLD == 17
None == 0  \* what a read that finds nothing gives

\* The tester, its child in a test, and a child of the stress test: that of test 4
\* may still be there then.
Procs == {"tester", "child", "stress"}

VARIABLES
  life,    \* life[p]: "none", "run", "orphan" (runs without its parent) or "zombie"
  todo,    \* todo[p]: what p has still to do
  sigs,    \* sigs[p]: the signals pending for p
  batch,   \* batch[p]: events of the last epoll_wait still to be handled
  got,     \* got[p]: how often p has read SIGUSR1
  early,   \* some wait of 250 ms has ended before the signal was sent
  unread   \* some wait has ended with anything but one SIGUSR1 read

epollVars == <<life, todo, sigs, batch, got, early, unread>>

EpollInit ==
  /\ life = [p \in Procs |-> "none"] /\ todo = [p \in Procs |-> <<>>]
  /\ sigs = [p \in Procs |-> {}]
  /\ batch = [p \in Procs |-> 0] /\ got = [p \in Procs |-> 0]
  /\ early = FALSE /\ unread = FALSE

Tests == 1 .. 5

\* epoll_test_1 to epoll_test_4 and signalfd_stress_fork
TesterPlan(test) ==
  CASE test = 1 -> <<"send", "wait">>
    [] test = 2 -> <<"fork2", "send", "reap", "wait">>
    [] test = 3 -> <<"fork3", "reap", "wait">>
    [] test = 4 -> <<"fork4", "send">>
    [] test = 5 -> FlattenSeq([i \in 1 .. NForks |-> <<"fork5", "reap">>])

\* epoll_child_proc_2 to epoll_child_proc_4 and stress_child_proc
ChildPlan(fork) ==
  CASE fork = "fork2" -> <<"wait">>
    [] fork = "fork3" -> <<"send", "wait">>
    [] fork = "fork4" -> <<"wait">>
    [] fork = "fork5" -> <<"self", "wait">>

ChildOf(fork) == IF fork = "fork5" THEN "stress" ELSE "child"

-----------------------------------------------------------------------------

Alive(p) == life[p] \in {"run", "orphan"}
At(p, op) == Alive(p) /\ todo[p] # <<>> /\ Head(todo[p]) = op
Done(p) == todo' = [todo EXCEPT ![p] = Tail(@)]

\* fork(): no signals are inherited.
Forked(p) ==
  /\ life' = [life EXCEPT ![p] = "run"]
  /\ sigs' = [sigs EXCEPT ![p] = {}] /\ got' = [got EXCEPT ![p] = 0]
  /\ batch' = [batch EXCEPT ![p] = 0]
  /\ UNCHANGED <<early, unread>>

\* run_proc_in_child, called by main
StartTest(test) ==
  /\ Forked("tester")
  /\ todo' = [todo EXCEPT !["tester"] = TesterPlan(test)]

\* run_proc_in_child, called by the tester
ForkChild ==
  \E fork \in {"fork2", "fork3", "fork4", "fork5"} :
    /\ At("tester", fork)
    /\ Forked(ChildOf(fork))
    /\ todo' = [todo EXCEPT !["tester"] = Tail(@), ![ChildOf(fork)] = ChildPlan(fork)]

\* kill(0, SIGUSR1) to the group, or kill(getpid(), SIGUSR1)
Send(p) ==
  /\ At(p, "send") \/ At(p, "self")
  /\ sigs' = [q \in Procs |-> IF Alive(q) /\ (q = p \/ At(p, "send"))
                              THEN sigs[q] \cup {USR1} ELSE sigs[q]]
  /\ Done(p)
  /\ UNCHANGED <<life, batch, got, early, unread>>

\* epoll_wait: some of the descriptors are ready, or the time is over.  (An epoll set
\* that a fork has inherited tells of the signals of the process that filled it; kill(0)
\* sends the same to both, so either process's signals may stand here.)
EpollWait(p) ==
  /\ At(p, "wait") /\ batch[p] = 0
  /\ \/ /\ sigs[p] # {}
        /\ \E n \in 1 .. NFds : batch' = [batch EXCEPT ![p] = n]
        /\ UNCHANGED <<todo, early, unread>>
     \/ /\ sigs[p] = {}
        /\ Done(p)
        /\ early' = (early \/ \E q \in Procs : Alive(q) /\ Contains(todo[q], "send"))
        /\ unread' = (unread \/ got[p] # 1)
        /\ UNCHANGED batch
  /\ UNCHANGED <<life, sigs, got>>

\* What a read of a signalfd takes of the signals s.
Taken(s) == IF s = {} THEN None ELSE Min(s)

\* The read of one of the descriptors; the signal may have been stolen by another.
ReadEvent(p) ==
  /\ batch[p] > 0
  /\ LET sig == Taken(sigs[p])
     IN /\ sigs' = [sigs EXCEPT ![p] = @ \ {sig}]
        /\ got' = [got EXCEPT ![p] = IF sig = USR1 THEN @ + 1 ELSE @]
  /\ batch' = [batch EXCEPT ![p] = @ - 1]
  /\ UNCHANGED <<life, todo, early, unread>>

\* waitpid()
Reap ==
  /\ At("tester", "reap")
  /\ \E p \in {"child", "stress"} :
       life[p] = "zombie" /\ life' = [life EXCEPT ![p] = "none"]
  /\ Done("tester")
  /\ UNCHANGED <<sigs, batch, got, early, unread>>

\* exit(), which tells the parent, and leaves the children without one
ExitProc(p) ==
  /\ Alive(p) /\ todo[p] = <<>>
  /\ life' = [q \in Procs |->
       IF q = p THEN (IF life[p] = "orphan" THEN "none" ELSE "zombie")
       ELSE IF p # "tester" THEN life[q]
       ELSE CASE life[q] = "run" -> "orphan" [] life[q] = "zombie" -> "none"
              [] OTHER -> life[q]]
  /\ sigs' = [sigs EXCEPT !["tester"] = IF p # "tester" /\ life[p] = "run"
                                        THEN @ \cup {CHLD} ELSE @]
  /\ UNCHANGED <<todo, batch, got, early, unread>>

\* waitpid() of main
EndTest ==
  /\ life["tester"] = "zombie"
  /\ life' = [life EXCEPT !["tester"] = "none"]
  /\ UNCHANGED <<todo, sigs, batch, got, early, unread>>

EpollStep(p) == Send(p) \/ EpollWait(p) \/ ReadEvent(p) \/ ExitProc(p)
TesterStep == ForkChild \/ Reap

-----------------------------------------------------------------------------
(* main, its children and threads *)

CONSTANT NThreads  \* 8 in the code

TESTSIG == 12
Signals == {USR1, TESTSIG, CHLD}

Main == "main"
Children == {"c1", "c2", "c3"}
Threads == 1 .. NThreads

VARIABLES
  pthreads, \* built with USE_PTHREAD?
  pos,      \* main's position in Script
  late,     \* some wait of 1000 ms has ended without a signal
  whoops,   \* some wait of main gave something else than expected
  mask,     \* the mask of sfd
  pending,  \* pending[p]: the signals pending for main or a child
  own,      \* own[t]: those of a clone()d thread
  child,    \* child[c]: "none", "run", "exit" or "zombie"
  thread    \* thread[t]: "none", "wait", "kill", "exit" or "done"

firstVars == <<pthreads, late, whoops, mask, pending, own, child, thread>>
vars == <<pos, firstVars, epollVars>>

\* main, as what it does and for what.  Three forks with their waits; SIGUSR1
\* masked out of sfd; two descriptors; the relay; the last read; the epoll tests.
Step(op, arg) == [op |-> op, arg |-> arg]
Script == <<
  Step("fork", "c1"), Step("wait", CHLD),
  Step("fork", "c2"), Step("wait", USR1), Step("wait", CHLD),
  Step("fork", "c3"), Step("kill", "c3"), Step("wait", CHLD),
  Step("mask", Signals \ {USR1}), Step("kill0", USR1), Step("poll", None),
  Step("mask", Signals), Step("kill0", USR1), Step("poll", USR1), Step("poll", None),
  Step("threads", None), Step("kill0", TESTSIG), Step("join", None),
  Step("flush", None), Step("poll", None) >>
  \o FlattenSeq([t \in Tests |-> <<Step("start", t), Step("waitpid", t)>>])

MainAt(op) == pos <= Len(Script) /\ Script[pos].op = op
Arg == Script[pos].arg

Init ==
  /\ pthreads \in BOOLEAN
  /\ pos = 1 /\ late = FALSE /\ whoops = FALSE /\ mask = Signals
  /\ pending = [p \in {Main} \cup Children |-> {}]
  /\ own = [t \in Threads |-> {}]
  /\ child = [c \in Children |-> "none"]
  /\ thread = [t \in Threads |-> "none"]
  /\ EpollInit

-----------------------------------------------------------------------------
(* main *)

Advance == pos' = pos + 1

Fork ==
  /\ MainAt("fork") /\ Advance
  /\ child' = [child EXCEPT ![Arg] = "run"]
  /\ UNCHANGED <<epollVars, pthreads, late, whoops, mask, pending, own, thread>>

\* kill(pid, SIGUSR1), which has no effect on a zombie
Kill ==
  /\ MainAt("kill") /\ Advance
  /\ pending' = [pending EXCEPT ![Arg] = IF child[Arg] = "run" THEN @ \cup {USR1} ELSE @]
  /\ UNCHANGED <<epollVars, pthreads, late, whoops, mask, own, child, thread>>

\* The pending signals after a kill(0, sig) by anyone of the group
GroupPending(sig) ==
  [p \in DOMAIN pending |->
     IF p = Main \/ child[p] = "run" THEN pending[p] \cup {sig} ELSE pending[p]]

\* The same for clone()d threads
Living == {"wait", "kill", "exit"}
GroupOwn(sig) ==
  [t \in Threads |->
     IF ~pthreads /\ thread[t] \in Living THEN own[t] \cup {sig} ELSE own[t]]

KillGroup ==
  /\ MainAt("kill0") /\ Advance
  /\ pending' = GroupPending(Arg) /\ own' = GroupOwn(Arg)
  /\ UNCHANGED <<epollVars, pthreads, late, whoops, mask, child, thread>>

\* signalfd() on an existing descriptor: a new mask
SetMask ==
  /\ MainAt("mask") /\ Advance
  /\ mask' = Arg
  /\ UNCHANGED <<epollVars, pthreads, late, whoops, pending, own, child, thread>>

\* waitsig: poll for up to 1000 ms ("wait") or not at all ("poll"), then read
Waitsig ==
  /\ MainAt("wait") \/ MainAt("poll")
  /\ Advance
  /\ LET sig == Taken(pending[Main] \cap mask)
     IN /\ pending' = [pending EXCEPT ![Main] = @ \ {sig}]
        /\ whoops' = (whoops \/ sig # Arg)
        /\ late' = (late \/ (MainAt("wait") /\ sig = None))
  /\ UNCHANGED <<epollVars, pthreads, mask, own, child, thread>>

NewThreads ==
  /\ MainAt("threads") /\ Advance
  /\ thread' = [t \in Threads |-> "wait"]
  /\ UNCHANGED <<epollVars, pthreads, late, whoops, mask, pending, own, child>>

Join ==
  /\ MainAt("join") /\ \A t \in Threads : thread[t] = "done"
  /\ Advance
  /\ UNCHANGED <<epollVars, pthreads, late, whoops, mask, pending, own, child, thread>>

\* When the flush is over: the variant flushes one signal.
FlushedOne(sig) == TRUE
Flushed(sig) == sig = None

\* while (waitsig(sfd, 0) > 0), one signal a step
Flush ==
  /\ MainAt("flush")
  /\ LET sig == Taken(pending[Main] \cap mask)
     IN /\ pending' = [pending EXCEPT ![Main] = @ \ {sig}]
        /\ IF Flushed(sig) THEN Advance ELSE UNCHANGED pos
  /\ UNCHANGED <<epollVars, pthreads, late, whoops, mask, own, child, thread>>

Start ==
  /\ MainAt("start") /\ Advance
  /\ StartTest(Arg)
  /\ UNCHANGED firstVars

WaitTest ==
  /\ MainAt("waitpid") /\ Advance
  /\ EndTest
  /\ UNCHANGED firstVars

MainStep == Start \/ WaitTest \/ Fork \/ Kill \/ KillGroup \/ SetMask \/ Waitsig \/ NewThreads \/ Join \/ Flush

-----------------------------------------------------------------------------
(* The children *)

\* The second one sends SIGUSR1, the third waits for a signal.
ChildRun(c) ==
  /\ child[c] = "run"
  /\ child' = [child EXCEPT ![c] = "exit"]
  /\ pending' = CASE c = "c2" -> [pending EXCEPT ![Main] = @ \cup {USR1}]
                  [] OTHER    -> [pending EXCEPT ![c] = {}]
  /\ late' = (late \/ (c = "c3" /\ pending[c] = {}))
  /\ UNCHANGED <<epollVars, pthreads, pos, whoops, mask, own, thread>>

ChildExit(c) ==
  /\ child[c] = "exit"
  /\ child' = [child EXCEPT ![c] = "zombie"]
  /\ pending' = [pending EXCEPT ![Main] = @ \cup {CHLD}]
  /\ UNCHANGED <<epollVars, pthreads, pos, late, whoops, mask, own, thread>>

-----------------------------------------------------------------------------
(* The threads *)

\* The loop of thproc: a signal other than TEST_SIG is read and left.
ThreadWait(t) ==
  /\ thread[t] = "wait"
  /\ LET sig == Taken(IF pthreads THEN pending[Main] \cap mask ELSE own[t] \cap mask)
     IN /\ sig # None
        /\ thread' = [thread EXCEPT ![t] = IF sig = TESTSIG THEN "kill" ELSE "wait"]
        /\ IF pthreads
           THEN pending' = [pending EXCEPT ![Main] = @ \ {sig}] /\ UNCHANGED own
           ELSE own' = [own EXCEPT ![t] = @ \ {sig}] /\ UNCHANGED pending
  /\ UNCHANGED <<epollVars, pthreads, pos, late, whoops, mask, child>>

\* The signal a thread sends before it ends.  The variant sends SIGUSR1.
RelayedUsr1 == USR1
Relayed == TESTSIG

ThreadKill(t) ==
  /\ thread[t] = "kill"
  /\ thread' = [thread EXCEPT ![t] = "exit"]
  /\ pending' = GroupPending(Relayed) /\ own' = GroupOwn(Relayed)
  /\ UNCHANGED <<epollVars, pthreads, pos, late, whoops, mask, child>>

ThreadExit(t) ==
  /\ thread[t] = "exit"
  /\ thread' = [thread EXCEPT ![t] = "done"]
  /\ own' = [own EXCEPT ![t] = {}]
  /\ pending' = [pending EXCEPT ![Main] = IF pthreads THEN @ ELSE @ \cup {CHLD}]
  /\ UNCHANGED <<epollVars, pthreads, pos, late, whoops, mask, child>>

Tester == TesterStep /\ UNCHANGED <<pos, firstVars>>
Process(p) == EpollStep(p) /\ UNCHANGED <<pos, firstVars>>

Next ==
  \/ MainStep
  \/ \E c \in Children : ChildRun(c) \/ ChildExit(c)
  \/ \E t \in Threads : ThreadWait(t) \/ ThreadKill(t) \/ ThreadExit(t)
  \/ Tester
  \/ \E p \in Procs : Process(p)

Spec == Init /\ [][Next]_vars

\* Everyone is scheduled.
FairSpec ==
  /\ Spec /\ WF_vars(MainStep)
  /\ \A c \in Children : WF_vars(ChildRun(c) \/ ChildExit(c))
  /\ WF_vars(Tester) /\ \A p \in Procs : WF_vars(Process(p))
  /\ \A t \in Threads : WF_vars(ThreadWait(t)) /\ WF_vars(ThreadKill(t)) /\ WF_vars(ThreadExit(t))

-----------------------------------------------------------------------------
(* Properties *)

\* As long as no wait of a second ran out, every wait of main gives the signal the
\* output says to expect, nothing shows through the mask, one signal is never read
\* from two descriptors, and the read after the flush finds nothing.  And as long as
\* no wait of an epoll test ran out before the signal was sent, every process of
\* these tests has read SIGUSR1 exactly once when its wait ends, whichever of its
\* descriptors announced it.
AsExpected == (whoops => late) /\ (unread => early)

\* main gets through: the relay of TEST_SIG from thread to thread never breaks, so
\* that all threads end and are joined, the flush ends, and so does every epoll
\* test, however late the children are.
Completes == <>(pos > Len(Script))
=============================================================================
