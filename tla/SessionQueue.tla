---------------------------- MODULE SessionQueue ----------------------------
(***************************************************************************)
(* One per_cpu_ctx of thrplhttp.c: the acceptor thread, the service        *)
(* threads, the ring of accepted descriptors between them, and the         *)
(* shutdown sequence (the SIGINT handler and the end of main).             *)
(*                                                                         *)
(* A step is what a thread does between two points where another thread    *)
(* can interfere.  Code under pcx->mtx is split where the outside world    *)
(* matters even to the owner of the mutex: stopsvr is written and cnd is   *)
(* broadcast without it, so testing the condition and falling asleep are   *)
(* two steps.  Condition variables are the sets of threads asleep on them. *)
(*                                                                         *)
(* A connection is the number of its accept() on this context.  What       *)
(* process_session does with it is the subject of module HttpSession; here *)
(* it is one step that ends with bstream_close.                            *)
(***************************************************************************)
EXTENDS Integers, FiniteSets

CONSTANTS Workers,     \* the service threads
          Acceptor,    \* the acceptor thread
          QSize,       \* pcx->qsize
          MaxConns,    \* bound: connections offered to this context
          MaxSignals,  \* bound: SIGINTs delivered
          NoThread     \* "mutex not owned"

\* qsize and nthreads come from atoi(-Q), atoi(-T); the model takes the
\* settings with which the server can serve at all.
ASSUME SessionQueueAssumption ==
  /\ QSize \in Nat \ {0}
  /\ MaxConns \in Nat
  /\ MaxSignals \in Nat
  /\ Workers # {}
  /\ IsFiniteSet(Workers)
  /\ Acceptor \notin Workers
  /\ NoThread \notin Workers \cup {Acceptor}

Threads == Workers \cup {Acceptor}
Conns == 1 .. MaxConns
NoFd == -1          \* the "no descriptor" result of the code
Garbage == 0        \* content of a squeue slot before its first write

VARIABLES
  stopsvr,  \* the global stop flag, a counter of signals
  pipe,     \* integers written to sh_pipe and never read
  svrfd,    \* the listening socket is open
  mtx,      \* owner of pcx->mtx
  cnd,      \* threads asleep on pcx->cnd
  dqcnd,    \* threads asleep on pcx->dqcnd
  squeue, rqpos, wqpos, qcount, qwait,  \* the ring, as in per_cpu_ctx
  conns,    \* pcx->conns
  pc,       \* where each thread is
  cfd,      \* the descriptor each thread holds in its local variable
  mainpc,   \* where main is
  naccept,  \* history: accept() calls that returned a descriptor
  closed,   \* history: connections closed by process_session
  dropped   \* history: connections queue_client_session gave up on

ring == <<squeue, rqpos, wqpos, qcount, qwait>>
history == <<naccept, closed, dropped>>
outside == <<stopsvr, pipe, svrfd, mainpc>>
vars == <<outside, mtx, cnd, dqcnd, ring, conns, pc, cfd, history>>

Goto(t, l) == pc' = [pc EXCEPT ![t] = l]

\* pthread_cond_signal: one sleeper, if there is one, leaves the set.
WakeOne(c) == IF c = {} THEN {c} ELSE {c \ {t} : t \in c}

\* The step of rqpos and of wqpos
Advance(p) == (p + 1) % QSize

\* queue_client_session's signal; the variant signals an empty ring only.
SignalSessionIfFirst == IF qcount = 0 THEN cnd' \in WakeOne(cnd) ELSE UNCHANGED cnd
SignalSession == cnd' \in WakeOne(cnd)

\* dequeue_client_session's signal, if the acceptor waits
SignalRoom == IF qwait > 0 THEN dqcnd' \in WakeOne(dqcnd) ELSE UNCHANGED dqcnd

Init ==
  /\ stopsvr = 0 /\ pipe = 0 /\ svrfd = TRUE /\ mainpc = "poll"
  /\ mtx = NoThread /\ cnd = {} /\ dqcnd = {}
  /\ squeue = [i \in 0 .. QSize - 1 |-> Garbage]
  /\ rqpos = 0 /\ wqpos = 0 /\ qcount = 0 /\ qwait = 0 /\ conns = 0
  /\ pc = [t \in Threads |-> IF t = Acceptor THEN "aloop" ELSE "dlock"]
  /\ cfd = [t \in Threads |-> NoFd]
  /\ naccept = 0 /\ closed = {} /\ dropped = {}

-----------------------------------------------------------------------------
(* Service threads: dequeue_client_session inside service_thproc *)

\* pthread_mutex_lock, at the head of the function or on the way out of
\* pthread_cond_wait.
DequeueLock(w) ==
  /\ \/ pc[w] = "dlock"
     \/ pc[w] = "dwait" /\ w \notin cnd
  /\ mtx = NoThread
  /\ mtx' = w
  /\ Goto(w, "dtest")
  /\ UNCHANGED <<outside, cnd, dqcnd, ring, conns, cfd, history>>

\* The loop condition holds: the thread is going to wait.
DequeueMustWait(w) ==
  /\ pc[w] = "dtest"
  /\ stopsvr = 0 /\ qcount = 0
  /\ Goto(w, "dsleep")
  /\ UNCHANGED <<outside, mtx, cnd, dqcnd, ring, conns, cfd, history>>

\* pthread_cond_wait(&pcx->cnd, &pcx->mtx) releases the mutex and sleeps.
DequeueSleep(w) ==
  /\ pc[w] = "dsleep"
  /\ cnd' = cnd \cup {w}
  /\ mtx' = NoThread
  /\ Goto(w, "dwait")
  /\ UNCHANGED <<outside, dqcnd, ring, conns, cfd, history>>

\* The loop is left with a descriptor in the ring, stopped or not.
DequeueTake(w) ==
  /\ pc[w] = "dtest"
  /\ qcount > 0
  /\ cfd' = [cfd EXCEPT ![w] = squeue[rqpos]]
  /\ rqpos' = Advance(rqpos)
  /\ qcount' = qcount - 1
  /\ SignalRoom
  /\ mtx' = NoThread
  /\ Goto(w, "serve")
  /\ UNCHANGED <<outside, cnd, squeue, wqpos, qwait, conns, history>>

\* Variant: stops without emptying the ring.
DequeueExitAtOnce(w) ==
  /\ pc[w] = "dtest"
  /\ stopsvr # 0
  /\ mtx' = NoThread
  /\ Goto(w, "exit")
  /\ UNCHANGED <<outside, cnd, dqcnd, ring, conns, cfd, history>>

\* Stopped with nothing queued: -1, and service_thproc returns.
DequeueExit(w) ==
  /\ pc[w] = "dtest"
  /\ stopsvr # 0 /\ qcount = 0
  /\ mtx' = NoThread
  /\ Goto(w, "exit")
  /\ UNCHANGED <<outside, cnd, dqcnd, ring, conns, cfd, history>>

\* process_session(cfd), which ends by closing the descriptor.  How long it
\* takes is up to the client: recv() has no timeout.
ProcessSession(w) ==
  /\ pc[w] = "serve"
  /\ closed' = closed \cup {cfd[w]}
  /\ cfd' = [cfd EXCEPT ![w] = NoFd]
  /\ Goto(w, "dlock")
  /\ UNCHANGED <<outside, mtx, cnd, dqcnd, ring, conns, naccept, dropped>>

-----------------------------------------------------------------------------
(* The acceptor: acceptor_thproc, accept_session, queue_client_session *)

\* Variant: an endless loop, left only through accept_session.
AcceptorLoopForever ==
  /\ pc[Acceptor] = "aloop"
  /\ Goto(Acceptor, "apoll")
  /\ UNCHANGED <<outside, mtx, cnd, dqcnd, ring, conns, cfd, history>>

AcceptorLoop ==
  /\ pc[Acceptor] = "aloop"
  /\ Goto(Acceptor, IF stopsvr = 0 THEN "apoll" ELSE "exit")
  /\ UNCHANGED <<outside, mtx, cnd, dqcnd, ring, conns, cfd, history>>

\* Variant: the shutdown pipe is not polled; the closed socket gives POLLNVAL.
AcceptPollSocketOnly ==
  /\ pc[Acceptor] = "apoll"
  /\ \/ svrfd /\ naccept < MaxConns /\ Goto(Acceptor, "aaccept")
     \/ ~svrfd /\ UNCHANGED pc
  /\ UNCHANGED <<outside, mtx, cnd, dqcnd, ring, conns, cfd, history>>

\* poll() in accept_session.  The shutdown pipe wins over a connection.  A
\* poll() interrupted by SIGINT returns after the handler has written the
\* pipe, so it is the first disjunct.
AcceptPoll ==
  /\ pc[Acceptor] = "apoll"
  /\ \/ pipe > 0 /\ Goto(Acceptor, "exit")
     \/ pipe = 0 /\ svrfd /\ naccept < MaxConns /\ Goto(Acceptor, "aaccept")
  /\ UNCHANGED <<outside, mtx, cnd, dqcnd, ring, conns, cfd, history>>

\* accept() returns a descriptor.
AcceptOk ==
  /\ pc[Acceptor] = "aaccept"
  /\ svrfd
  /\ naccept' = naccept + 1
  /\ cfd' = [cfd EXCEPT ![Acceptor] = naccept']
  /\ Goto(Acceptor, "acount")
  /\ UNCHANGED <<outside, mtx, cnd, dqcnd, ring, conns, closed, dropped>>

\* accept() fails.  EAGAIN (the acceptor of another CPU was faster) polls
\* again; every other error, EBADF after close(svrfd) or a passing one such
\* as ECONNABORTED, ends the thread.
AcceptFail ==
  /\ pc[Acceptor] = "aaccept"
  /\ \/ svrfd /\ Goto(Acceptor, "apoll")
     \/ Goto(Acceptor, "exit")
  /\ UNCHANGED <<outside, mtx, cnd, dqcnd, ring, conns, cfd, history>>

\* pcx->conns++ between lock and unlock.
CountConnection ==
  /\ pc[Acceptor] = "acount"
  /\ mtx = NoThread
  /\ conns' = conns + 1
  /\ Goto(Acceptor, "qlock")
  /\ UNCHANGED <<outside, mtx, cnd, dqcnd, ring, cfd, history>>

QueueLock ==
  /\ mtx = NoThread
  /\ mtx' = Acceptor
  /\ \/ pc[Acceptor] = "qlock" /\ UNCHANGED qwait
     \/ /\ pc[Acceptor] = "qwait" /\ Acceptor \notin dqcnd
        /\ qwait' = qwait - 1
  /\ Goto(Acceptor, "qtest")
  /\ UNCHANGED <<outside, cnd, dqcnd, squeue, rqpos, wqpos, qcount, conns,
                 cfd, history>>

QueueMustWait ==
  /\ pc[Acceptor] = "qtest"
  /\ stopsvr = 0 /\ qcount >= QSize
  /\ qwait' = qwait + 1
  /\ Goto(Acceptor, "qsleep")
  /\ UNCHANGED <<outside, mtx, cnd, dqcnd, squeue, rqpos, wqpos, qcount,
                 conns, cfd, history>>

QueueSleep ==
  /\ pc[Acceptor] = "qsleep"
  /\ dqcnd' = dqcnd \cup {Acceptor}
  /\ mtx' = NoThread
  /\ Goto(Acceptor, "qwait")
  /\ UNCHANGED <<outside, cnd, ring, conns, cfd, history>>

QueuePut ==
  /\ pc[Acceptor] = "qtest"
  /\ qcount < QSize
  /\ qcount' = qcount + 1
  /\ squeue' = [squeue EXCEPT ![wqpos] = cfd[Acceptor]]
  /\ wqpos' = Advance(wqpos)
  /\ SignalSession
  /\ mtx' = NoThread
  /\ cfd' = [cfd EXCEPT ![Acceptor] = NoFd]
  /\ Goto(Acceptor, "aloop")
  /\ UNCHANGED <<outside, dqcnd, rqpos, qwait, conns, history>>

\* Variant: a full ring drops the descriptor at any time.
QueueDropWhenFull ==
  /\ pc[Acceptor] = "qtest"
  /\ qcount >= QSize
  /\ dropped' = dropped \cup {cfd[Acceptor]}
  /\ cfd' = [cfd EXCEPT ![Acceptor] = NoFd]
  /\ mtx' = NoThread
  /\ Goto(Acceptor, "aloop")
  /\ UNCHANGED <<outside, cnd, dqcnd, ring, conns, naccept, closed>>

\* Stopped with the ring full: the descriptor is neither queued nor closed.
QueueDrop ==
  /\ pc[Acceptor] = "qtest"
  /\ stopsvr # 0 /\ qcount >= QSize
  /\ dropped' = dropped \cup {cfd[Acceptor]}
  /\ cfd' = [cfd EXCEPT ![Acceptor] = NoFd]
  /\ mtx' = NoThread
  /\ Goto(Acceptor, "aloop")
  /\ UNCHANGED <<outside, cnd, dqcnd, ring, conns, naccept, closed>>

-----------------------------------------------------------------------------
(* Shutdown: sig_int, in whichever thread it runs, and the end of main *)

SigIntStop ==
  /\ stopsvr < MaxSignals
  /\ stopsvr' = stopsvr + 1
  /\ UNCHANGED <<pipe, svrfd, mainpc, mtx, cnd, dqcnd, ring, conns, pc, cfd,
                 history>>

SigIntWrite ==
  /\ pipe < stopsvr
  /\ pipe' = pipe + 1
  /\ UNCHANGED <<stopsvr, svrfd, mainpc, mtx, cnd, dqcnd, ring, conns, pc,
                 cfd, history>>

MainPoll ==
  /\ mainpc = "poll" /\ pipe > 0
  /\ mainpc' = "close"
  /\ UNCHANGED <<stopsvr, pipe, svrfd, mtx, cnd, dqcnd, ring, conns, pc, cfd,
                 history>>

MainClose ==
  /\ mainpc = "close"
  /\ svrfd' = FALSE
  /\ mainpc' = "broadcast"
  /\ UNCHANGED <<stopsvr, pipe, mtx, cnd, dqcnd, ring, conns, pc, cfd,
                 history>>

\* Variant: dqcnd is broadcast instead.
MainBroadcastOther ==
  /\ mainpc = "broadcast"
  /\ dqcnd' = {}
  /\ mainpc' = "join"
  /\ UNCHANGED <<stopsvr, pipe, svrfd, mtx, cnd, ring, conns, pc, cfd,
                 history>>

\* pthread_cond_broadcast(&cnd) without the mutex; dqcnd is left alone.
MainBroadcast ==
  /\ mainpc = "broadcast"
  /\ cnd' = {}
  /\ mainpc' = "join"
  /\ UNCHANGED <<stopsvr, pipe, svrfd, mtx, dqcnd, ring, conns, pc, cfd,
                 history>>

MainJoin ==
  /\ mainpc = "join"
  /\ \A t \in Threads : pc[t] = "exit"
  /\ mainpc' = "done"
  /\ UNCHANGED <<stopsvr, pipe, svrfd, mtx, cnd, dqcnd, ring, conns, pc, cfd,
                 history>>

\* pthread_cond_wait may return without a signal.
SpuriousWakeup ==
  /\ \/ \E t \in cnd : cnd' = cnd \ {t} /\ UNCHANGED dqcnd
     \/ \E t \in dqcnd : dqcnd' = dqcnd \ {t} /\ UNCHANGED cnd
  /\ UNCHANGED <<outside, mtx, ring, conns, pc, cfd, history>>

\* The process has returned from main.
Terminated == mainpc = "done" /\ UNCHANGED vars

-----------------------------------------------------------------------------
Dequeue(w) ==
  \/ DequeueLock(w) \/ DequeueMustWait(w) \/ DequeueSleep(w)
  \/ DequeueTake(w) \/ DequeueExit(w)

Service(w) == Dequeue(w) \/ ProcessSession(w)

Accept ==
  \/ AcceptorLoop \/ AcceptPoll \/ AcceptOk \/ AcceptFail \/ CountConnection
  \/ QueueLock \/ QueueMustWait \/ QueueSleep \/ QueuePut \/ QueueDrop

Main == MainPoll \/ MainClose \/ MainBroadcast \/ MainJoin

Next ==
  \/ \E w \in Workers : Service(w)
  \/ Accept
  \/ SigIntStop \/ SigIntWrite
  \/ Main
  \/ SpuriousWakeup
  \/ Terminated

Spec == Init /\ [][Next]_vars

\* A thread that is not blocked by the program runs, and a thread that
\* competes for the mutex gets it in the end.  Nothing is assumed of signals,
\* spurious wakeups and clients: process_session waits for its client in
\* recv() as long as the client likes, and the shutdown does not end the wait.
Fairness ==
  /\ \A w \in Workers : WF_vars(Dequeue(w)) /\ SF_vars(DequeueLock(w))
  /\ WF_vars(Accept) /\ SF_vars(CountConnection) /\ SF_vars(QueueLock)
  /\ WF_vars(SigIntWrite) /\ WF_vars(Main)

FairSpec == Spec /\ Fairness

-----------------------------------------------------------------------------
(* Properties *)

Labels == {"dlock", "dtest", "dsleep", "dwait", "serve", "exit"}
AcceptorLabels == {"aloop", "apoll", "aaccept", "acount", "qlock", "qtest",
                   "qsleep", "qwait", "exit"}

\* Types of the variables of per_cpu_ctx, of the threads and of the history.
TypeOK ==
  /\ stopsvr \in 0 .. MaxSignals /\ pipe \in 0 .. MaxSignals
  /\ svrfd \in BOOLEAN
  /\ mainpc \in {"poll", "close", "broadcast", "join", "done"}
  /\ mtx \in Threads \cup {NoThread}
  /\ cnd \in SUBSET Workers /\ dqcnd \in SUBSET {Acceptor}
  /\ squeue \in [0 .. QSize - 1 -> Conns \cup {Garbage}]
  /\ rqpos \in 0 .. QSize - 1 /\ wqpos \in 0 .. QSize - 1
  /\ qcount \in 0 .. QSize /\ qwait \in 0 .. 1
  /\ conns \in 0 .. MaxConns /\ naccept \in 0 .. MaxConns
  /\ pc \in [Threads -> Labels \cup AcceptorLabels]
  /\ \A w \in Workers : pc[w] \in Labels
  /\ pc[Acceptor] \in AcceptorLabels
  /\ cfd \in [Threads -> Conns \cup {NoFd}]
  /\ closed \in SUBSET Conns /\ dropped \in SUBSET Conns

\* The slots from rqpos on that dequeue_client_session will read.
Slot(i) == (rqpos + i) % QSize
Queued == {squeue[Slot(i)] : i \in 0 .. qcount - 1}

\* Workers that will run dequeue_client_session's test without being signalled.
Hungry == {w \in Workers : pc[w] \in {"dlock", "dtest", "dwait"} /\ w \notin cnd}

\* While some service thread sleeps on cnd, every queued session has an awake
\* thread of its own on its way to the ring: the single pthread_cond_signal
\* per queue_client_session is enough, whatever the spurious wakeups and
\* whichever thread takes the session first.
NoSleepWhileQueued == cnd # {} => qcount <= Cardinality(Hungry)

\* The acceptor sleeps on dqcnd only while the ring is full, and is counted
\* in qwait: the dequeue that makes room signals it (main never does).
AcceptorSleepsOnlyWhenFull ==
  Acceptor \in dqcnd => qcount = QSize /\ qwait = 1

\* main broadcasts cnd without the mutex, so a service thread between its
\* test of stopsvr and pthread_cond_wait misses the wakeup; it owns the mutex,
\* so one context never loses more than one thread that way.
AtMostOneMissesBroadcast ==
  mainpc \in {"join", "done"} => Cardinality(cnd) <= 1

\* When main has joined all threads, at most one accepted connection was not
\* served: the one the acceptor held when the server was stopped.
AtMostOneUnserved ==
  mainpc = "done" => naccept - Cardinality(closed) <= 1

\* The ring, with its positions and its counter, is a bounded FIFO of the
\* connections in the order of accept().
Fate(c) == CASE c \in dropped -> "dropped"
             [] c \in Queued -> "queued"
             [] c \in closed \/ (\E w \in Workers : cfd[w] = c) -> "taken"
             [] OTHER -> "new"

Fifo == INSTANCE SessionFifo WITH
          Capacity <- QSize,
          queue <- [i \in 1 .. qcount |-> squeue[Slot(i - 1)]],
          fate <- [c \in Conns |-> Fate(c)],
          stopping <- stopsvr # 0

\* dequeue_client_session and queue_client_session implement SessionFifo.
ImplementsFifo == Fifo!Spec

\* Service threads that wait for the client of their session.
Serving == {w \in Workers : pc[w] = "serve"}

\* A session queued while the server runs is taken by a service thread, even
\* if the stop comes before its turn, unless in the end all service threads
\* are held for ever by the clients of other sessions.
QueuedSessionsAreTaken ==
  \A c \in Conns :
    \/ (stopsvr = 0 /\ c \in Queued) ~> c \notin Queued
    \/ <>[](Serving = Workers)

\* What main may wait for in pthread_join for ever: a service thread that
\* missed the broadcast, or one whose client neither sends nor closes.
HeldUp == mainpc = "join" /\ (cnd # {} \/ Serving # {})

\* After SIGINT main comes to its end, or is held up for ever.
ShutdownEndsUnlessHeldUp ==
  stopsvr # 0 ~> (mainpc = "done" \/ []HeldUp)
=============================================================================
