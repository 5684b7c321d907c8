------------------------------ MODULE MCQspins ------------------------------
(***************************************************************************)
(* The qspins program as TLC checks it.  main initialises the locks of     *)
(* both kinds and creates tspin_threads, or spin_threads when -s is given: *)
(* test is that choice, and the other kind of lock is left alone.          *)
(***************************************************************************)
EXTENDS TicketLock

VARIABLES test, slock, missed

S == INSTANCE SpinLock

MCLowest == -2

MCInit ==
  /\ tspin_lock_init /\ S!spin_lock_init
  /\ \/ test = "TICKLOCK" /\ StartAt("lock")
     \/ test = "SPINLOCK" /\ StartAt("decl")

ticketVars == <<qhead, qtail, pos, sum, history>>
spinVars == <<slock, missed>>
allVars == <<test, vars, spinVars>>

TicketThread(t) == test = "TICKLOCK" /\ Thread(t) /\ UNCHANGED <<test, spinVars>>
SpinThread(t) == test = "SPINLOCK" /\ S!Thread(t) /\ UNCHANGED <<test, ticketVars>>
Main == (Create \/ Go) /\ UNCHANGED <<test, spinVars>>

MCNext == Main \/ \E t \in Threads : TicketThread(t) \/ SpinThread(t)

\* Every thread has a CPU of its own (thread_setup), and main runs on: before
\* go no thread waits for a lock, and thread 0 yields the CPU main is on.
MCSpec ==
  /\ MCInit /\ [][MCNext]_allVars
  /\ WF_allVars(Main)
  /\ \A t \in Threads : WF_allVars(TicketThread(t)) /\ WF_allVars(SpinThread(t))

-----------------------------------------------------------------------------
(* Properties of SpinLock, on the behaviours of -s *)

\* spin_lock and spin_unlock exclude.
SpinExclusion == test = "SPINLOCK" => S!SpinExclusion
=============================================================================
