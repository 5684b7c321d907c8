----------------------------- MODULE SessionFifo -----------------------------
(***************************************************************************)
(* What the hand-over between the acceptor and the service threads of one  *)
(* per_cpu_ctx of thrplhttp.c promises, with no threads, no mutex, no      *)
(* condition variables and no ring: a bounded first-in first-out queue in  *)
(* which a connection is entered at most once, in the order of accept(),   *)
(* and is handed out at most once; one may be dropped once the server is   *)
(* stopping.                                                               *)
(***************************************************************************)
EXTENDS Integers, Sequences

CONSTANTS Conns,     \* connections, numbered in the order of accept()
          Capacity

VARIABLES queue,     \* connections waiting for a service thread
          fate,      \* "new", "queued", "taken" or "dropped"
          stopping

fifoVars == <<queue, fate, stopping>>

Init ==
  /\ queue = <<>>
  /\ fate = [c \in Conns |-> "new"]
  /\ stopping = FALSE

\* c is the oldest connection whose fate is open.
IsNext(c) ==
  /\ fate[c] = "new"
  /\ \A b \in Conns : b < c => fate[b] # "new"

Put(c) ==
  /\ IsNext(c)
  /\ Len(queue) < Capacity
  /\ queue' = Append(queue, c)
  /\ fate' = [fate EXCEPT ![c] = "queued"]
  /\ UNCHANGED stopping

Take ==
  /\ queue # <<>>
  /\ fate' = [fate EXCEPT ![Head(queue)] = "taken"]
  /\ queue' = Tail(queue)
  /\ UNCHANGED stopping

Drop(c) ==
  /\ stopping
  /\ IsNext(c)
  /\ fate' = [fate EXCEPT ![c] = "dropped"]
  /\ UNCHANGED <<queue, stopping>>

Stop ==
  /\ stopping' = TRUE
  /\ UNCHANGED <<queue, fate>>

Next ==
  \/ \E c \in Conns : Put(c) \/ Drop(c)
  \/ Take
  \/ Stop

Spec == Init /\ [][Next]_fifoVars
=============================================================================
