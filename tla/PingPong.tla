------------------------------ MODULE PingPong ------------------------------
(***************************************************************************)
(* eventfd-sem.c and pthread-lat-ctx.c: two players that post to each      *)
(* other and wait for each other, without a lock.  eventfd-sem.c forks two *)
(* processes over two eventfds used as semaphores; pthread-lat-ctx.c       *)
(* creates two threads over two pipes.  Either way a read blocks on an     *)
(* empty channel and takes one.                                            *)
(***************************************************************************)
EXTENDS Integers, Sequences, FiniteSets

CONSTANTS Burst,   \* what the last post of sem_player adds (5)
          Swcount  \* swcount, the writes and reads of a tproc

Programs == {"eventfd-sem", "pthread-lat-ctx"}

Players == {1, 2}
Peer(p) == 3 - p

VARIABLES
  program, \* "eventfd-sem" or "pthread-lat-ctx"
  pc,      \* main: "start", "wait" or "end"; "exit" when it gave up
  nth,     \* main: the player it starts or waits for next
  at,      \* at[p]: p's next entry of its script, 0 if it is not started
  left,    \* players that main has started and not yet waited for
  chan     \* chan[p]: what is in the channel p posts on

vars == <<program, pc, nth, at, left, chan>>

\* sem_player: positive entries post, zero entries wait.  The variant waits
\* once less for the burst.
Times(n, s) == [i \in 1 .. n * Len(s) |-> s[((i - 1) % Len(s)) + 1]]
SemScriptShort == <<1, 0, 1, 0, Burst>> \o Times(Burst - 1, <<0>>)
SemScript == <<1, 0, 1, 0, Burst>> \o Times(Burst, <<0>>)

\* tproc: a write and a read, swcount times.
LatScript == Times(Swcount, <<1, 0>>)

Script == IF program = "eventfd-sem" THEN SemScript ELSE LatScript

\* get_base_switch_time has used the first pipe and left it empty.
Init ==
  /\ program \in Programs
  /\ pc = "start" /\ nth = 1
  /\ at = [p \in Players |-> 0] /\ left = {}
  /\ chan = [p \in Players |-> 0]

\* On to the second player, or to the waits
StartNext ==
  /\ pc' = IF nth = 2 THEN "wait" ELSE "start"
  /\ nth' = Peer(nth)

\* fork() or xpthread_create() of the two, one after the other
Start ==
  /\ pc = "start"
  /\ at' = [at EXCEPT ![nth] = 1]
  /\ left' = left \cup {nth}
  /\ StartNext
  /\ UNCHANGED <<program, chan>>

\* xpthread_create() fails and exits, with the other thread if there is one.  fork()
\* fails and nobody looks: main goes on with -1 for the pid.
StartFails ==
  /\ pc = "start"
  /\ IF program = "pthread-lat-ctx" THEN pc' = "exit" /\ UNCHANGED nth ELSE StartNext
  /\ UNCHANGED <<program, at, left, chan>>

Running(p) == pc # "exit" /\ at[p] \in 1 .. Len(Script)
Exited(p) == at[p] = Len(Script) + 1

\* xsem_post, or the write() of tproc
Post(p) ==
  /\ Running(p) /\ Script[at[p]] > 0
  /\ chan' = [chan EXCEPT ![p] = @ + Script[at[p]]]
  /\ at' = [at EXCEPT ![p] = @ + 1]
  /\ UNCHANGED <<program, pc, nth, left>>

\* What a read takes: 1 from a semaphore-like eventfd or a pipe.  The variant is
\* a plain eventfd, which gives all.
TakenAll(n) == n
Taken(n) == 1

\* xsem_wait, or the read() of tproc
Wait(p) ==
  /\ Running(p) /\ Script[at[p]] = 0
  /\ chan[Peer(p)] > 0
  /\ chan' = [chan EXCEPT ![Peer(p)] = @ - Taken(@)]
  /\ at' = [at EXCEPT ![p] = @ + 1]
  /\ UNCHANGED <<program, pc, nth, left>>

\* Whom a wait is for: waitpid(-1) takes any child.
Awaited == IF at[nth] = 0 THEN left ELSE left \cap {nth}

\* waitpid() or pthread_join() of the two; waitpid() fails when there is no such child.
Join ==
  /\ pc = "wait"
  /\ \/ Awaited = {} /\ UNCHANGED left
     \/ \E p \in Awaited : Exited(p) /\ left' = left \ {p}
  /\ IF nth = 2 THEN pc' = "end" /\ UNCHANGED nth ELSE nth' = 2 /\ UNCHANGED pc
  /\ UNCHANGED <<program, at, chan>>

Player(p) == Post(p) \/ Wait(p)

Next == Start \/ StartFails \/ Join \/ \E p \in Players : Player(p)

Spec == Init /\ [][Next]_vars

-----------------------------------------------------------------------------
(* Properties *)

\* How many turns at posting p has completed.
PostsOf(p) == Cardinality({i \in 1 .. at[p] - 1 : Script[i] > 0})

\* Neither player gets a whole round ahead of the other, and every post is waited
\* for by the end, the burst included.
Accounted ==
  /\ \A p \in Players : PostsOf(p) <= PostsOf(Peer(p)) + 1
  /\ pc = "end" => \A p \in Players : chan[p] = 0

\* main ends, unless one fork() failed and the other did not: that player then waits
\* for a post that never comes, and main for the player.
Alone == pc = "wait" /\ \E p \in Players : at[p] # 0 /\ at[Peer(p)] = 0
Ended == pc \in {"end", "exit"} \/ Alone
=============================================================================
