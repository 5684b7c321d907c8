------------------------------- MODULE Sload -------------------------------
(***************************************************************************)
(* sload.c: main forks the children of every task, each with a pipe for    *)
(* its report; a child burns CPU until a signal sets its stop_test, writes *)
(* what it burnt and ends.  main then waits for one child after the other, *)
(* reads its report and adds it up.                                        *)
(***************************************************************************)
EXTENDS Integers, Sequences, FiniteSets, FiniteSetsExt

CONSTANTS Tasks,     \* a sequence of [count, bus, jbus, wus], one for each -T
          RandBits,  \* width of myrand()'s value
          MaxPasses, \* bound on the passes of a child's loop
          MaxDelay   \* bound on the time a pass takes beyond its burn

VARIABLES
  program, pc,
  at,        \* <<i, k>>: the child main forks, waits for or reads from
  pids,      \* what fork() returned: "pid", Failed (-1), or Unset
  kid,       \* "none", "runs", "wrote", "zombie" or "reaped"
  stop_test, \* main's (under Self) and every child's own copy
  missd, time, passes,
  pipe,      \* the reports in each pipe
  killed,    \* history: children that ended before their write
  totcpu

vars == <<program, pc, at, pids, kid, stop_test, missd, time, passes, pipe,
          killed, totcpu>>

Programs == {"sload"}

Kids == UNION {{<<i, k>> : k \in 1 .. Tasks[i].count} : i \in DOMAIN Tasks}
Self == <<0, 0>>
Failed == "-1"
Unset == "unset"

TaskOf(c) == Tasks[c[1]]
Last == <<Len(Tasks), Tasks[Len(Tasks)].count>>
After(c) == IF c[2] < TaskOf(c).count THEN <<c[1], c[2] + 1>> ELSE <<c[1] + 1, 1>>

Init ==
  /\ program \in Programs
  /\ pc = "pipe" /\ at = <<1, 1>>
  /\ pids = [c \in Kids |-> Unset]
  /\ kid = [c \in Kids |-> "none"]
  /\ stop_test = [c \in Kids \cup {Self} |-> FALSE]
  /\ missd = [c \in Kids |-> 0]
  /\ time = [c \in Kids |-> 0]
  /\ passes = [c \in Kids |-> 0]
  /\ pipe = [c \in Kids |-> <<>>]
  /\ killed = {}
  /\ totcpu = 0

kids == <<kid, stop_test, missd, time, passes, pipe, killed>>

-----------------------------------------------------------------------------
(* main: the forks *)

PipeFail ==
  /\ pc = "pipe"
  /\ pc' = "exit 1"
  /\ UNCHANGED <<program, at, pids, kids, totcpu>>

Forked == IF at = Last THEN pc' = "waitpid" /\ at' = <<1, 1>>
                       ELSE pc' = "pipe" /\ at' = After(at)

\* A child starts with main's stop_test.
Fork ==
  /\ pc = "pipe"
  /\ pids' = [pids EXCEPT ![at] = "pid"]
  /\ kid' = [kid EXCEPT ![at] = "runs"]
  /\ stop_test' = [stop_test EXCEPT ![at] = stop_test[Self]]
  /\ Forked
  /\ UNCHANGED <<program, missd, time, passes, pipe, killed, totcpu>>

\* fork() returns -1, and main goes on with that as the child's pid.
ForkFail ==
  /\ pc = "pipe"
  /\ pids' = [pids EXCEPT ![at] = Failed]
  /\ Forked
  /\ UNCHANGED <<program, kids, totcpu>>

-----------------------------------------------------------------------------
(* main: the reports *)

Waitpid ==
  /\ pc = "waitpid" /\ pids[at] = "pid" /\ kid[at] = "zombie"
  /\ kid' = [kid EXCEPT ![at] = "reaped"]
  /\ pc' = "read"
  /\ UNCHANGED <<program, at, pids, stop_test, missd, time, passes, pipe, killed, totcpu>>

\* waitpid(-1) takes any child that has ended: its pid is not -1, main gives up.
WaitpidAny ==
  /\ pc = "waitpid" /\ pids[at] = Failed
  /\ \E c \in Kids : kid[c] = "zombie" /\ kid' = [kid EXCEPT ![c] = "reaped"]
  /\ pc' = "exit 1"
  /\ UNCHANGED <<program, at, pids, stop_test, missd, time, passes, pipe, killed, totcpu>>

\* waitpid(-1) without children fails: its -1 is the pid main compares it with.
WaitpidNone ==
  /\ pc = "waitpid" /\ pids[at] = Failed
  /\ \A c \in Kids : kid[c] \in {"none", "reaped"}
  /\ pc' = "read"
  /\ UNCHANGED <<program, at, pids, kids, totcpu>>

\* The read() blocks on an empty pipe, whose write end main has open itself.
Read ==
  /\ pc = "read" /\ pipe[at] # <<>>
  /\ pipe' = [pipe EXCEPT ![at] = Tail(@)]
  /\ totcpu' = totcpu + Head(pipe[at])
  /\ IF at = Last THEN pc' = "exit 0" /\ UNCHANGED at
                  ELSE pc' = "waitpid" /\ at' = After(at)
  /\ UNCHANGED <<program, pids, kid, stop_test, missd, time, passes, killed>>

Main == Fork \/ Waitpid \/ WaitpidAny \/ WaitpidNone \/ Read

-----------------------------------------------------------------------------
(* A child *)

ilog2(v) == CHOOSE l \in 0 .. RandBits : v < 2 ^ l /\ \A m \in 0 .. l - 1 : v >= 2 ^ m

\* myrand() cut down to a bit more than twice the jitter
Rands(jitter) == {r \div 2 ^ (RandBits - ilog2(2 * jitter) - 1) : r \in 0 .. 2 ^ RandBits - 1}

\* What jval() may return; the variant forgets the modulo.
jvalWide(v, jitter) ==
  IF jitter = 0 THEN {v} ELSE {Max({v - jitter, 0}) + r : r \in Rands(jitter)}
jval(v, jitter) ==
  IF jitter = 0 THEN {v}
  ELSE {Max({v - jitter, 0}) + (r % (2 * jitter)) : r \in Rands(jitter)}

\* One pass of the loop; d is the time it takes beyond the burn, asleep or preempted.
Pass(c) ==
  /\ kid[c] = "runs" /\ ~stop_test[c] /\ passes[c] < MaxPasses
  /\ passes' = [passes EXCEPT ![c] = @ + 1]
  /\ \E bus \in (IF TaskOf(c).bus > 0 THEN jval(TaskOf(c).bus, TaskOf(c).jbus) ELSE {0}),
        d \in 0 .. MaxDelay :
       /\ time' = [time EXCEPT ![c] = @ + bus]
       /\ missd' = [missd EXCEPT ![c] =
            IF TaskOf(c).wus > 0 /\ TaskOf(c).wus <= bus + d THEN @ + 1 ELSE @]
  /\ UNCHANGED <<program, pc, at, pids, kid, stop_test, pipe, killed, totcpu>>

\* The pipe the report goes to; the variant has the index within the task only.
PipeOfFirst(c) == <<1, IF c[2] <= Tasks[1].count THEN c[2] ELSE 1>>
PipeOf(c) == c

Write(c) ==
  /\ kid[c] = "runs" /\ stop_test[c]
  /\ pipe' = [pipe EXCEPT ![PipeOf(c)] = Append(@, time[c])]
  /\ kid' = [kid EXCEPT ![c] = "wrote"]
  /\ UNCHANGED <<program, pc, at, pids, stop_test, missd, time, passes, killed, totcpu>>

Exit(c) ==
  /\ kid[c] = "wrote"
  /\ kid' = [kid EXCEPT ![c] = "zombie"]
  /\ UNCHANGED <<program, pc, at, pids, stop_test, missd, time, passes, pipe, killed, totcpu>>

Child(c) == Pass(c) \/ Write(c) \/ Exit(c)

-----------------------------------------------------------------------------
(* Signals *)

Running == pc \notin {"exit 0", "exit 1"}

\* SIGINT for main, or SIGINT or the alarm for a child.
sig_int(p) ==
  /\ ~stop_test[p]
  /\ IF p = Self THEN Running ELSE kid[p] = "runs"
  /\ stop_test' = [stop_test EXCEPT ![p] = TRUE]
  /\ UNCHANGED <<program, pc, at, pids, kid, missd, time, passes, pipe, killed, totcpu>>

\* Some other signal ends a child before it has written.
Kill(c) ==
  /\ kid[c] = "runs"
  /\ kid' = [kid EXCEPT ![c] = "zombie"]
  /\ killed' = killed \cup {c}
  /\ UNCHANGED <<program, pc, at, pids, stop_test, missd, time, passes, pipe, totcpu>>

Next == \/ Main \/ PipeFail \/ ForkFail \/ sig_int(Self)
        \/ \E c \in Kids : Child(c) \/ sig_int(c) \/ Kill(c)

-----------------------------------------------------------------------------
(* What the program is held to *)

Lost == {c \in Kids : pids[c] = Failed} \cup killed

\* A total is the sum of what all children burnt, none left out or taken twice;
\* each burnt what its jitter allows, and misses no more deadlines than it met.
Accounted ==
  /\ pc = "exit 0" => Lost = {} /\ totcpu = MapThenSumSet(LAMBDA c : time[c], Kids)
  /\ \A c \in Kids :
       LET v == TaskOf(c).bus  j == TaskOf(c).jbus IN
       /\ time[c] >= passes[c] * (v - j)
       /\ j > 0 => time[c] <= passes[c] * (Max({v, j}) + j - 1)
       /\ missd[c] <= passes[c]

\* main is left blocked in a read only by a child that ended without a report or
\* was never forked, and a child that has ended in order has left its report.
BlockedOnlyByLoss ==
  /\ pc = "read" /\ pipe[at] = <<>> => at \in Lost
  /\ \A c \in Kids \ killed : kid[c] = "zombie" => pipe[c] = <<time[c]>>

Ended == ~Running \/ (pc = "read" /\ pipe[at] = <<>>)
=============================================================================
