----------------------------- MODULE TimerTest -----------------------------
(***************************************************************************)
(* timerfd-test.c and timerfd-test2.c: a timer descriptor is armed in four *)
(* ways, one after the other, and read; the last read must find nothing.   *)
(* The tests are the same for both clocks.                                 *)
(*                                                                         *)
(* Time passes between any two steps of the program, in units of the       *)
(* periodic timer's 100 ms.  The kernel counts the expirations in ticks,   *)
(* which a read takes all at once and a new setting clears.                *)
(***************************************************************************)
EXTENDS Integers, Sequences

CONSTANTS Once,   \* the single timeout of the first two tests (5)
          Nap,    \* sleep(1) (10)
          MaxAge  \* bound on the time the program is held up

VARIABLES
  program, \* "timerfd-test" or "timerfd-test2"
  clk,     \* i: which of the two clocks
  test,    \* the next entry of Script
  pc,      \* within an entry: "now", "set", "sleep", "gettime", "poll", "read",
           \* "nonblock"; at last "end"
  age,     \* time since tnow was taken
  slept,   \* time since a sleep began
  naps,    \* sleeps not yet over
  it,      \* tmr.it_interval
  remain,  \* time to the next expiration, 0 when the timer is not armed
  period,  \* the interval the kernel holds
  ticks,
  result   \* what the last wait or read gave

prog == <<program, clk, test, pc, naps, it, result>>
vars == <<prog, age, slept, remain, period, ticks>>

Programs == {"timerfd-test", "timerfd-test2"}

\* The four tests: it_value, it_interval, whether it_value is absolute, and whether
\* the program sleeps before it waits.  In the variant the last test does not set
\* the interval anew.
ScriptKept ==
  << [value |-> Once, every |-> 0, abs |-> FALSE, sleeps |-> FALSE],
     [value |-> Once, every |-> 0, abs |-> TRUE, sleeps |-> FALSE],
     [value |-> 1, every |-> 1, abs |-> TRUE, sleeps |-> TRUE],
     [value |-> 1, every |-> it, abs |-> FALSE, sleeps |-> FALSE] >>
Script ==
  << [value |-> Once, every |-> 0, abs |-> FALSE, sleeps |-> FALSE],
     [value |-> Once, every |-> 0, abs |-> TRUE, sleeps |-> FALSE],
     [value |-> 1, every |-> 1, abs |-> TRUE, sleeps |-> TRUE],
     [value |-> 1, every |-> 0, abs |-> FALSE, sleeps |-> FALSE] >>

Init ==
  /\ program \in Programs
  /\ clk = 1 /\ test = 1 /\ pc = "now"
  /\ age = 0 /\ slept = 0 /\ naps = 0 /\ it = 0
  /\ remain = 0 /\ period = 0 /\ ticks = 0 /\ result = 0

-----------------------------------------------------------------------------
(* The kernel *)

\* Setting a timer clears its ticks.  The variant keeps them.
ClearedNot == ticks
Cleared == 0

\* A timer set to expire v from now, with v <= 0 for a time that has passed: the
\* expirations that are due already are ticks.
Armed(v, every) ==
  /\ period' = every
  /\ IF v > 0 THEN remain' = v /\ ticks' = Cleared
     ELSE IF every = 0 THEN remain' = 0 /\ ticks' = Cleared + 1
     ELSE /\ remain' = every - ((-v) % every)
          /\ ticks' = Cleared + 1 + (-v) \div every

\* sleep(2) in one program, sleep(1) twice in the other
Naps == IF program = "timerfd-test" THEN 1 ELSE 2
NapTime == IF program = "timerfd-test" THEN 2 * Nap ELSE Nap

\* One unit of time.  The bound is on how long the program is held up, never on
\* a sleep or a wait of its own.
HeldUp == ~(pc = "sleep" /\ slept < NapTime) /\ ~(pc = "poll" /\ ticks = 0)
Pass ==
  /\ HeldUp => age < MaxAge
  /\ age' = age + 1 /\ slept' = IF slept < NapTime THEN slept + 1 ELSE NapTime
  /\ IF remain = 1 THEN remain' = period /\ ticks' = ticks + 1
     ELSE remain' = (IF remain > 0 THEN remain - 1 ELSE 0) /\ UNCHANGED ticks
  /\ UNCHANGED <<prog, period>>

-----------------------------------------------------------------------------
(* The program *)

\* tnow = getustime()
Now ==
  /\ pc = "now" /\ pc' = "set"
  /\ age' = 0
  /\ UNCHANGED <<program, clk, test, naps, it, result, slept, remain, period, ticks>>

\* timerfd() or timerfd_settime(), and the sleeps that follow it
Settime ==
  LET s == Script[test] IN
  /\ pc = "set"
  /\ it' = s.every
  /\ Armed(IF s.abs THEN s.value - age ELSE s.value, s.every)
  /\ pc' = IF s.sleeps THEN "sleep" ELSE "poll"
  /\ naps' = IF s.sleeps THEN Naps ELSE 0
  /\ slept' = 0
  /\ UNCHANGED <<program, clk, test, result, age>>

\* The end of a sleep(); timerfd-test2.c looks at the timer between its two.
Slept ==
  /\ pc = "sleep" /\ slept = NapTime
  /\ naps' = naps - 1 /\ slept' = 0
  /\ pc' = IF naps = 1 THEN "poll" ELSE "gettime"
  /\ UNCHANGED <<program, clk, test, it, result, age, remain, period, ticks>>

\* timerfd_gettime() writes over tmr.
Gettime ==
  /\ pc = "gettime" /\ pc' = "sleep"
  /\ it' = period /\ slept' = 0
  /\ UNCHANGED <<program, clk, test, naps, result, age, remain, period, ticks>>

\* waittmr: poll() without a timeout, then the read
Poll ==
  /\ pc = "poll" /\ ticks > 0 /\ pc' = "read"
  /\ UNCHANGED <<program, clk, test, naps, it, result, age, slept, remain, period, ticks>>

Read ==
  /\ pc = "read"
  /\ result' = ticks /\ ticks' = 0
  /\ IF test < Len(Script) THEN test' = test + 1 /\ pc' = "now"
     ELSE pc' = "nonblock" /\ UNCHANGED test
  /\ UNCHANGED <<program, clk, naps, it, age, slept, remain, period>>

\* The read with O_NONBLOCK set, after which the descriptor is closed
ReadNonblock ==
  /\ pc = "nonblock"
  /\ result' = ticks /\ ticks' = 0 /\ remain' = 0 /\ period' = 0
  /\ IF clk = 1 THEN clk' = 2 /\ test' = 1 /\ pc' = "now"
     ELSE pc' = "end" /\ UNCHANGED <<clk, test>>
  /\ UNCHANGED <<program, naps, it, age, slept>>

Program == Now \/ Settime \/ Slept \/ Gettime \/ Poll \/ Read \/ ReadNonblock

Next == Program \/ Pass

Spec == Init /\ [][Next]_vars

-----------------------------------------------------------------------------
(* Properties *)

\* However long the program is held up between two steps, each wait comes back
\* with the expirations of its own test and no others: one, not before its time, for a
\* single timer; one for every 100 ms since tnow for the periodic one; and the
\* read that must not find any finds none.
Accounted ==
  /\ pc = "read" =>
       /\ age >= Script[test].value
       /\ ticks = IF Script[test].every = 0 THEN 1 ELSE age
  /\ pc = "nonblock" => ticks = 0

Ended == pc = "end"
=============================================================================
