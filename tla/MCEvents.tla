------------------------------ MODULE MCEvents ------------------------------
(***************************************************************************)
(* The programs that exercise one kind of event descriptor each, side by   *)
(* side as TLC checks them: program is chosen at the start, its module     *)
(* says what it does, and the variables of the others stay Off.            *)
(***************************************************************************)
EXTENDS Integers, Sequences

CONSTANTS Threads, Pipes, Active, NumEvts, Cap, None,  \* TotalMess
          MaxFds, MaxWrites, Runs,                     \* EdgeRing
          Burst, Swcount,                              \* PingPong
          Reqs, NumEvents,                             \* AioWait
          Once, Nap, MaxAge                            \* TimerTest

ASSUME EventsAssumption ==
  /\ MaxFds \in Nat /\ MaxWrites \in Nat
  /\ Burst \in Nat \ {0} /\ Swcount \in Nat
  /\ Reqs \in Nat /\ NumEvents \in Nat
  /\ Once \in Nat \ {0}

VARIABLES
  program, pc,
  epet, stop, main, bytes, inSet, edges, events, idx, widx,
  num, active, numWrites, value, ready, batch, count, writes, fired, run,
  nth, at, left, chan,
  op, flight, ring, unsaid, afd, eval, got, short, over,
  clk, test, age, slept, naps, it, remain, period, ticks, result

Mess == INSTANCE TotalMess
Edge == INSTANCE EdgeRing
Ping == INSTANCE PingPong
Aio == INSTANCE AioWait
Timer == INSTANCE TimerTest

mess == <<epet, stop, main, bytes, inSet, edges, events, idx, widx>>
edge == <<num, active, numWrites, value, ready, batch, count, writes, fired, run>>
ping == <<nth, at, left, chan>>
aio == <<op, flight, ring, unsaid, afd, eval, got, short, over>>
timer == <<clk, test, age, slept, naps, it, remain, period, ticks, result>>

Off == 0

MessOff ==
  /\ epet = Off /\ stop = Off /\ main = Off /\ bytes = Off /\ inSet = Off
  /\ edges = Off /\ events = Off /\ idx = Off /\ widx = Off
EdgeOff ==
  /\ num = Off /\ active = Off /\ numWrites = Off /\ value = Off /\ ready = Off
  /\ batch = Off /\ count = Off /\ writes = Off /\ fired = Off /\ run = Off
PingOff == nth = Off /\ at = Off /\ left = Off /\ chan = Off
AioOff ==
  /\ op = Off /\ flight = Off /\ ring = Off /\ unsaid = Off /\ afd = Off
  /\ eval = Off /\ got = Off /\ short = Off /\ over = Off
TimerOff ==
  /\ clk = Off /\ test = Off /\ age = Off /\ slept = Off /\ naps = Off
  /\ it = Off /\ remain = Off /\ period = Off /\ ticks = Off /\ result = Off

Init ==
  \/ Mess!Init /\ EdgeOff /\ PingOff /\ AioOff /\ TimerOff
  \/ Edge!Init /\ MessOff /\ PingOff /\ AioOff /\ TimerOff
  \/ Ping!Init /\ MessOff /\ EdgeOff /\ AioOff /\ TimerOff
  \/ Aio!Init /\ MessOff /\ EdgeOff /\ PingOff /\ TimerOff
  \/ Timer!Init /\ MessOff /\ EdgeOff /\ PingOff /\ AioOff

\* A step of one program
InMess(A) == program \in Mess!Programs /\ A /\ UNCHANGED <<edge, ping, aio, timer>>
InEdge(A) == program \in Edge!Programs /\ A /\ UNCHANGED <<mess, ping, aio, timer>>
InPing(A) == program \in Ping!Programs /\ A /\ UNCHANGED <<mess, edge, aio, timer>>
InAio(A) == program \in Aio!Programs /\ A /\ UNCHANGED <<mess, edge, ping, timer>>
InTimer(A) == program \in Timer!Programs /\ A /\ UNCHANGED <<mess, edge, ping, aio>>

Next ==
  \/ InMess(Mess!Next)
  \/ InEdge(Edge!Next)
  \/ InPing(Ping!Next)
  \/ InAio(Aio!Next)
  \/ InTimer(Timer!Next)

vars == <<program, pc, mess, edge, ping, aio, timer>>

\* Threads, processes and main are scheduled; the kernel finishes the requests it
\* has taken and time passes.  Nobody has to send a SIGINT.
Fairness ==
  /\ WF_vars(InMess(Mess!Fill)) /\ WF_vars(InMess(Mess!Awake))
  /\ WF_vars(InMess(Mess!Join))
  /\ \A t \in Threads : WF_vars(InMess(Mess!Thread(t)))
  /\ WF_vars(InEdge(Edge!Next))
  /\ WF_vars(InPing(Ping!Start \/ Ping!StartFails)) /\ WF_vars(InPing(Ping!Join))
  /\ \A p \in Ping!Players : WF_vars(InPing(Ping!Player(p)))
  /\ WF_vars(InAio(Aio!Program)) /\ WF_vars(InAio(Aio!Signal))
  /\ WF_vars(InAio(\E r \in Aio!Requests : Aio!Finish(r)))
  /\ WF_vars(InTimer(Timer!Program)) /\ WF_vars(InTimer(Timer!Pass))

Spec == Init /\ [][Next]_vars /\ Fairness

-----------------------------------------------------------------------------
(* Properties *)

\* totalmess: a byte in a pipe is always announced, or about to be.
NeverStranded == program \in Mess!Programs => Mess!NeverStranded

\* totalmess: after a SIGINT every thread ends, unless its write is blocked on a
\* full pipe.
StopsUnlessFull ==
  (program \in Mess!Programs /\ stop) ~> (program \in Mess!Programs /\ Mess!Stopped)

\* The other programs: each event, post, result or tick that a program is told of
\* is one that happened, and none is lost or taken for another's.
EventsAccounted ==
  /\ program \in Edge!Programs => Edge!Accounted
  /\ program \in Ping!Programs => Ping!Accounted
  /\ program \in Aio!Programs => Aio!Accounted
  /\ program \in Timer!Programs => Timer!Accounted

\* Each of them ends: no wait is for something that will not come.  Only
\* eventfd-aio-test may not end, after an io_submit that took some but not all of
\* its requests, and eventfd-sem, after one of its two fork() calls failed.
ProgramsEnd ==
  <>(\/ program \in Mess!Programs
     \/ program \in Edge!Programs /\ Edge!Ended
     \/ program \in Ping!Programs /\ Ping!Ended
     \/ program \in Aio!Programs /\ Aio!Ended
     \/ program \in Timer!Programs /\ Timer!Ended)
=============================================================================
