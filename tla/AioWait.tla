------------------------------ MODULE AioWait ------------------------------
(***************************************************************************)
(* eventfd-aio-test.c: test_write and then test_read submit one request    *)
(* per block of the file, all tied to one eventfd, and collect the results *)
(* as the eventfd counts them.  The kernel finishes requests in any order; *)
(* it puts the result in the ring of the context and then adds one to the  *)
(* eventfd.                                                                *)
(***************************************************************************)
EXTENDS Integers

CONSTANTS Reqs,      \* range / IORTX_SIZE, the requests of a test
          NumEvents  \* NUM_EVENTS

VARIABLES
  program,  \* "eventfd-aio-test"
  op,       \* "write" or "read": which test runs
  pc,       \* "submit", "poll", "drain" or "end"
  flight,   \* requests taken by the kernel and not finished
  ring,     \* results in the ring
  unsaid,   \* results in the ring the eventfd does not count yet
  afd,      \* the eventfd's counter
  eval, got,  \* eval and i
  short,    \* an io_submit has taken fewer requests than it was given
  over      \* blocks of the file whose write has finished

kernel == <<flight, ring, unsaid, afd, over>>
vars == <<program, op, pc, eval, got, short, kernel>>

Programs == {"eventfd-aio-test"}

Requests == 0 .. Reqs - 1

\* The block of a request: the last block comes first.
Block(r) == Reqs - r - 1

Init ==
  /\ program \in Programs
  /\ op = "write" /\ pc = "submit"
  /\ flight = {} /\ ring = 0 /\ unsaid = 0 /\ afd = 0 /\ over = {}
  /\ eval = 0 /\ got = 0 /\ short = FALSE

\* Return from test_write or test_read; main looks at neither's result.
Return ==
  /\ op' = "read"
  /\ pc' = IF op = "write" THEN "submit" ELSE "end"

-----------------------------------------------------------------------------
(* The program *)

\* io_submit takes the first r requests.
Submit ==
  /\ pc = "submit" /\ pc' = "poll"
  /\ \E r \in 1 .. Reqs :
       /\ flight' = {k \in Requests : k < r}
       /\ short' = (r < Reqs)
  /\ got' = 0
  /\ UNCHANGED <<program, op, ring, unsaid, afd, over, eval>>

\* io_submit takes none.
SubmitFails ==
  /\ pc = "submit" /\ Return
  /\ UNCHANGED <<program, eval, got, short, kernel>>

\* waitasync and the read of the eventfd
ReadAfd ==
  /\ pc = "poll" /\ afd > 0
  /\ eval' = afd /\ afd' = 0
  /\ pc' = "drain"
  /\ UNCHANGED <<program, op, got, short, flight, ring, unsaid, over>>

\* How many results io_getevents is asked for
Wanted == IF eval > NumEvents THEN NumEvents ELSE eval

\* What remains of eval.  The variant leaves it alone.
LeftSame(r) == eval
Left(r) == eval - r

GetEvents ==
  /\ pc = "drain" /\ eval > 0
  /\ LET r == IF Wanted > ring THEN ring ELSE Wanted
     IN got' = got + r /\ eval' = Left(r) /\ ring' = ring - r
  /\ UNCHANGED <<program, op, pc, short, flight, unsaid, afd, over>>

\* Whether all results are there.  The variant waits for one more.
AllGotOneMore == got > Reqs
AllGot == got >= Reqs

Drained ==
  /\ pc = "drain" /\ eval = 0
  /\ IF AllGot THEN Return ELSE pc' = "poll" /\ UNCHANGED op
  /\ UNCHANGED <<program, eval, got, short, kernel>>

-----------------------------------------------------------------------------
(* The kernel *)

\* A request finishes, with its block, with less or with an error: nobody looks at
\* the result, the loop over the events is empty.
Finish(r) ==
  /\ r \in flight /\ flight' = flight \ {r}
  /\ ring' = ring + 1 /\ unsaid' = unsaid + 1
  /\ over' = IF op = "write" THEN over \cup {Block(r)} ELSE over
  /\ UNCHANGED <<program, op, pc, afd, eval, got, short>>

Signal ==
  /\ unsaid > 0 /\ unsaid' = unsaid - 1 /\ afd' = afd + 1
  /\ UNCHANGED <<program, op, pc, flight, ring, over, eval, got, short>>

Program == Submit \/ SubmitFails \/ ReadAfd \/ GetEvents \/ Drained

Next == Program \/ (\E r \in Requests : Finish(r)) \/ Signal

Spec == Init /\ [][Next]_vars

-----------------------------------------------------------------------------
(* Properties *)

\* Every result the program has been told of is in the ring: the inner loop, which
\* asks with a zero timeout, never spins on results that are not there.  A test
\* leaves nothing behind: when the next one submits, and at the end, no request
\* is in flight, no result is in the ring and the eventfd counts nothing, so that a
\* test never takes the results of the other one for its own.  test_write is over
\* only when the write of every block has finished, well or not, unless io_submit took
\* nothing.
Accounted ==
  /\ ring = eval + afd + unsaid
  /\ pc \in {"submit", "end"} => flight = {} /\ ring = 0
  /\ op = "read" /\ over # {} => over = Requests

\* After an io_submit that took some but not all of its requests the test waits for
\* results that never come.
Ended == pc = "end" \/ short
=============================================================================
