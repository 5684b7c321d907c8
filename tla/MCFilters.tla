----------------------------- MODULE MCFilters -----------------------------
(***************************************************************************)
(* The programs and functions that turn an input into a result, side by    *)
(* side as TLC checks them against what the result should be: program and  *)
(* its input are chosen at the start, its module says what it does, and    *)
(* the variables of the others stay Off.                                   *)
(***************************************************************************)
EXTENDS Integers, Sequences, SequencesExt

CONSTANTS Chars, MaxLines, MaxText,             \* Econv
          Mailboxes, MaxClock,                  \* SplitMb
          Bytes, MaxFile, MaxMatch, MaxMatches, \* BinPatch
          MaxLost,                              \* BinPatch
          MaxSize,                              \* MemIsZero
          Movies, MaxRuns                       \* Mkdvd

VARIABLES
  program, pc,
  input, mode, pos, from, out, fault, rcode,
  mbox, add_xfile, lnum, mstm, files, missing,
  file, match_buf, patch_size, dry_run, answer, fpos, match_pos, matches, m, patched, status,
  short, lost,
  base, size, nonzero, p, n, z, seen, zero,
  infile, opts, mpg, tree, disc, nruns, code, clean

Mail == INSTANCE Econv
Box == INSTANCE SplitMb
Bin == INSTANCE BinPatch
Mem == INSTANCE MemIsZero
Dvd == INSTANCE Mkdvd

mail == <<input, mode, pos, from, out, fault, rcode>>
box == <<mbox, add_xfile, lnum, mstm, files, missing>>
bin == <<file, match_buf, patch_size, dry_run, answer, fpos, match_pos, matches, m, patched, status,
         short, lost>>
mem == <<base, size, nonzero, p, n, z, seen, zero>>
dvd == <<infile, opts, mpg, tree, disc, nruns, code, clean>>

Off == 0

MailOff ==
  /\ input = Off /\ mode = Off /\ pos = Off /\ from = Off /\ out = Off
  /\ fault = Off /\ rcode = Off
BoxOff ==
  /\ mbox = Off /\ add_xfile = Off /\ lnum = Off /\ mstm = Off /\ files = Off
  /\ missing = Off
BinOff ==
  /\ file = Off /\ match_buf = Off /\ patch_size = Off /\ dry_run = Off
  /\ answer = Off /\ fpos = Off /\ match_pos = Off /\ matches = Off
  /\ m = Off /\ patched = Off /\ status = Off /\ short = Off /\ lost = Off
MemOff ==
  /\ base = Off /\ size = Off /\ nonzero = Off /\ p = Off /\ n = Off
  /\ z = Off /\ seen = Off /\ zero = Off
DvdOff ==
  /\ infile = Off /\ opts = Off /\ mpg = Off /\ tree = Off /\ disc = Off
  /\ nruns = Off /\ code = Off /\ clean = Off

Init ==
  \/ Mail!Init /\ BoxOff /\ BinOff /\ MemOff /\ DvdOff
  \/ Box!Init /\ MailOff /\ BinOff /\ MemOff /\ DvdOff
  \/ Bin!Init /\ MailOff /\ BoxOff /\ MemOff /\ DvdOff
  \/ Mem!Init /\ MailOff /\ BoxOff /\ BinOff /\ DvdOff
  \/ Dvd!Init /\ MailOff /\ BoxOff /\ BinOff /\ MemOff

\* A step of one program
InMail(A) == program \in Mail!Programs /\ A /\ UNCHANGED <<box, bin, mem, dvd>>
InBox(A) == program \in Box!Programs /\ A /\ UNCHANGED <<mail, bin, mem, dvd>>
InBin(A) == program \in Bin!Programs /\ A /\ UNCHANGED <<mail, box, mem, dvd>>
InMem(A) == program \in Mem!Programs /\ A /\ UNCHANGED <<mail, box, bin, dvd>>
InDvd(A) == program \in Dvd!Programs /\ A /\ UNCHANGED <<mail, box, bin, mem>>

Next == InMail(Mail!Next) \/ InBox(Box!Next) \/ InBin(Bin!Next) \/ InMem(Mem!Next)
          \/ InDvd(Dvd!Next)

vars == <<program, pc, mail, box, bin, mem, dvd>>

\* Each program runs; none of its calls has to fail.
Spec ==
  /\ Init /\ [][Next]_vars
  /\ WF_vars(InMail(Mail!Main)) /\ WF_vars(InBox(Box!Main))
  /\ WF_vars(InBin(Bin!Main)) /\ WF_vars(InMem(Mem!Main)) /\ WF_vars(InDvd(Dvd!Main))

\* Mailboxes of one line with any short address, and longer ones with few addresses
FromLines(addrs) == [from : {TRUE}, addr : addrs, date : BOOLEAN]
MCMailboxes ==
  {<<ln>> : ln \in FromLines(BoundedSeq({"a", ".", "@"}, 5) \ {<<>>})}
    \cup BoundedSeq(FromLines({<<"a", "@", "a">>, <<"a", ".">>})
                      \cup [from : {FALSE}, addr : {<<>>}, date : {FALSE}], 4)

-----------------------------------------------------------------------------
(* Properties *)

\* The result is the one defined without the program's buffers and loops.  econv:
\* the message, without the carriage returns before line feeds, except where a
\* line's piece ended between the two.  splitmb: each message that was read in a file
\* of its own, less the lines that failing writes lose.  binpatch: the leftmost
\* occurrences patched, as many as its table holds, as far as the file was read and
\* less what failing writes lose.  memiszero: whether the piece is zero, without a read
\* outside of it.  mkdvd: the whole movie on the disc, unless a run since the last
\* clean-up was killed while it made the files or had another movie.
ResultsRight ==
  /\ program \in Mail!Programs => Mail!Accounted
  /\ program \in Box!Programs => Box!Accounted
  /\ program \in Bin!Programs => Bin!Accounted
  /\ program \in Mem!Programs => Mem!Accounted
  /\ program \in Dvd!Programs => Dvd!Accounted

\* Every one of them ends, but for econv without --unix after a read that failed.
FiltersEnd ==
  <>(\/ program \in Mail!Programs /\ Mail!Ended
     \/ program \in Box!Programs /\ Box!Ended
     \/ program \in Bin!Programs /\ Bin!Ended
     \/ program \in Mem!Programs /\ Mem!Ended
     \/ program \in Dvd!Programs /\ Dvd!Ended)
=============================================================================
