------------------------------ MODULE SplitMb ------------------------------
(***************************************************************************)
(* splitmb.c: splits a mailbox at its From lines into one file for each    *)
(* message.  A line is what one fgets() returns: a whole line, or a piece  *)
(* of one that is longer than lnbuf.                                       *)
(***************************************************************************)
EXTENDS Integers, Sequences, SequencesExt, FiniteSets

CONSTANTS Mailboxes, \* the mailboxes to split, sequences of lines
          MaxClock   \* bound on the time in ms

\* A line is [from, addr, date]: whether it begins with "From ", the address and
\* whether sscanf() reads the date behind it in full.

VARIABLES
  program, pc,
  mbox,      \* the lines of the mailbox
  add_xfile, \* -X
  lnum, mstm,
  files,     \* the files made, the last one open: [name, lines]
  missing    \* history: lines that a failing write has lost, a From line for the
             \* X-SplitMB-File line of its file

vars == <<program, pc, mbox, add_xfile, lnum, mstm, files, missing>>

Programs == {"splitmb"}

XFile == 0  \* the X-SplitMB-File line; the others are known by their number

-----------------------------------------------------------------------------
(* Addresses: "a" for the characters of an atom, "." and "@"               *)

is_rfc822_atext(c) == c = "a"

\* Where the atom that begins at i ends
AtomEnd(s, i) ==
  CHOOSE j \in i .. Len(s) + 1 :
    /\ \A k \in i .. j - 1 : is_rfc822_atext(s[k])
    /\ j = Len(s) + 1 \/ ~is_rfc822_atext(s[j])

Null == 0

\* is_dot_atom() from position str on: one past its end, or Null.
is_dot_atom(s, str) ==
  LET scan[i \in 1 .. Len(s) + 1] ==
        LET j == AtomEnd(s, i)
        IN CASE j = i -> Null
             [] j > i /\ (j = Len(s) + 1 \/ s[j] # ".") -> j
             [] OTHER -> scan[j + 1]
  IN scan[str]

is_valid_host(s, hname) == is_dot_atom(s, hname) = Len(s) + 1

\* The variant takes whatever follows the @.
is_valid_addr_spec_any(s) ==
  LET caddr == is_dot_atom(s, 1)
  IN caddr # Null /\ (caddr <= Len(s) => s[caddr] = "@")
is_valid_addr_spec(s) ==
  LET caddr == is_dot_atom(s, 1)
  IN caddr # Null /\ (caddr <= Len(s) => s[caddr] = "@" /\ is_valid_host(s, caddr + 1))

\* strncmp() and is_split_msg()
is_split_msg(ln) == ln.from /\ ln.date /\ is_valid_addr_spec(ln.addr)

-----------------------------------------------------------------------------

Init ==
  /\ program \in Programs
  /\ mbox \in Mailboxes
  /\ add_xfile \in BOOLEAN
  /\ pc = "loop" /\ lnum = 1 /\ mstm = 0
  /\ files = <<>> /\ missing = {}

\* A line that is written is lost when the call, or the fclose() that writes what is
\* left, fails: nobody looks.
Lose == missing' \in {missing, missing \cup {lnum}}
Put(s, x) == IF missing' = missing THEN Append(s, x) ELSE s

\* A From line closes the file and opens the next; xfopen() truncates it.
Split ==
  /\ pc = "loop" /\ lnum <= Len(mbox) /\ is_split_msg(mbox[lnum])
  /\ mstm' \in mstm .. MaxClock
  /\ IF add_xfile THEN Lose ELSE UNCHANGED missing
  /\ files' = Append(files, [name |-> <<mstm', lnum>>,
                             lines |-> IF add_xfile THEN Put(<<>>, XFile) ELSE <<>>])
  /\ lnum' = lnum + 1
  /\ UNCHANGED <<program, pc, mbox, add_xfile>>

\* Any other line goes to the open file, if there is one.
Keep ==
  /\ pc = "loop" /\ lnum <= Len(mbox) /\ ~is_split_msg(mbox[lnum])
  /\ IF files = <<>> THEN UNCHANGED <<files, missing>>
     ELSE Lose /\ files' = [files EXCEPT ![Len(files)].lines = Put(@, lnum)]
  /\ lnum' = lnum + 1
  /\ UNCHANGED <<program, pc, mbox, add_xfile, mstm>>

\* xfopen() fails: exit(2), with the files so far.
OpenError ==
  /\ pc = "loop" /\ lnum <= Len(mbox) /\ is_split_msg(mbox[lnum])
  /\ pc' = "failed"
  /\ UNCHANGED <<program, mbox, add_xfile, lnum, mstm, files, missing>>

Finish ==
  /\ pc = "loop" /\ lnum > Len(mbox)
  /\ pc' = "exited"
  /\ UNCHANGED <<program, mbox, add_xfile, lnum, mstm, files, missing>>

\* A failing read is the end of the mailbox to fgets(), for main too.
ReadError ==
  /\ pc = "loop" /\ lnum <= Len(mbox)
  /\ pc' = "exited"
  /\ UNCHANGED <<program, mbox, add_xfile, lnum, mstm, files, missing>>

Main == Split \/ Keep \/ Finish

Next == Main \/ OpenError \/ ReadError

-----------------------------------------------------------------------------
(* What the program is held to *)

\* Atoms with single dots between them
DotAtom(s) ==
  /\ s # <<>> /\ s[1] = "a" /\ s[Len(s)] = "a"
  /\ ToSet(s) \subseteq {"a", "."}
  /\ \A i \in 1 .. Len(s) - 1 : ~(s[i] = "." /\ s[i + 1] = ".")

\* One of them, or two with an @ between them
Address(s) ==
  \/ DotAtom(s)
  \/ \E i \in DOMAIN s : /\ s[i] = "@" /\ DotAtom(SubSeq(s, 1, i - 1))
                         /\ DotAtom(SubSeq(s, i + 1, Len(s)))

Cuts == {i \in 1 .. lnum - 1 : mbox[i].from /\ mbox[i].date /\ Address(mbox[i].addr)}

\* A file for every From line with an address and a date that was read, with the lines
\* up to the next of them or as far as the mailbox was read, and no two files of one
\* name.  A write that fails costs its own line.
Accounted ==
  /\ Len(files) = Cardinality(Cuts)
  /\ \A i, j \in DOMAIN files : i # j => files[i].name # files[j].name
  /\ \A i \in Cuts :
       \E f \in ToSet(files) :
         /\ f.name[2] = i
         /\ f.lines = (IF add_xfile /\ i \notin missing THEN <<XFile>> ELSE <<>>)
              \o SetToSortSeq({k \in (i + 1 .. lnum - 1) \ missing :
                                 \A c \in Cuts : c > i => k < c}, <)

Ended == pc \in {"exited", "failed"}
=============================================================================
