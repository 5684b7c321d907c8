------------------------------- MODULE Econv -------------------------------
(***************************************************************************)
(* econv.c: copies the message that follows the <<MAIL-DATA>> line of a    *)
(* spool file, with --mbox behind a From line for its sender, with --unix  *)
(* with bare line feeds.  The message is a sequence of characters without  *)
(* NUL; the envelope before it is given line by line.                      *)
(***************************************************************************)
EXTENDS Integers, Sequences, SequencesExt, FiniteSetsExt

CONSTANTS Chars,    \* what one fgets() or fread() of the message takes at most
          MaxLines, \* bound on the envelope
          MaxText   \* bound on the message

VARIABLES
  program, pc,
  input,  \* [hdr, tag, text]: envelope, how <<MAIL-DATA>> ends it, message
  mode,   \* [mbox, uxmode]
  pos,    \* lines, then characters, read
  from,   \* whether from holds an address
  out,    \* what was written: From for the mbox line, and characters
  fault,  \* history: "none", or the call that failed
  rcode

vars == <<program, pc, input, mode, pos, from, out, fault, rcode>>

Programs == {"econv"}

CR == "r"
LF == "n"
From == "From"

\* A MAIL FROM with and without an address, and any other line
Lines == {"sender", "null", "other"}

\* The tag is there, is the end of the file without a line feed, or is missing.
Inputs ==
  {[hdr |-> h, tag |-> t, text |-> x] :
     h \in BoundedSeq(Lines, MaxLines), t \in {"line", "cut", "none"},
     x \in BoundedSeq({"x", CR, LF}, MaxText)}

Init ==
  /\ program \in Programs
  /\ input \in {i \in Inputs : i.tag # "line" => i.text = <<>>}
  /\ mode \in [mbox : BOOLEAN, uxmode : BOOLEAN]
  /\ pc = "envelope" /\ pos = 0 /\ from = FALSE
  /\ out = <<>> /\ fault = "none" /\ rcode = 1

Exit(code) == pc' = "exited" /\ rcode' = code

-----------------------------------------------------------------------------
(* The envelope *)

HeaderLine ==
  /\ pc = "envelope" /\ pos < Len(input.hdr)
  /\ pos' = pos + 1
  /\ from' = (from \/ (mode.mbox /\ input.hdr[pos + 1] = "sender"))
  /\ UNCHANGED <<program, pc, input, mode, out, fault, rcode>>

\* What comes after the loop if feof() does not hold
Begin ==
  IF mode.mbox /\ ~from THEN Exit(2) /\ UNCHANGED <<pos, out>>
  ELSE /\ out' = IF mode.mbox THEN <<From>> ELSE <<>>
       /\ pc' = "copy" /\ pos' = 0 /\ rcode' = 3

\* The tag, or the end of the file; the tag at the end of the file is both.
HeaderEnd ==
  /\ pc = "envelope" /\ pos = Len(input.hdr)
  /\ IF input.tag = "line" THEN Begin ELSE Exit(1) /\ UNCHANGED <<pos, out>>
  /\ UNCHANGED <<program, input, mode, from, fault>>

\* fgets() fails, but feof() does not hold: econv goes on as if it had the tag.
HeaderError ==
  /\ pc = "envelope" /\ fault = "none"
  /\ fault' = "read"
  /\ Begin
  /\ UNCHANGED <<program, input, mode, from>>

-----------------------------------------------------------------------------
(* The message *)

\* The last character of the piece that begins after pos: fgets() stops after a
\* line feed, fread() does not.
PieceEnd ==
  LET full == Min({pos + Chars, Len(input.text)})
      lfs == {i \in pos + 1 .. full : input.text[i] = LF}
  IN IF mode.uxmode /\ lfs # {} THEN Min(lfs) ELSE full

Piece == SubSeq(input.text, pos + 1, PieceEnd)

\* The variant takes the character before any line feed for a carriage return.
UnixAny(s) == IF Len(s) >= 2 /\ s[Len(s)] = LF THEN Append(SubSeq(s, 1, Len(s) - 2), LF) ELSE s
Unix(s) ==
  IF Len(s) >= 2 /\ s[Len(s)] = LF /\ s[Len(s) - 1] = CR
  THEN Append(SubSeq(s, 1, Len(s) - 2), LF)
  ELSE s

Copy ==
  /\ pc = "copy" /\ fault = "none" /\ pos < Len(input.text)
  /\ out' = out \o (IF mode.uxmode THEN Unix(Piece) ELSE Piece)
  /\ pos' = PieceEnd
  /\ UNCHANGED <<program, pc, input, mode, from, fault, rcode>>

\* fwrite() fails: exit code 3.
WriteError ==
  /\ pc = "copy" /\ fault = "none" /\ pos < Len(input.text)
  /\ fault' = "write"
  /\ Exit(3)
  /\ UNCHANGED <<program, input, mode, pos, from, out>>

ReadError ==
  /\ pc = "copy" /\ fault = "none"
  /\ fault' = "read"
  /\ UNCHANGED <<program, pc, input, mode, pos, from, out, rcode>>

\* The end of the file ends both loops.  A failed read ends that of fgets() only:
\* the other one asks feof() again and again.
CopyEnds == \/ pos = Len(input.text) /\ fault = "none"
            \/ fault = "read" /\ mode.uxmode

Finish ==
  /\ pc = "copy" /\ CopyEnds
  /\ Exit(0)
  /\ UNCHANGED <<program, input, mode, pos, from, out, fault>>

\* fflush() fails, and nobody looks at what it returns.
FlushError ==
  /\ pc = "copy" /\ CopyEnds /\ fault = "none"
  /\ fault' = "flush"
  /\ \E n \in 0 .. Len(out) : out' = SubSeq(out, 1, n)
  /\ Exit(0)
  /\ UNCHANGED <<program, input, mode, pos, from>>

Main == HeaderLine \/ HeaderEnd \/ Copy \/ Finish

Next == Main \/ HeaderError \/ WriteError \/ ReadError \/ FlushError

-----------------------------------------------------------------------------
(* What the program is held to *)

LineStart(i) == Max({0} \cup {j \in 1 .. i - 1 : input.text[j] = LF})

\* The carriage returns that --unix drops: those before a line feed, unless fgets()
\* put the two into different pieces.
Dropped ==
  {i \in 1 .. Len(input.text) - 1 :
     /\ mode.uxmode /\ input.text[i] = CR /\ input.text[i + 1] = LF
     /\ (i - LineStart(i)) % Chars # 0}

Message ==
  LET kept == SetToSortSeq((1 .. Len(input.text)) \ Dropped, <)
  IN [k \in DOMAIN kept |-> input.text[kept[k]]]

Accounted ==
  pc = "exited" /\ fault = "none" =>
    LET sender == \E i \in DOMAIN input.hdr : input.hdr[i] = "sender"
    IN /\ rcode = CASE input.tag # "line" -> 1
                    [] input.tag = "line" /\ mode.mbox /\ ~sender -> 2
                    [] OTHER -> 0
       /\ out = IF rcode # 0 THEN <<>>
                ELSE (IF mode.mbox THEN <<From>> ELSE <<>>) \o Message

\* econv ends, unless a read fails and it runs without --unix.
Ended == pc = "exited" \/ (pc = "copy" /\ fault = "read" /\ ~mode.uxmode)
=============================================================================
