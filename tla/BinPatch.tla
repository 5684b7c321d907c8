------------------------------ MODULE BinPatch ------------------------------
(***************************************************************************)
(* binpatch.c: finds the places where the match bytes are in a file, one   *)
(* byte at a time and going back after a mismatch, and copies the file     *)
(* with the patch bytes in their place.  The match is not empty: without   *)
(* match bytes the program would compare with an unset buffer.  The file   *)
(* is one that can be sought in.                                           *)
(***************************************************************************)
EXTENDS Integers, Sequences, SequencesExt, FiniteSets

CONSTANTS Bytes,      \* bytes of the file and of the match
          MaxFile,    \* bound on the file's size
          MaxMatch,   \* bound on the match's size
          MaxMatches, \* entries of matches[]
          MaxLost     \* bound on the bytes that failing writes lose

VARIABLES
  program, pc,
  file, match_buf, patch_size,
  dry_run, answer, \* -d, and whether the user answers y
  fpos,            \* fin's offset
  match_pos, matches,
  m, patched,      \* matches used, and the output
  status,          \* exit code
  short,           \* history: the loops, "search" and "patch", that fgetc() ended early
  lost             \* history: bytes of the output that a failing write has lost

vars == <<program, pc, file, match_buf, patch_size, dry_run, answer, fpos,
          match_pos, matches, m, patched, status, short, lost>>

Programs == {"binpatch"}

Patch == "patch"  \* a byte of the patch, unlike any of the file

inputs == <<program, file, match_buf, patch_size, dry_run, answer>>
faults == <<short, lost>>

Init ==
  /\ program \in Programs
  /\ file \in BoundedSeq(Bytes, MaxFile)
  /\ match_buf \in BoundedSeq(Bytes, MaxMatch) \ {<<>>}
  /\ patch_size \in {Len(match_buf), Len(match_buf) - 1}
  /\ dry_run \in BOOLEAN /\ answer \in BOOLEAN
  /\ pc = "check" /\ fpos = 0
  /\ match_pos = 0 /\ matches = <<>>
  /\ m = 0 /\ patched = <<>> /\ status = 0
  /\ short = {} /\ lost = {}

CheckSizes ==
  /\ pc = "check"
  /\ IF patch_size = Len(match_buf)
     THEN pc' = "search" /\ UNCHANGED status
     ELSE pc' = "exited" /\ status' = 2
  /\ UNCHANGED <<inputs, fpos, match_pos, matches, m, patched, faults>>

-----------------------------------------------------------------------------
(* The search.  matches[match_count] is set when a match begins, so the    *)
(* last entry is of no account while match_pos is not 0.                   *)

Count == IF match_pos = 0 THEN Len(matches) ELSE Len(matches) - 1

\* Where the search goes on after a mismatch; the variants do not go back, and go
\* back to where the failed match began.
ResumeOn(start) == fpos + 1
ResumeSame(start) == start
Resume(start) == start + 1

SearchByte ==
  /\ pc = "search" /\ Count < MaxMatches /\ fpos < Len(file)
  /\ IF match_buf[match_pos + 1] = file[fpos + 1]
     THEN /\ matches' = IF match_pos = 0 THEN Append(matches, fpos) ELSE matches
          /\ match_pos' = (match_pos + 1) % Len(match_buf)
          /\ fpos' = fpos + 1
     ELSE IF match_pos > 0
     THEN /\ matches' = Front(matches)
          /\ match_pos' = 0
          /\ fpos' = Resume(Last(matches))
     ELSE /\ fpos' = fpos + 1
          /\ UNCHANGED <<match_pos, matches>>
  /\ UNCHANGED <<inputs, pc, m, patched, status, faults>>

\* After the search: the question, and rewind().
Ask ==
  /\ matches' = SubSeq(matches, 1, Count)
  /\ match_pos' = 0 /\ fpos' = 0
  /\ pc' = IF ~dry_run /\ answer THEN "patch" ELSE "exited"
  /\ status' = IF ~dry_run /\ ~answer THEN 5 ELSE 0
  /\ UNCHANGED <<inputs, m, patched, lost>>

\* The end of the file or a full table
SearchEnd ==
  /\ pc = "search" /\ (Count = MaxMatches \/ fpos = Len(file))
  /\ Ask /\ UNCHANGED short

\* A read fails: fgetc() returns EOF as at the end.
SearchShort ==
  /\ pc = "search" /\ Count < MaxMatches /\ fpos < Len(file)
  /\ Ask /\ short' = short \cup {"search"}

\* The input, or the output, cannot be opened.
OpenError ==
  /\ pc = "search" /\ fpos = 0 /\ match_pos = 0
  /\ pc' = "exited" /\ status' = 3
  /\ UNCHANGED <<inputs, fpos, match_pos, matches, m, patched, faults>>

OutputError ==
  /\ pc = "patch" /\ fpos = 0
  /\ pc' = "exited" /\ status' = 4
  /\ UNCHANGED <<inputs, fpos, match_pos, matches, m, patched, faults>>

-----------------------------------------------------------------------------
(* The copy *)

\* fputc() of n bytes from b on.  Some may be lost, now or when what is left is written
\* in fclose() or at the exit: nobody looks.
Put(n, b) ==
  \E L \in SUBSET (fpos + 1 .. fpos + n) :
    /\ Cardinality(lost \cup L) <= MaxLost
    /\ lost' = lost \cup L
    /\ patched' = patched \o [j \in 1 .. n - Cardinality(L) |-> b]

CopyByte ==
  /\ pc = "patch" /\ fpos < Len(file)
  /\ IF m < Len(matches) /\ fpos = matches[m + 1]
     THEN Put(patch_size, Patch) /\ fpos' = fpos + patch_size /\ m' = m + 1
     ELSE Put(1, file[fpos + 1]) /\ fpos' = fpos + 1 /\ UNCHANGED m
  /\ UNCHANGED <<inputs, pc, match_pos, matches, status, short>>

Close ==
  /\ pc = "patch" /\ fpos = Len(file)
  /\ pc' = "exited"
  /\ UNCHANGED <<inputs, fpos, match_pos, matches, m, patched, status, faults>>

\* fgetc() returns EOF before the end: a read fails, or the output is the input, which
\* fopen() has just emptied (what fin still has of it in its buffer is read).
CloseShort ==
  /\ pc = "patch" /\ fpos < Len(file)
  /\ pc' = "exited" /\ short' = short \cup {"patch"}
  /\ UNCHANGED <<inputs, fpos, match_pos, matches, m, patched, status, lost>>

Main == CheckSizes \/ SearchByte \/ SearchEnd \/ CopyByte \/ Close

Next == Main \/ SearchShort \/ CloseShort \/ OpenError \/ OutputError

-----------------------------------------------------------------------------
(* What the program is held to *)

\* The offsets the match is at
Occurrences ==
  {o \in 0 .. Len(file) - Len(match_buf) :
     SubSeq(file, o + 1, o + Len(match_buf)) = match_buf}

\* Taken from the left, without overlaps: each occurrence is taken, or overlaps one
\* that was taken before it.
Leftmost(S) ==
  /\ S \subseteq Occurrences
  /\ \A o \in Occurrences :
       (o \in S) <=> ~\E b \in S : b < o /\ o < b + Len(match_buf)

\* What is patched: the first MaxMatches of these
Taken ==
  LET all == CHOOSE S \in SUBSET Occurrences : Leftmost(S)
  IN {o \in all : Cardinality({b \in all : b < o}) < MaxMatches}

\* The file with the matches found patched, as far as it was copied and less what
\* failing writes lost
Found == ToSet(matches)
Output ==
  LET full == [i \in 1 .. Len(file) |->
                 IF \E o \in Found : i - 1 \in o .. o + Len(match_buf) - 1
                 THEN Patch ELSE file[i]]
      kept == SetToSortSeq((1 .. fpos) \ lost, <)
  IN [k \in DOMAIN kept |-> full[kept[k]]]

\* The matches are the first of these, all of them unless a read failed in the search;
\* and the output is the whole file with these patched unless a read or a write failed.
\* The status is 0 all the same.
Accounted ==
  pc = "exited" /\ status = 0 =>
    /\ Found \subseteq Taken
    /\ \A o \in Taken \ Found : "search" \in short /\ \A b \in Found : b < o
    /\ patched = IF dry_run THEN <<>> ELSE Output
    /\ dry_run \/ "patch" \in short \/ fpos = Len(file)

Ended == pc = "exited"
=============================================================================
