----------------------------- MODULE MemIsZero -----------------------------
(***************************************************************************)
(* memiszero.c: is a piece of memory all zeros?  memiszero looks at eight  *)
(* bytes at a time, memiszero_32 at four, with single bytes up to the      *)
(* first word boundary and after the last one; memiszero_loop at single    *)
(* bytes.  Memory is the set of the addresses that are not zero.           *)
(***************************************************************************)
EXTENDS Integers

CONSTANT MaxSize  \* bound on the size of the piece

VARIABLES
  program, pc,
  base, size,  \* the arguments
  nonzero,     \* addresses of bytes that are not zero
  p, n, z,     \* the locals
  seen,        \* history: addresses read
  zero         \* the result

vars == <<program, pc, base, size, nonzero, p, n, z, seen, zero>>

Programs == {"memiszero", "memiszero_32", "memiszero_loop"}

Word == CASE program = "memiszero" -> 8
          [] program = "memiszero_32" -> 4
          [] program = "memiszero_loop" -> 1

\* At most one byte is not zero, in the piece or right beside it.
Init ==
  /\ program \in Programs
  /\ base \in 8 .. 15 /\ size \in 0 .. MaxSize
  /\ nonzero \in {{a} : a \in base - 8 .. base + size + 7} \cup {{}}
  /\ pc = "head"
  /\ p = base /\ n = size /\ z = FALSE
  /\ seen = {} /\ zero = FALSE

args == <<program, base, size, nonzero>>

Return(v) == pc' = "done" /\ zero' = v

\* The switch with its fall-through: c bytes from p on
TakeBytes(c) ==
  /\ seen' = seen \cup (p .. p + c - 1)
  /\ z' = (z \/ (p .. p + c - 1) \cap nonzero # {})
  /\ p' = p + c

-----------------------------------------------------------------------------

\* The end of the words; the variant forgets that p need not be on a boundary.
WordsEndFromP == p + (n - (n % Word))
WordsEnd == (base + size) - ((base + size) % Word)

\* Up to the boundary, unless the piece is smaller than a word
Head ==
  /\ pc = "head"
  /\ IF n < Word
     THEN pc' = "tail" /\ UNCHANGED <<p, n, z, seen, zero>>
     ELSE /\ n' = (p + n) % Word
          /\ TakeBytes((-p) % Word)
          /\ IF z' THEN Return(FALSE) ELSE pc' = "words" /\ UNCHANGED zero
  /\ UNCHANGED args

Words ==
  /\ pc = "words"
  /\ IF p < WordsEnd
     THEN /\ seen' = seen \cup (p .. p + Word - 1)
          /\ IF (p .. p + Word - 1) \cap nonzero # {}
             THEN Return(FALSE) /\ UNCHANGED p
             ELSE p' = p + Word /\ UNCHANGED <<pc, zero>>
     ELSE pc' = "tail" /\ UNCHANGED <<p, seen, zero>>
  /\ UNCHANGED <<args, n, z>>

Tail ==
  /\ pc = "tail"
  /\ TakeBytes(n)
  /\ n' = n
  /\ Return(~z')
  /\ UNCHANGED args

Main == Head \/ Words \/ Tail

Next == Main

-----------------------------------------------------------------------------
(* What the functions are held to *)

Piece == base .. base + size - 1

\* The result is right, and no byte outside the piece is read.
Accounted ==
  /\ seen \subseteq Piece
  /\ pc = "done" => (zero <=> Piece \cap nonzero = {})

Ended == pc = "done"
=============================================================================
