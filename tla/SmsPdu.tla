------------------------------- MODULE SmsPdu -------------------------------
(***************************************************************************)
(* The encoding of a message by xgsm.c, and its decoding by the modem as   *)
(* the GSM 03.40 layout that the code writes defines it.                   *)
(*                                                                         *)
(* A number is [plus, digits], a digit above 9 being any other character;  *)
(* a text is a sequence of character codes; NULL is the empty sequence of  *)
(* the C functions that fail.                                              *)
(***************************************************************************)
EXTENDS Integers, Sequences, SequencesExt, FiniteSetsExt

CONSTANTS NULL

AllDigits(nbr) == \A d \in ToSet(nbr) : d <= 9
SevenBit(data) == \A c \in ToSet(data) : c <= 127

\* Octets of a number: two digits each, the first one low; F fills an odd one up.
\* The variant swaps the digits.
code_number_swapped(nbr) ==
  IF ~AllDigits(nbr) THEN NULL
  ELSE [i \in 1 .. (Len(nbr) + 1) \div 2 |->
          16 * nbr[2 * i - 1] + (IF 2 * i <= Len(nbr) THEN nbr[2 * i] ELSE 15)]
code_number(nbr) ==
  IF ~AllDigits(nbr) THEN NULL
  ELSE [i \in 1 .. (Len(nbr) + 1) \div 2 |->
          nbr[2 * i - 1] + 16 * (IF 2 * i <= Len(nbr) THEN nbr[2 * i] ELSE 15)]

\* The loop of xgsm_pack7: character i, counted from 0, and the low bits of its
\* successor (the 0 that ends the string is the last one's) make an octet, except
\* for every eighth character, whose bits are all in the octet before.
pack7(data) ==
  LET at(i) == IF i < Len(data) THEN data[i + 1] ELSE 0
      octet(i) == LET s == i % 8
                  IN at(i) \div 2^s + (at(i + 1) % 2^(s + 1)) * 2^(7 - s)
      idx == SelectSeq([k \in 1 .. Len(data) |-> k - 1], LAMBDA i : i % 8 < 7)
  IN IF ~SevenBit(data) THEN NULL
     ELSE [k \in DOMAIN idx |-> octet(idx[k])]

\* Validity period in the units of its range
get_vt(mins) ==
  LET weeks == mins \div (60 * 24 * 7)  days == mins \div (60 * 24)
      halves == mins \div 30
  IN CASE weeks >= 5 -> 192 + weeks
       [] weeks < 5 /\ days >= 2 -> 166 + days
       [] weeks < 5 /\ days < 2 /\ halves >= 24 -> 143 + halves - 24
       [] OTHER -> mins \div 5

Type(n) == IF n.plus THEN 145 ELSE 129

\* The octets of xgsm_create_PDU; s.scnbr is the service centre's number, if any.
\* The fields of one octet keep their low eight bits.
create_PDU(s) ==
  LET sc == IF s.scnbr = NULL THEN <<0>>
            ELSE <<(1 + Len(code_number(s.scnbr.digits))) % 256, Type(s.scnbr)>>
                   \o code_number(s.scnbr.digits)
      text == IF SevenBit(s.msg) THEN pack7(s.msg) ELSE <<>>
  IN sc \o <<17, 0, Len(s.nbr.digits) % 256, Type(s.nbr)>> \o code_number(s.nbr.digits)
        \o <<0, 0, get_vt(60 * 24), Len(s.msg) % 256>> \o text

\* It fails on a number with something else than digits in it ...
BadNumber(s) ==
  \/ s.scnbr # NULL /\ ~AllDigits(s.scnbr.digits)
  \/ ~AllDigits(s.nbr.digits)

\* ... but copies as many octets as the number has from the packed text without a
\* look at whether that is there.
Crashes(s) == ~BadNumber(s) /\ ~SevenBit(s.msg) /\ s.nbr.digits # <<>>

\* What is announced to the modem: the octets behind the service centre's
CMGS_PDU_length(pdu) == Len(pdu) - pdu[1] - 1

-----------------------------------------------------------------------------
(* The modem's side *)

Nibble(octets, i) == (octets[(i + 1) \div 2] \div (IF i % 2 = 1 THEN 1 ELSE 16)) % 16

\* Character k, from 0, of a packed text: seven bits from bit 7 * k on
Septet(octets, k) ==
  LET o == (7 * k) \div 8 + 1
      word == octets[o] + 256 * (IF o < Len(octets) THEN octets[o + 1] ELSE 0)
  IN (word \div 2^((7 * k) % 8)) % 128

\* The number and the text in a PDU with length octets announced; NULL when the
\* count is not right.
Decode(length, pdu) ==
  LET tp == SubSeq(pdu, pdu[1] + 2, Len(pdu))
      n == tp[3]
      ud == 5 + (n + 1) \div 2 + 3      \* where the length of the text is
      text == SubSeq(tp, ud + 1, Len(tp))
  IN IF Len(tp) # length THEN NULL
     ELSE [nbr |-> [plus |-> tp[4] = 145,
                    digits |-> [i \in 1 .. n |-> Nibble(SubSeq(tp, 5, ud - 4), i)]],
           msg |-> [k \in 1 .. tp[ud] |-> Septet(text, k - 1)]]
=============================================================================
