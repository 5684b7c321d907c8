---------------------------- MODULE MCGsmModem ----------------------------
EXTENDS GsmModem

\* Numbers with and without a +, and texts of printable characters: a ^Z or ESC would end
\* the message.
Number(plus, digits) == [plus |-> plus, digits |-> digits]
Text(n) == [i \in 1 .. n |-> 32 + ((37 * i) % 96)]

\* Numbers of odd and even length, with and without a service centre; texts around
\* a group of eight characters, one longer than an octet counts, one with a
\* character of eight bits, and a number that is none
MCMessages ==
  {[nbr |-> Number(TRUE, <<3, 9, 0, 1, 7>>), scnbr |-> NULL, msg |-> Text(n)] : n \in {0, 1, 7, 8, 9}}
  \cup {[nbr |-> Number(FALSE, <<4, 2>>), scnbr |-> Number(TRUE, <<3, 9, 5>>), msg |-> Text(n)] : n \in {16, 257}}
  \cup {[nbr |-> Number(FALSE, <<4, 2>>), scnbr |-> NULL, msg |-> <<65, 200>>],
        [nbr |-> Number(FALSE, <<4, 10>>), scnbr |-> NULL, msg |-> <<65>>]}
===========================================================================
