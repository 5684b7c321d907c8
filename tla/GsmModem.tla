------------------------------ MODULE GsmModem ------------------------------
(***************************************************************************)
(* The dialogue of xgsm.c with a modem: AT commands, each followed by the  *)
(* reading of its response, and the sending of a message, which waits for  *)
(* the modem's prompt first.                                               *)
(*                                                                         *)
(* The bytes from the modem are cut into pieces: the CR LF that opens a    *)
(* line ("nl"), the prompt ("gt"), a final result with its CR LF ("ok",    *)
(* "error"), any other text with its CR LF ("text"), and what is left of   *)
(* a line whose first bytes were read by xgsm_want_reply ("rest").  A read *)
(* may return any number of the pieces that are there.                     *)
(***************************************************************************)
EXTENDS SmsPdu

CONSTANTS Messages,       \* messages to send: [nbr, scnbr, msg]
          Before, After,  \* commands before and after the message
          MaxTexts        \* bound on unsolicited lines from the modem

VARIABLES
  txt,     \* option -t: the message goes out as text, not as a PDU
  sms,     \* what to send, from the other options
  pc,      \* "flush", "send", "want", "data", "read", "done" or "crashed"
  cmd,     \* number of the command being worked on
  buf,     \* resp: what xgsm_readresp has read
  refused, \* xgsm_want_reply has failed
  rx,      \* pieces on their way from the modem
  tx,      \* what the modem has yet to look at
  mode,    \* the modem's: "command" or "message"
  mixed,   \* commands the modem took for text of the message
  said,    \* what the command that announces the message says of it
  taken,   \* the message as the modem understands it
  texts,   \* unsolicited lines sent
  gone     \* the device is gone

options == <<txt, sms>>
modem == <<tx, mode, mixed, said, taken, texts, gone>>
vars == <<options, pc, cmd, buf, refused, rx, modem>>

Sms == Before + 1
LastCmd == Before + 1 + After

\* A piece, and the command whose answer it is (0: none)
Piece(t, k) == [t |-> t, of |-> k]
Line(t, k) == <<Piece("nl", 0), Piece(t, k)>>
Finals == {"ok", "error"}

Init ==
  /\ txt \in BOOLEAN /\ sms \in Messages
  /\ pc = "flush" /\ cmd = 0 /\ buf = <<>> /\ refused = FALSE
  /\ rx \in {<<>>, Line("text", 0)}
  /\ tx = <<>> /\ mode = "command" /\ mixed = {} /\ said = NULL /\ taken = NULL
  /\ texts = 0 /\ gone = FALSE

-----------------------------------------------------------------------------
(* xgsm.c *)

\* xgsm_flushin reads what there is ...
Flush ==
  /\ pc = "flush" /\ rx # <<>> /\ rx' = <<>>
  /\ UNCHANGED <<options, pc, cmd, buf, refused, modem>>

\* On to the next command: main looks at no result.
NextCommand ==
  /\ cmd' = cmd + 1 /\ buf' = <<>>
  /\ pc' = IF cmd < LastCmd THEN "send" ELSE "done"

\* ... until nothing has come for 500 ms.
FlushEnd ==
  /\ pc = "flush" /\ rx = <<>>
  /\ NextCommand
  /\ UNCHANGED <<options, refused, rx, modem>>

\* A command is written and its response read.
Send ==
  /\ pc = "send" /\ ~gone /\ cmd # Sms
  /\ tx' = Append(tx, [c |-> cmd, data |-> FALSE])
  /\ pc' = "read"
  /\ UNCHANGED <<options, cmd, buf, refused, rx, mode, mixed, said, taken, texts, gone>>

\* xgsm_send_sms encodes the message first, and does nothing when that fails;
\* xgsm_send_txt_sms has nothing to encode.
BadMessage ==
  /\ pc = "send" /\ cmd = Sms /\ ~txt /\ BadNumber(sms)
  /\ NextCommand
  /\ UNCHANGED <<options, refused, rx, modem>>

Crash ==
  /\ pc = "send" /\ cmd = Sms /\ ~txt /\ Crashes(sms)
  /\ pc' = "crashed"
  /\ UNCHANGED <<options, cmd, buf, refused, rx, modem>>

Encoded == txt \/ ~(BadNumber(sms) \/ Crashes(sms))

\* AT+CMGS says the octets of the PDU or, as text, the number and the type of every
\* number, international.  The variant says another type.
TextCommandOther(s) == [da |-> s.nbr.digits, toda |-> 129]
TextCommand(s) == [da |-> s.nbr.digits, toda |-> 145]
Announcement == IF txt THEN TextCommand(sms) ELSE CMGS_PDU_length(create_PDU(sms))

\* What goes to the modem before the ^Z
Payload == IF txt THEN sms.msg ELSE create_PDU(sms)

\* The command that announces the message.
SendSms ==
  /\ pc = "send" /\ ~gone /\ cmd = Sms /\ Encoded
  /\ tx' = Append(tx, [c |-> cmd, data |-> FALSE])
  /\ said' = Announcement
  /\ pc' = "want"
  /\ UNCHANGED <<options, cmd, buf, refused, rx, mode, mixed, taken, texts, gone>>

\* xgsm_write fails.
WriteFails ==
  /\ pc \in {"send", "data"} /\ gone
  /\ pc = "send" /\ cmd = Sms => Encoded
  /\ NextCommand
  /\ UNCHANGED <<options, refused, rx, modem>>

\* The four bytes that are the prompt
Prompt(r) == Len(r) >= 2 /\ r[2].t = "gt"

\* xgsm_want_reply reads four bytes and finds the prompt,
WantOk ==
  /\ pc = "want" /\ Prompt(rx)
  /\ rx' = SubSeq(rx, 3, Len(rx))
  /\ pc' = "data"
  /\ UNCHANGED <<options, cmd, buf, refused, modem>>

\* or the first two letters of something else,
WantMismatch ==
  /\ pc = "want" /\ Len(rx) >= 2 /\ ~Prompt(rx)
  /\ rx' = <<Piece(IF rx[2].t = "ok" THEN "nl" ELSE "rest", 0)>> \o SubSeq(rx, 3, Len(rx))
  /\ refused' = TRUE /\ NextCommand
  /\ UNCHANGED <<options, modem>>

\* or nothing for two seconds.
WantTimeout ==
  /\ pc = "want" /\ rx = <<>>
  /\ refused' = TRUE /\ NextCommand
  /\ UNCHANGED <<options, rx, modem>>

\* The message and the ^Z that ends it
SendData ==
  /\ pc = "data" /\ ~gone
  /\ tx' = Append(tx, [c |-> cmd, data |-> TRUE])
  /\ pc' = "read"
  /\ UNCHANGED <<options, cmd, buf, refused, rx, mode, mixed, said, taken, texts, gone>>

\* xgsm_eoc: the buffer ends in a line that is a final result.  The variants
\* take any line, and only the good result.
EocAny(r) == Len(r) >= 2 /\ r[Len(r)].t # "gt"
EocOk(r) == Len(r) >= 2 /\ r[Len(r)].t = "ok" /\ r[Len(r) - 1].t # "gt"
Eoc(r) == Len(r) >= 2 /\ r[Len(r)].t \in Finals /\ r[Len(r) - 1].t # "gt"

\* One turn of the loop of xgsm_readresp
ReadResp ==
  /\ pc = "read" /\ rx # <<>>
  /\ \E n \in 1 .. Len(rx) :
       /\ buf' = buf \o SubSeq(rx, 1, n)
       /\ rx' = SubSeq(rx, n + 1, Len(rx))
  /\ pc' = IF Eoc(buf') THEN "flush" ELSE "read"
  /\ UNCHANGED <<options, cmd, refused, modem>>

\* The read fails: no response, and no flushing either.  (It may return 0 over and
\* over instead; the loop does not end then.)
ReadFails ==
  /\ pc = "read" /\ gone /\ rx = <<>>
  /\ NextCommand
  /\ UNCHANGED <<options, refused, rx, modem>>

Program ==
  \/ Flush \/ FlushEnd \/ Send \/ BadMessage \/ Crash \/ SendSms \/ WriteFails
  \/ WantOk \/ WantMismatch \/ WantTimeout \/ SendData \/ ReadResp \/ ReadFails

-----------------------------------------------------------------------------
(* The modem *)

\* In command mode a command is answered: the message command with the prompt or
\* an error, any other one with a result, which text may precede.
Answer ==
  /\ tx # <<>> /\ ~gone /\ mode = "command"
  /\ LET k == Head(tx).c
     IN IF k = Sms /\ ~Head(tx).data
        THEN \/ rx' = rx \o Line("gt", k) /\ mode' = "message"
             \/ rx' = rx \o Line("error", k) /\ UNCHANGED mode
        ELSE /\ \E f \in Finals : rx' \in {rx \o Line(f, k), rx \o Line("text", k) \o Line(f, k)}
             /\ UNCHANGED mode
  /\ tx' = Tail(tx)
  /\ UNCHANGED <<options, pc, cmd, buf, refused, mixed, said, taken, texts, gone>>

\* A message in text: 145 makes the number an international one.
DecodeText(c, s) == [nbr |-> [plus |-> c.toda = 145, digits |-> c.da], msg |-> s]

\* In message mode all it gets is text of the message, until a ^Z.
TakeText ==
  /\ tx # <<>> /\ ~gone /\ mode = "message"
  /\ IF Head(tx).data
     THEN /\ \E f \in Finals : rx' = rx \o Line(f, Head(tx).c)
          /\ taken' = IF txt THEN DecodeText(said, Payload) ELSE Decode(said, Payload)
          /\ mode' = "command" /\ UNCHANGED mixed
     ELSE mixed' = mixed \cup {Head(tx).c} /\ UNCHANGED <<rx, mode, taken>>
  /\ tx' = Tail(tx)
  /\ UNCHANGED <<options, pc, cmd, buf, refused, said, texts, gone>>

\* A line that no command asked for.  It is not a final result: NO CARRIER, which
\* xgsm_eoc takes for one, ends a call, and xgsm makes none.
Unsolicited ==
  /\ texts < MaxTexts /\ texts' = texts + 1 /\ ~gone
  /\ rx' = rx \o Line("text", 0)
  /\ UNCHANGED <<options, pc, cmd, buf, refused, tx, mode, mixed, said, taken, gone>>

\* The device goes; a read then returns 0 for ever.
GoAway ==
  /\ ~gone /\ gone' = TRUE
  /\ UNCHANGED <<options, pc, cmd, buf, refused, rx, tx, mode, mixed, said, taken, texts>>

Next == Program \/ Answer \/ TakeText \/ Unsolicited \/ GoAway

Spec == Init /\ [][Next]_vars

\* The program runs, and the modem deals with what it is sent.
FairSpec == Spec /\ WF_vars(Program) /\ WF_vars(Answer \/ TakeText)

-----------------------------------------------------------------------------
(* Properties *)

\* A response taken as complete ends in the result of the command that was sent,
\* whatever unsolicited lines came before or in it, as long as xgsm_want_reply has
\* not given up; from then on it may be the result of an earlier command, since
\* nothing is flushed on that path.
OwnResult ==
  pc = "flush" /\ buf # <<>> =>
    \/ buf[Len(buf)].of = cmd
    \/ refused /\ buf[Len(buf)].of \in Sms .. cmd

\* As a PDU, the modem gets the number and the text that were asked for, out of as many
\* octets as were announced to it; the length of the text is kept in eight bits and not
\* checked, so that of a longer one the first Len % 256 characters remain.  As text, it
\* gets the text and the digits, of an international number whether or not a + was
\* asked for.
\* And it takes a command for text of the message only after the program gave up
\* waiting for the prompt, since it does not leave the message mode then.
MessageArrives ==
  /\ taken # NULL =>
       /\ taken.nbr = [sms.nbr EXCEPT !.plus = @ \/ txt]
       /\ taken.msg = IF txt THEN sms.msg ELSE SubSeq(sms.msg, 1, Len(sms.msg) % 256)
  /\ mixed # {} => refused
  /\ \A i \in DOMAIN tx : tx[i].data => mode = "message" /\ Len(tx) = 1

\* The program is waiting for a result it will not get: the device is gone, the
\* result was read together with a later line and was not the last of the buffer,
\* or the modem is in message mode because the prompt was not waited for.
Hopeless ==
  \/ gone
  \/ \E i \in 1 .. Len(buf) - 1 : buf[i].t \in Finals
  \/ refused /\ mode = "message"

\* In every other case all commands are worked through, unless a character of the
\* text has more than seven bits.
Finishes == <>(pc = "done" \/ Hopeless \/ (pc = "crashed" /\ ~SevenBit(sms.msg)))
=============================================================================
