----------------------------- MODULE SendSerie -----------------------------
(***************************************************************************)
(* send-serie.pl: a series of patches is parsed, and then either sent to   *)
(* an SMTP server, command by command, or written as a mailbox.            *)
(*                                                                         *)
(* A header of a patch is NULL when it is not there, else the sequence of  *)
(* the addresses in it.  A line of the text is "text", "from" (it starts   *)
(* with From), "dot" (a single dot), "dots" (two dots), "dotted" (a dot    *)
(* and more), "rest" (such a line without its dot), "empty" or "quoted".   *)
(* The last line of a file ends with a newline, like the others.           *)
(***************************************************************************)
EXTENDS Integers, Sequences

CONSTANTS NULL,
          Series,    \* command lines: sequences of patches
          Commons    \* files for -c: a patch, or NULL

\* What is read from a file: its headers and the lines of its text
LineKinds == {"text", "from", "dot", "dots", "dotted", "rest", "empty", "quoted"}
Patches ==
  LET header == Seq(STRING) \cup {NULL}
  IN [file : STRING, subject : BOOLEAN, from : header, to : header, cc : header,
      bcc : header, data : Seq(LineKinds)]

VARIABLES
  mbox, login,  \* options -b, and -u with -p
  patchbase,    \* 0 with option -i
  patches,      \* the files on the command line, in their order
  common,       \* the file of option -c
  pc,           \* the command about to be sent or answered, "parse", "build" or "exit"
  asked,        \* the command of pc was written
  p,            \* the patch in work, as its place in patches
  todo,         \* recipients still to be named
  exit,         \* exit status
  lines, eof,   \* what comes from the server, and whether it has closed
  rcpts,        \* the server's: recipients of the transaction
  accepted      \* messages the server has taken, or that are in the mailbox;
                \* NULL for one of which the mailbox has not all

options == <<mbox, login, patchbase, patches, common>>
server == <<lines, eof, rcpts, accepted>>
vars == <<options, pc, asked, p, todo, exit, server>>

Init ==
  /\ mbox \in BOOLEAN /\ login \in BOOLEAN /\ patchbase \in {0, 1}
  /\ patches \in Series /\ common \in Commons
  /\ pc \in IF mbox THEN {"parse"} ELSE {"banner", "exit"}
  /\ asked = (pc = "banner")
  /\ exit = IF pc = "exit" THEN 3 ELSE -1  \* no log file, no work
  /\ p = 1 /\ todo = <<>>
  /\ lines = <<>> /\ eof = FALSE /\ rcpts = <<>> /\ accepted = <<>>

Exit(code) == pc' = "exit" /\ exit' = code

-----------------------------------------------------------------------------
(* parse_patch and merge_headers *)

\* What parse_patch does to a line of the text: the mailbox must not find its own
\* separator in it, the server not the end of the message.  The variant leaves
\* the lines as they are.
QuotedNot(l) == l
Quoted(l) ==
  CASE mbox /\ l = "from" -> "quoted"
    [] ~mbox /\ l = "dot" -> "dots"
    [] OTHER -> l

\* The common headers are appended to the patch's, or are all there is; their From
\* replaces the patch's.
Merged(f, h) ==
  IF common = NULL \/ common[f] = NULL THEN h[f]
  ELSE IF h[f] = NULL THEN common[f] ELSE h[f] \o common[f]
From(h) == IF common # NULL /\ common.from # NULL THEN common.from ELSE h.from
Subject(h) == h.subject \/ (common # NULL /\ common.subject)
Data(h) == h.data \o (IF common = NULL THEN <<>> ELSE common.data)

\* The file of a patch, or of the common headers, is not there or not a patch.
Unparsable(h) == h # NULL /\ h.file # "ok"

\* All files are read before the first patch is sent.
Parse ==
  /\ pc = "parse"
  /\ IF \/ patches = <<>>
        \/ Unparsable(common)
        \/ \E i \in DOMAIN patches : Unparsable(patches[i])
     THEN Exit(1)
     ELSE pc' = "build" /\ UNCHANGED exit
  /\ UNCHANGED <<options, asked, p, todo, server>>

-----------------------------------------------------------------------------
(* The loop over the patches *)

Fields == {"to", "cc", "bcc"}

\* From and To must be there with an address, Cc and Bcc have one if there.
Complete(h) ==
  /\ Subject(h)
  /\ From(h) \notin {NULL, <<>>}
  /\ Merged("to", h) # NULL
  /\ \A f \in Fields : Merged(f, h) # <<>>

Addresses(f, h) == IF Merged(f, h) = NULL THEN <<>> ELSE Merged(f, h)
Recipients(h) == Addresses("to", h) \o Addresses("cc", h) \o Addresses("bcc", h)

\* The number of the patch at place i
Number(i) == patchbase + i - 1

\* The message of the patch at place i to the recipients to, its text being data
Message(i, to, data) == [n |-> Number(i), of |-> i, to |-> to, data |-> data]

\* The top of the loop: the checks, and the text put together.  For the mailbox the
\* results of the prints are not looked at, and the disk may be full.
Build ==
  /\ pc = "build" /\ p <= Len(patches)
  /\ IF ~Complete(patches[p]) THEN Exit(1) /\ UNCHANGED <<p, todo, accepted>>
     ELSE IF mbox
     THEN /\ \E m \in {NULL, Message(p, <<>>,
                    [k \in DOMAIN Data(patches[p]) |-> Quoted(Data(patches[p])[k])])} :
               accepted' = Append(accepted, m)
          /\ p' = p + 1
          /\ UNCHANGED <<pc, todo, exit>>
     ELSE /\ pc' = "mail" /\ todo' = Recipients(patches[p])
          /\ UNCHANGED <<p, exit, accepted>>
  /\ UNCHANGED <<options, asked, lines, eof, rcpts>>

\* After the last patch
Finish ==
  /\ pc = "build" /\ p > Len(patches)
  /\ IF mbox THEN Exit(0) ELSE pc' = "quit" /\ UNCHANGED exit
  /\ UNCHANGED <<options, asked, p, todo, server>>

-----------------------------------------------------------------------------
(* smtp_chat and smtp_resp *)

Commands == {"banner", "ehlo", "auth", "user", "pass", "mail", "rcpt", "data", "body", "quit"}

\* The class of codes a command must be answered with
Class(c) == IF c \in {"auth", "user", "data"} THEN 3 ELSE 2

Ask ==
  /\ pc \in Commands /\ ~asked
  /\ asked' = TRUE /\ lines' = <<>>
  /\ UNCHANGED <<options, pc, p, todo, exit, eof, rcpts, accepted>>

\* Where the script goes after the answer to command c
After(c) ==
  CASE c = "banner" -> "ehlo"
    [] c = "ehlo" -> IF login THEN "auth" ELSE "parse"
    [] c = "auth" -> "user"
    [] c = "user" -> "pass"
    [] c = "pass" -> "parse"
    [] c = "mail" -> "rcpt"
    [] c = "rcpt" -> IF Len(todo) > 1 THEN "rcpt" ELSE "data"
    [] c = "data" -> "body"
    [] c = "body" -> "build"
    [] c = "quit" -> "exit"

LastLine == lines[Len(lines)]

\* The answer is there: a last line, a line that is none, or the end of the input.
Answered == eof \/ (lines # <<>> /\ (~LastLine.more \/ LastLine.code = 0))

\* It is the code of the last line that counts, also of one that the end of the
\* input made the last; without a line there is none.  The variant lets that pass.
RefusedByCode == lines # <<>> /\ LastLine.code # Class(pc)
Refused == lines = <<>> \/ LastLine.code # Class(pc)

Resp ==
  /\ pc \in Commands /\ asked /\ Answered
  /\ asked' = FALSE
  /\ IF Refused
     THEN Exit(2) /\ UNCHANGED <<p, todo>>
     ELSE /\ pc' = After(pc)
          /\ exit' = IF pc = "quit" THEN 0 ELSE exit
          /\ todo' = IF pc = "rcpt" THEN Tail(todo) ELSE todo
          /\ p' = IF pc = "body" THEN p + 1 ELSE p
  /\ lines' = <<>>
  /\ UNCHANGED <<options, eof, rcpts, accepted>>

Script == Parse \/ Build \/ Finish \/ Ask \/ Resp

-----------------------------------------------------------------------------
(* The SMTP server *)

\* The text as the server takes it off the wire: up to the line that is a single
\* dot, and without the first dot of any other line that starts with one.
OnWire ==
  [k \in DOMAIN Data(patches[p]) |-> Quoted(Data(patches[p])[k])] \o <<"empty", "dot">>
Unquoted(l) == CASE l = "dots" -> "dot" [] l = "dotted" -> "rest" [] OTHER -> l
Taken(s) ==
  LET end == CHOOSE k \in DOMAIN s : s[k] = "dot" /\ \A j \in 1 .. k - 1 : s[j] # "dot"
  IN [k \in 1 .. end - 1 |-> Unquoted(s[k])]

\* It does what it is asked for.
Obey ==
  /\ rcpts' = CASE pc = "mail" -> <<>>
                [] pc = "rcpt" -> Append(rcpts, Head(todo))
                [] OTHER -> rcpts
  /\ accepted' = IF pc = "body" THEN Append(accepted, Message(p, rcpts, Taken(OnWire)))
                 ELSE accepted

Awaiting == pc \in Commands /\ asked /\ ~eof /\ lines = <<>>

\* It answers with one line or with two, good or bad, or with what is no answer.
Reply ==
  /\ Awaiting
  /\ \/ /\ Obey
        /\ \E first \in {<<>>, <<[code |-> Class(pc), more |-> TRUE]>>} :
             lines' = first \o <<[code |-> Class(pc), more |-> FALSE]>>
     \/ /\ lines' \in {<<[code |-> 5, more |-> FALSE]>>, <<[code |-> 0, more |-> TRUE]>>}
        /\ UNCHANGED <<rcpts, accepted>>
  /\ UNCHANGED <<options, pc, asked, p, todo, exit, eof>>

\* The connection breaks, before or after the server has done what it was asked
\* for, and possibly in the middle of an answer.
Break ==
  /\ Awaiting
  /\ eof' = TRUE
  /\ \/ Obey /\ lines' \in {<<>>, <<[code |-> Class(pc), more |-> TRUE]>>}
     \/ UNCHANGED <<rcpts, accepted, lines>>
  /\ UNCHANGED <<options, pc, asked, p, todo, exit>>

Next == Script \/ Reply \/ Break

-----------------------------------------------------------------------------
(* Properties *)

\* A line of the text as it is read in the end: in a mailbox it never starts with
\* From; a mail server gives back a single dot, but of other lines with a dot at
\* their start, which the script does not double, it takes the dot away.
Arrives(l) ==
  IF mbox THEN (IF l = "from" THEN "quoted" ELSE l)
  ELSE CASE l = "dots" -> "dot" [] l = "dotted" -> "rest" [] OTHER -> l

\* "The patches specified in the send-serie.pl command lines are sent in the order
\* they appear in the command line": what was sent is at any time a beginning of the
\* series, numbered from patchbase on, each patch once, complete (with an empty
\* line more), and to all the recipients of its own and the common headers, whatever
\* the server does.  In a mailbox a message may be cut or missing whose print failed.
SentInOrder ==
  \A i \in DOMAIN accepted :
    /\ i <= Len(patches)
    /\ \/ mbox /\ accepted[i] = NULL
       \/ accepted[i] = Message(i, IF mbox THEN <<>> ELSE Recipients(patches[i]),
                             [k \in DOMAIN Data(patches[i]) |-> Arrives(Data(patches[i])[k])]
                               \o (IF mbox THEN <<>> ELSE <<"empty">>))

\* The exit status 0 says that the whole series was sent, however the connection
\* ended, or printed to the mailbox, as far as the prints went well.  Any other one
\* leaves a beginning of it sent: no patch at all when a file could not be parsed,
\* else those before p, and p itself only if the server took it and its answer was
\* lost.
StatusTells ==
  /\ exit = 0 => Len(accepted) = Len(patches)
  /\ Len(accepted) \in {p - 1, p}
  /\ Len(accepted) = p => pc \in {"body", "exit"}
  /\ Unparsable(common) \/ (\E i \in DOMAIN patches : Unparsable(patches[i]))
       => accepted = <<>>
=============================================================================
