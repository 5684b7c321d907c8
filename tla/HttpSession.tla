---------------------------- MODULE HttpSession ----------------------------
(***************************************************************************)
(* One connection of either web server: process_session of thrplhttp.c, or *)
(* thproc of thrhttp.c, over the line reader of the server's own buffered  *)
(* stream.  The loops over request heads are the same code; the readers    *)
(* differ:                                                                 *)
(*   - in thrplhttp.c bstream_readln calls recv() at most once, so a line  *)
(*     that is still incomplete afterwards is reported as end of input;    *)
(*   - in thrhttp.c it grows the line over as many recv() calls as it      *)
(*     takes, and gives out what it has when the client closes inside one. *)
(*                                                                         *)
(* The client writes a script of lines; recv() cuts it wherever it likes.  *)
(* A byte is Mid, any byte inside a line, or a line feed; the line feed    *)
(* carries what the line says (its kind).                                  *)
(***************************************************************************)
EXTENDS Integers, Sequences, SequencesExt

CONSTANTS Mid,      \* a byte that is not a line feed
          Scripts,  \* what clients send: sequences of [kind, len] lines
          BufSize,  \* BSTREAM_BUFSIZE
          ReqSize   \* the size of req[] in process_session, half of BufSize

-----------------------------------------------------------------------------
(* The request heads, and what a client may expect for them *)

\* Request lines: a GET of an existing document, of a missing one, with the
\* version HTTP/1.1 or another one; anything else where a request is expected
\* is bad.  Header lines the server looks at, any other one, the empty line.
Requests == {"get11", "get10", "miss11"}
Headers == {"close", "keep", "length", "length0", "chunked", "identity"}
Kinds == Requests \cup Headers \cup {"other", "blank"}

Bytes(line) == [i \in 1 .. line.len |-> IF i = line.len THEN line.kind ELSE Mid]
Stream(s) == FlattenSeq([i \in 1 .. Len(s) |-> Bytes(s[i])])

HasLine(b) == \E i \in DOMAIN b : b[i] # Mid
LineEnd(b) == CHOOSE i \in DOMAIN b : b[i] # Mid /\ \A j \in 1 .. i - 1 : b[j] = Mid

LastOf(lines, S, default) ==
  LET P == {i \in DOMAIN lines : lines[i].kind \in S}
  IN IF P = {} THEN default ELSE lines[CHOOSE i \in P : \A j \in P : j <= i].kind

\* The answer to a request head that starts with the lines given.
Reply(lines) ==
  LET first == lines[1].kind
      end == CHOOSE i \in DOMAIN lines :
               /\ lines[i].kind = "blank"
               /\ \A j \in 1 .. i - 1 : lines[j].kind # "blank"
      hdrs == SubSeq(lines, 2, end)
      conn == LastOf(hdrs, {"close", "keep"}, IF first = "get10" THEN "close" ELSE "keep")
  IN IF \/ first \notin Requests
        \/ LastOf(hdrs, {"length", "length0"}, "length0") = "length"
        \/ LastOf(hdrs, {"chunked", "identity"}, "identity") = "chunked"
     THEN <<"400", "close">>
     ELSE <<IF first = "miss11" THEN "404" ELSE "200", conn>>

\* The answers, one per head
Replies(s) ==
  LET Starts == {1} \cup {i + 1 : i \in {j \in 1 .. Len(s) - 1 : s[j].kind = "blank"}}
      start == SetToSortSeq(Starts, <)
  IN [i \in DOMAIN start |-> Reply(SubSeq(s, start[i], Len(s)))]

-----------------------------------------------------------------------------
(* A session *)

VARIABLES
  server,   \* "thrplhttp" or "thrhttp"
  script,   \* the lines of this client
  sent,     \* how many bytes of them it sends before it closes
  wire,     \* bytes sent and not yet received
  buf,      \* the unread bytes at buf + ridx
  ridx,     \* bstr->ridx (followed for thrplhttp only)
  ln,       \* the line that bstream_readln of thrhttp has so far
  tried,    \* this call of bstream_readln will not call recv() again
  pc,
  cclose, clen, chunked,  \* locals of the loop over heads
  status,   \* what send_url will answer
  stopsvr,
  reqs,     \* requests this session has counted
  answers,  \* what was written to the client
  whole,    \* history: every recv() that returned data had a line feed in it
  failed,   \* history: a recv() returned -1
  cut,      \* history: answers at the first time the header loop was left
            \* without its empty line, or -1
  overrun   \* history: the answers whose request line did not fit in req[]

client == <<server, script, sent>>
reader == <<wire, buf, ridx, ln, tried>>
head == <<cclose, clen, chunked, status>>
history == <<whole, failed, cut, overrun>>
vars == <<client, reader, pc, head, stopsvr, reqs, answers, history>>

Init ==
  /\ server \in {"thrplhttp", "thrhttp"}
  /\ script \in Scripts
  /\ sent \in 0 .. Len(Stream(script))
  /\ wire = SubSeq(Stream(script), 1, sent)
  /\ buf = <<>> /\ ridx = 0 /\ ln = <<>> /\ tried = FALSE
  /\ pc = "request"
  /\ cclose = FALSE /\ clen = FALSE /\ chunked = FALSE /\ status = "200"
  /\ stopsvr = FALSE /\ reqs = 0 /\ answers = <<>>
  /\ whole = TRUE /\ failed = FALSE /\ cut = -1 /\ overrun = {}

-----------------------------------------------------------------------------
(* bstream_readln and bstream_refil of thrplhttp.c *)

Reading == server = "thrplhttp" /\ pc \in {"request", "header"} /\ ~HasLine(buf) /\ ~tried

\* memchr finds a line feed: the line is k and the buffer moves past it.  A
\* line a failed recv() took a byte from may read as any line.
PoolLine(k) ==
  /\ server = "thrplhttp" /\ HasLine(buf)
  /\ IF failed THEN k \in Kinds ELSE k = buf[LineEnd(buf)]
  /\ buf' = SubSeq(buf, LineEnd(buf) + 1, Len(buf))
  /\ ridx' = ridx + LineEnd(buf)
  /\ tried' = FALSE
  /\ UNCHANGED <<wire, ln>>

\* NULL: no line feed, not even after bstream_refil.
PoolNull ==
  /\ server = "thrplhttp" /\ ~HasLine(buf) /\ tried
  /\ tried' = FALSE
  /\ UNCHANGED <<wire, buf, ridx, ln>>

\* How much recv() may return
Room == BufSize - Len(buf)

\* bstream_refil with a recv() that returns data.
RefilSome ==
  /\ Reading
  /\ \E n \in 1 .. Room :
       /\ n <= Len(wire)
       /\ buf' = buf \o SubSeq(wire, 1, n)
       /\ wire' = SubSeq(wire, n + 1, Len(wire))
       /\ whole' = (whole /\ HasLine(SubSeq(wire, 1, n)))
  /\ ridx' = 0 /\ tried' = TRUE
  /\ UNCHANGED <<client, ln, pc, head, stopsvr, reqs, answers, failed, cut, overrun>>

\* recv() returns 0: the client has closed, or there is no room for a byte.
RefilNone ==
  /\ Reading
  /\ wire = <<>> \/ Room = 0
  /\ ridx' = 0 /\ tried' = TRUE
  /\ UNCHANGED <<client, wire, buf, ln, pc, head, stopsvr, reqs, answers, history>>

\* recv() returns -1, reset or interrupted by SIGINT.  n is a size_t, so the
\* result counts as data and bcnt += n drops the last byte; with an empty
\* buffer bcnt wraps and memchr leaves the buffer: nothing is defined then.
RefilFail ==
  /\ Reading
  /\ ridx' = 0 /\ tried' = TRUE /\ failed' = TRUE
  /\ IF buf = <<>> THEN pc' = "undefined" /\ UNCHANGED buf
                   ELSE buf' = Front(buf) /\ UNCHANGED pc
  /\ UNCHANGED <<client, wire, ln, head, stopsvr, reqs, answers, whole, cut, overrun>>

-----------------------------------------------------------------------------
(* bstream_readln and bstream_refil of thrhttp.c *)

Growing == server = "thrhttp" /\ pc \in {"request", "header"} /\ ~HasLine(ln) /\ ~tried

\* What a turn of the loop takes from the buffer: up to the line feed, or all of it
UpTo(b) == IF HasLine(b) THEN LineEnd(b) ELSE Len(b)

\* One turn: an empty buffer is refilled first, realloc keeps what was read.
GrowSome ==
  /\ Growing
  /\ \E n \in 0 .. BufSize :
       LET b == IF buf = <<>> THEN SubSeq(wire, 1, n) ELSE buf
       IN /\ (buf = <<>>) = (n > 0)
          /\ n <= Len(wire)
          /\ ln' = ln \o SubSeq(b, 1, UpTo(b))
          /\ buf' = SubSeq(b, UpTo(b) + 1, Len(b))
          /\ wire' = SubSeq(wire, n + 1, Len(wire))
  /\ UNCHANGED <<client, ridx, tried, pc, head, stopsvr, reqs, answers, history>>

\* recv() returns 0: the client has closed.
GrowEof ==
  /\ Growing /\ buf = <<>> /\ wire = <<>>
  /\ tried' = TRUE
  /\ UNCHANGED <<client, wire, buf, ridx, ln, pc, head, stopsvr, reqs, answers, history>>

\* recv() returns -1.  bcnt is a size_t, so it becomes the largest one, passes
\* the <= 0 test and memchr leaves the buffer: nothing is defined then.
GrowFail ==
  /\ Growing /\ buf = <<>>
  /\ pc' = "undefined" /\ failed' = TRUE
  /\ UNCHANGED <<client, reader, head, stopsvr, reqs, answers, whole, cut, overrun>>

\* A line of kind k is returned.  One that was cut off by the end of the input
\* may read as anything but the empty line.
GrownLine(k) ==
  /\ server = "thrhttp"
  /\ \/ HasLine(ln) /\ k = Last(ln)
     \/ tried /\ ln # <<>> /\ ~HasLine(ln) /\ k # "blank"
  /\ ln' = <<>> /\ tried' = FALSE
  /\ UNCHANGED <<wire, buf, ridx>>

GrownNull ==
  /\ server = "thrhttp" /\ tried /\ ln = <<>>
  /\ tried' = FALSE
  /\ UNCHANGED <<wire, buf, ridx, ln>>

ReadLine(k) == PoolLine(k) \/ GrownLine(k)
ReadNull == PoolNull \/ GrownNull

-----------------------------------------------------------------------------
(* process_session, thproc *)

\* process_session copies the request line with strncpy, which leaves one of ReqSize
\* bytes or more without its end; thproc splits the line where it is.
Overlong == server = "thrplhttp" /\ LineEnd(buf) > ReqSize

\* As what strtok_r may read line k: what follows req[] in memory may be anything.
Copied(k) == IF Overlong THEN Kinds ELSE {k}

\* The request line: counted and split, or 400 and the end.
Understood(k) ==
  /\ k \in Requests
  /\ reqs' = reqs + 1
  /\ cclose' = (k = "get10") /\ clen' = FALSE /\ chunked' = FALSE
  /\ status' = IF k = "miss11" THEN "404" ELSE "200"
  /\ pc' = "header"
  /\ UNCHANGED answers

\* A bad line ends the session; in the variant it does not.
BadLineOn(k) ==
  /\ k \notin Requests
  /\ answers' = Append(answers, <<"400", "close">>)
  /\ pc' = "request"
  /\ UNCHANGED <<head, reqs>>
BadLine(k) ==
  /\ k \notin Requests
  /\ answers' = Append(answers, <<"400", "close">>)
  /\ pc' = "close"
  /\ UNCHANGED <<head, reqs>>

RequestLine ==
  /\ pc = "request"
  /\ \E k \in Kinds : ReadLine(k) /\ \E c \in Copied(k) : Understood(c) \/ BadLine(c)
  /\ overrun' = IF Overlong THEN overrun \cup {Len(answers) + 1} ELSE overrun
  /\ UNCHANGED <<client, stopsvr, whole, failed, cut>>

\* strtok_r leaves req[] and puts the end of a token into what follows it: nothing is
\* defined then.
RequestOverrun ==
  /\ pc = "request" /\ HasLine(buf) /\ Overlong
  /\ pc' = "undefined"
  /\ UNCHANGED <<client, reader, head, stopsvr, reqs, answers, history>>

RequestNull ==
  /\ pc = "request"
  /\ ReadNull
  /\ pc' = "close"
  /\ UNCHANGED <<client, head, stopsvr, reqs, answers, history>>

\* The three headers the loop knows; the later one of two wins.  The variant
\* never takes a close back.
SetConnectionSticky(k) == cclose' = IF k = "close" THEN TRUE ELSE cclose
SetConnection(k) ==
  cclose' = IF k \in {"close", "keep"} THEN k = "close" ELSE cclose

\* A header line, or the empty line that ends the loop.
HeaderLine ==
  /\ pc = "header"
  /\ \E k \in Kinds :
       /\ ReadLine(k)
       /\ SetConnection(k)
       /\ clen' = IF k \in {"length", "length0"} THEN k = "length" ELSE clen
       /\ chunked' = IF k \in {"chunked", "identity"} THEN k = "chunked" ELSE chunked
       /\ pc' = IF k = "blank" THEN "answer" ELSE "header"
  /\ UNCHANGED <<client, status, stopsvr, reqs, answers, history>>

\* The loop ends on NULL as it does on the empty line.  Variant: it reads on.
HeaderNullRetry ==
  /\ pc = "header"
  /\ ReadNull
  /\ UNCHANGED <<client, pc, head, stopsvr, reqs, answers, history>>
HeaderNull ==
  /\ pc = "header"
  /\ ReadNull
  /\ pc' = "answer"
  /\ cut' = IF cut = -1 THEN Len(answers) ELSE cut
  /\ UNCHANGED <<client, head, stopsvr, reqs, answers, whole, failed, overrun>>

\* The loop's condition; the variant never keeps a connection alive.
KeepAliveNever == FALSE
KeepAlive == ~stopsvr /\ ~cclose

\* A payload is a bad request; otherwise send_url and the end of the loop.
Answer ==
  /\ pc = "answer"
  /\ IF clen \/ chunked
     THEN /\ answers' = Append(answers, <<"400", "close">>)
          /\ pc' = "close"
     ELSE /\ answers' = Append(answers, <<status, IF cclose THEN "close" ELSE "keep">>)
          /\ pc' = IF KeepAlive THEN "request" ELSE "close"
  /\ UNCHANGED <<client, reader, head, stopsvr, reqs, history>>

\* bstream_close
Close ==
  /\ pc = "close"
  /\ pc' = "closed"
  /\ UNCHANGED <<client, reader, head, stopsvr, reqs, answers, history>>

\* sig_int, in any thread.
SigInt ==
  /\ ~stopsvr
  /\ stopsvr' = TRUE
  /\ UNCHANGED <<client, reader, pc, head, reqs, answers, history>>

Session == RefilSome \/ RefilNone \/ GrowSome \/ GrowEof \/ RequestLine \/ RequestNull
             \/ HeaderLine \/ HeaderNull \/ Answer \/ Close

Next == Session \/ RefilFail \/ GrowFail \/ RequestOverrun \/ SigInt

Spec == Init /\ [][Next]_vars

\* The thread runs and clients send what they have to send or close.
FairSpec == Spec /\ WF_vars(Session)

-----------------------------------------------------------------------------
(* Properties *)

\* Heads the client sends to their empty line, and whether it closes inside another
Complete == Len(SelectSeq(SubSeq(Stream(script), 1, sent), LAMBDA b : b = "blank"))
Unfinished == IF sent > 0 /\ Stream(script)[sent] # "blank" THEN 1 ELSE 0

\* Nothing has cut a head before its end: in thrplhttp every recv() so far brought at
\* least one line end, however else the stream is cut and wherever lines are split
\* between two recv() calls.  In thrhttp no recv() can cut one.
Uncut == whole /\ ~failed

\* The server answers the heads of the client, in order, and nothing after the
\* first answer that says close.  A head inside which the client closed gets one
\* answer at most, and one with a request line that does not fit in req[] gets one
\* that may say anything, without harm to the next ones.
AnswersInOrder ==
  Uncut =>
    /\ \A i \in DOMAIN answers :
         i <= Complete => answers[i] = Replies(script)[i] \/ i \in overrun
    /\ Len(answers) <= Complete + Unfinished
    /\ \A i \in 1 .. Len(answers) - 1 : answers[i][2] = "keep"

\* ... and without a SIGINT every complete head, up to the first answer that
\* closes, is answered before the connection is closed.  The reqs counter is exact:
\* it has the answers, less the 400 to a bad request line (but not the 400 to a
\* payload), and the head that is being read.
AnsweredAndCounted ==
  LET closes == answers # <<>> /\ Last(answers)[2] = "close"
      badLine == closes /\ Last(answers)[1] = "400" /\ ~clen /\ ~chunked
  IN /\ pc = "closed" /\ ~stopsvr /\ Uncut => closes \/ Len(answers) >= Complete
     /\ pc # "undefined"
          => reqs = Len(answers) - (IF badLine THEN 1 ELSE 0)
                      + (IF pc \in {"header", "answer"} THEN 1 ELSE 0)

\* In thrplhttp a head cut short is answered as if it were complete.  The rest of
\* it is then taken for a request and refused: a cut head costs the session at most
\* one more answer, and that is a 400.  In thrhttp nothing but the end of the input
\* cuts a head, and its answer is the last.  Neither holds when the rest of the head
\* starts with a line that does not fit in req[]: that may read as a request.
CutEndsSession ==
  cut >= 0 /\ ~failed /\ cut + 2 \notin overrun
    => LET more == IF server = "thrplhttp" THEN 2 ELSE 1
       IN /\ Len(answers) <= cut + more
          /\ Len(answers) = cut + 2 => Last(answers) = <<"400", "close">>
          /\ server = "thrhttp" => wire = <<>> /\ buf = <<>>

\* Every session ends, at the latest when the client has closed, unless a
\* failed recv() or a long request line has left the defined behaviour.
SessionEnds == <>(pc \in {"closed", "undefined"})
=============================================================================
