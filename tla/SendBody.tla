------------------------------ MODULE SendBody ------------------------------
(***************************************************************************)
(* How thrplhttp.c and thrhttp.c write an answer: send_url with send_mem   *)
(* or send_doc (mmap_tx, sendfile_tx) over bstream_write.                  *)
(*                                                                         *)
(* bstream_write keeps the result of send() in a size_t, so -1 is not      *)
(* below 0: it is added to the count.  Away from the start of the buffer   *)
(* the write then goes back by one byte; at the start the count becomes    *)
(* the largest size_t and the loop ends with it as the result.             *)
(*                                                                         *)
(* A byte is its position in the answer: the header first, the body after. *)
(***************************************************************************)
EXTENDS Integers, Sequences, FiniteSets

CONSTANTS HeadLen,   \* bytes of the header bstream_printf writes
          Sizes,     \* body sizes
          MBuf,      \* sizeof(mbuf) of send_mem
          SizeMax,   \* the largest size_t
          MaxFails   \* bound: sends that fail on a connection that lives on

ASSUME SendBodyAssumption ==
  /\ HeadLen \in Nat \ {0} /\ MBuf \in Nat \ {0}
  /\ Sizes \subseteq Nat
  /\ SizeMax \in Nat /\ MaxFails \in Nat
  /\ \A s \in Sizes : 2 * (s + HeadLen + MaxFails) < SizeMax

Modes == {"mem", "mmap", "sendfile", "missing"}

Servers == {"thrplhttp", "thrhttp"}

VARIABLES
  server,      \* which of the two
  mode, size,  \* which function answers, and the size of its body
  pc,          \* "head" and "body": in bstream_write
  base, n,     \* position and length of the buffer being written
  cnt,         \* bstream_write's count
  msent,       \* send_mem's count
  tbytes,      \* what the session adds to pcx->tbytes
  error,       \* send_url's result
  dead,        \* the connection is gone: every send() fails
  out,         \* what send() has taken
  fails,       \* history: sends of the body that failed
  rewound,     \* history: sends that failed away from the start of a buffer
  gaveUp       \* history: writes that ended with SIZE_MAX

buffer == <<base, n, cnt>>
vars == <<server, mode, size, pc, buffer, msent, tbytes, error, dead, out, fails,
          rewound, gaveUp>>

Plus(a, b) == (a + b) % (SizeMax + 1)
Signed(x) == IF x > SizeMax \div 2 THEN x - SizeMax - 1 ELSE x
Bytes(from, k) == [i \in 1 .. k |-> from + i - 1]

Init ==
  /\ server \in Servers /\ mode \in Modes
  /\ size \in Sizes
  /\ pc = "head" /\ base = 0 /\ n = HeadLen /\ cnt = 0
  /\ msent = 0 /\ tbytes = 0 /\ error = 0
  /\ dead = FALSE /\ out = <<>>
  /\ fails = 0 /\ rewound = 0 /\ gaveUp = 0

-----------------------------------------------------------------------------
(* bstream_write *)

\* Inside the loop of bstream_write; the variant's test is off by one.
WritingOn == pc \in {"head", "body"} /\ cnt <= n
Writing == pc \in {"head", "body"} /\ cnt < n

SendSome ==
  /\ Writing /\ ~dead
  /\ \E k \in 1 .. n - cnt :
       /\ out' = out \o Bytes(base + cnt, k)
       /\ cnt' = Plus(cnt, k)
  /\ UNCHANGED <<server, mode, size, pc, base, n, msent, tbytes, error, dead, fails,
                 rewound, gaveUp>>

\* What a failed send() does to the count; the variant takes it for one byte.
CountFailedSkip(c) == Plus(c, 1)
CountFailed(c) == Plus(c, SizeMax)

SendFail ==
  /\ Writing
  /\ dead \/ rewound + gaveUp < MaxFails
  /\ cnt' = CountFailed(cnt)
  /\ fails' = IF pc = "body" THEN fails + 1 ELSE fails
  /\ rewound' = IF cnt > 0 THEN rewound + 1 ELSE rewound
  /\ gaveUp' = IF cnt = 0 THEN gaveUp + 1 ELSE gaveUp
  /\ UNCHANGED <<server, mode, size, pc, base, n, msent, tbytes, error, dead, out>>

\* The client goes away.
Die ==
  /\ ~dead
  /\ dead' = TRUE
  /\ UNCHANGED <<server, mode, size, pc, buffer, msent, tbytes, error, out, fails,
                 rewound, gaveUp>>

-----------------------------------------------------------------------------
(* send_doc and send_mem *)

\* The next call of bstream_write
Write(from, len) == base' = from /\ n' = len /\ cnt' = 0

\* What send_mem writes next
Chunk(m) == IF size - m > MBuf THEN MBuf ELSE size - m

\* The header is out, or is not: bstream_printf's result is not looked at.
\* When mmap() fails, as it does for an empty file, xmmap of thrplhttp ends the
\* process, and mmap_tx of thrhttp returns an error.
HeadDone ==
  /\ pc = "head" /\ ~Writing
  /\ \/ mode = "missing" /\ pc' = "done" /\ error' = -1 /\ UNCHANGED buffer
     \/ /\ mode = "sendfile"
        /\ pc' = "sendfile" /\ UNCHANGED <<buffer, error>>
     \/ /\ mode = "mmap" /\ size > 0
        /\ pc' = "body" /\ Write(HeadLen, size) /\ UNCHANGED error
     \/ /\ mode = "mmap"
        /\ IF server = "thrplhttp" THEN pc' = "exited" /\ UNCHANGED error
                                   ELSE pc' = "done" /\ error' = -1
        /\ UNCHANGED buffer
     \/ /\ mode = "mem"
        /\ IF size > 0 THEN pc' = "body" /\ Write(HeadLen, Chunk(0))
                       ELSE pc' = "count" /\ UNCHANGED buffer
        /\ UNCHANGED error
  /\ UNCHANGED <<server, mode, size, msent, tbytes, dead, out, fails, rewound, gaveUp>>

\* sendfile() moves some of the file and is not called again.
SendFile ==
  /\ pc = "sendfile"
  /\ \E k \in IF dead THEN {0} ELSE 0 .. size :
       /\ out' = out \o Bytes(HeadLen, k)
       /\ error' = IF k = size THEN 0 ELSE -1
       /\ pc' = IF k = size THEN "count" ELSE "done"
  /\ UNCHANGED <<server, mode, size, buffer, msent, tbytes, dead, fails, rewound, gaveUp>>

\* mmap_tx compares the result with the size.
MapDone ==
  /\ pc = "body" /\ mode = "mmap" /\ ~Writing
  /\ error' = IF cnt = size THEN 0 ELSE -1
  /\ pc' = IF cnt = size THEN "count" ELSE "done"
  /\ UNCHANGED <<server, mode, size, buffer, msent, tbytes, dead, out, fails, rewound,
                 gaveUp>>

\* The end of send_mem's loop body: n > 0 is added to msent, and anything but
\* a full chunk ends the loop.
MemDone ==
  /\ pc = "body" /\ mode = "mem" /\ ~Writing
  /\ msent' = IF cnt > 0 THEN Signed(Plus(msent, cnt)) ELSE msent
  /\ IF cnt = n /\ msent' < size
     THEN pc' = "body" /\ Write(HeadLen + msent', Chunk(msent'))
     ELSE pc' = "count" /\ UNCHANGED buffer
  /\ UNCHANGED <<server, mode, size, tbytes, error, dead, out, fails, rewound, gaveUp>>

\* tbytes, under pcx->mtx
Counted == IF mode = "mem" THEN msent ELSE size

Count ==
  /\ pc = "count"
  /\ tbytes' = (tbytes + Counted) % (SizeMax + 1)
  /\ error' = IF mode = "mem" /\ msent # size THEN -1 ELSE 0
  /\ pc' = "done"
  /\ UNCHANGED <<server, mode, size, buffer, msent, dead, out, fails, rewound, gaveUp>>

Server == SendSome \/ SendFail \/ HeadDone \/ SendFile \/ MapDone \/ MemDone \/ Count

Next == Server \/ Die

Spec == Init /\ [][Next]_vars

\* send() returns: its buffer drains or the connection is found dead.
FairSpec == Spec /\ WF_vars(Server)

-----------------------------------------------------------------------------
(* Properties *)

\* As long as no write gave up, failed sends repeat bytes but skip none.
NothingSkipped ==
  gaveUp = 0 => /\ out # <<>> => out[1] = 0
                /\ \A i \in 1 .. Len(out) - 1 : out[i + 1] <= out[i] + 1

\* Where in the output the bytes of the body are
BodySent == {i \in DOMAIN out : out[i] >= HeadLen}

\* A write that came to its end in spite of failed sends has sent one byte
\* more than its length for each of them: success never means a short body.  And
\* tbytes is exact for send_mem even when it fails midway: the bytes of the body
\* that were sent, less one for each failed send, modulo the width.
CompleteAndCounted ==
  pc = "done" =>
    /\ error = 0 /\ gaveUp = 0 => Len(out) = HeadLen + size + rewound
    /\ mode = "mem" => tbytes = (Cardinality(BodySent) - fails) % (SizeMax + 1)

\* Each answer ends, also when every further send() fails, unless a failed
\* mmap() ends the process, which happens in thrplhttp only.
AnswerEnds == <>(pc = "done" \/ (pc = "exited" /\ server = "thrplhttp" /\ mode = "mmap"))
=============================================================================
