---------------------------- MODULE ClientsProofs ---------------------------
(***************************************************************************)
(* What send-serie.pl has sent, for every series of patches, any headers   *)
(* and texts, and whatever the mail server answers.                        *)
(*                                                                         *)
(* What xfcrawl.pl leaves on disk, for any number of runs and pages, any   *)
(* URLs and documents, and wherever it is killed, interrupted or fails.    *)
(***************************************************************************)
EXTENDS MCClients, TLAPS

-----------------------------------------------------------------------------
(* send-serie: the invariant *)

\* The message of patch i as it is to arrive
Sent(i) ==
  Serie!Message(i, IF mbox THEN <<>> ELSE Serie!Recipients(patches[i]),
          [k \in DOMAIN Serie!Data(patches[i]) |-> Serie!Arrives(Serie!Data(patches[i])[k])]
            \o (IF mbox THEN <<>> ELSE <<"empty">>))

Lines == [code : Int, more : BOOLEAN]

SerieType ==
  /\ mbox \in BOOLEAN /\ patches \in Series /\ common \in Commons
  /\ pc \in Serie!Commands \cup {"parse", "build", "exit"} /\ asked \in BOOLEAN
  /\ p \in 1 .. Len(patches) + 1
  /\ todo \in Seq(STRING) /\ rcpts \in Seq(STRING)
  /\ lines \in Seq(Lines) /\ eof \in BOOLEAN /\ (~asked => lines = <<>>)

Delivering == {"mail", "rcpt", "data", "body"}

\* The server has not yet done what the command of pc asks for, or has and says so.
\* Between the two is a broken connection, and a command the server refused.
Idle == ~asked \/ (lines = <<>> /\ ~eof)
Done == lines # <<>> /\ Serie!LastLine.code = Serie!Class(pc)

Parsable ==
  ~Serie!Unparsable(common) /\ \A i \in DOMAIN patches : ~Serie!Unparsable(patches[i])

\* Where the loop over the patches is, and how many messages that makes.
LoopInv ==
  /\ mbox => pc \in {"parse", "build", "exit"}
  /\ pc \in {"parse", "build"} => ~asked
  /\ pc \in Delivering => p <= Len(patches)
  /\ pc = "quit" => p = Len(patches) + 1
  /\ pc \in {"build", "quit"} \cup Delivering => Parsable
  /\ accepted # <<>> => Parsable
  /\ Len(accepted) \in {p - 1, p}
  /\ pc \notin {"body", "exit"} => Len(accepted) = p - 1
  /\ pc = "body" => (Idle => Len(accepted) = p - 1) /\ (Done => Len(accepted) = p)
  /\ exit = 0 => pc = "exit" /\ Len(accepted) = Len(patches)

\* The recipients the server knows, and those still to be named, are the patch's.
RcptInv ==
  /\ pc = "mail" => /\ todo = Serie!Recipients(patches[p]) /\ todo # <<>>
                    /\ Done => rcpts = <<>>
  /\ pc = "rcpt" => /\ todo # <<>>
                    /\ Idle => rcpts \o todo = Serie!Recipients(patches[p])
                    /\ Done => rcpts \o Tail(todo) = Serie!Recipients(patches[p])
  /\ pc \in {"data", "body"} => rcpts = Serie!Recipients(patches[p])

\* What was sent is a beginning of the series, but for prints that failed.
Sents == {Sent(i) : i \in DOMAIN patches} \cup {NULL}
SentAs(i, m) == m = Sent(i) \/ (mbox /\ m = NULL)
SentInv ==
  /\ accepted \in Seq(Sents)
  /\ \A i \in 1 .. Len(accepted) : i <= Len(patches) /\ SentAs(i, accepted[i])

SerieInv == SerieType /\ LoopInv /\ RcptInv /\ SentInv

-----------------------------------------------------------------------------
(* Headers and text *)

LEMMA PatchIs ==
  ASSUME SerieType, NEW i \in DOMAIN patches
  PROVE  patches[i] \in Serie!Patches /\ common \in Serie!Patches \cup {NULL}
<1>1. patches \in Seq(Serie!Patches)
  BY SerieAssumption, Zenon DEF SerieType
<1>2. common \in Serie!Patches \cup {NULL}
  BY SerieAssumption, Zenon DEF SerieType
<1> QED BY <1>1, <1>2

LEMMA Joins ==
  ASSUME NEW S
  PROVE  /\ \A x, y \in Seq(S) : x \o y \in Seq(S)
         /\ <<>> \in Seq(S)
OBVIOUS

LEMMA MergedIs ==
  ASSUME SerieType, NEW i \in DOMAIN patches, NEW f \in Serie!Fields
  PROVE  Serie!Merged(f, patches[i]) \in Seq(STRING) \cup {NULL}
<1> DEFINE h == patches[i]
<1>1. h \in Serie!Patches /\ common \in Serie!Patches \cup {NULL}
  BY PatchIs
<1> HIDE DEF h
<1>2. \A x \in Serie!Patches : x[f] \in Seq(STRING) \cup {NULL}
  BY DEF Serie!Patches, Serie!Fields
<1>3. h[f] \in Seq(STRING) \cup {NULL}
  BY <1>1, <1>2
<1>4. common # NULL => common[f] \in Seq(STRING) \cup {NULL}
  BY <1>1, <1>2
<1> QED BY <1>3, <1>4, Joins, Zenon DEF Serie!Merged, h

LEMMA RecipientsIs ==
  ASSUME SerieType, NEW i \in DOMAIN patches
  PROVE  /\ Serie!Recipients(patches[i]) \in Seq(STRING)
         /\ Serie!Complete(patches[i]) => Serie!Recipients(patches[i]) # <<>>
<1> DEFINE h == patches[i]
<1>1. \A f \in Serie!Fields : Serie!Merged(f, h) \in Seq(STRING) \cup {NULL}
  BY MergedIs
<1> HIDE DEF h
<1>2. \A f \in Serie!Fields : Serie!Addresses(f, h) \in Seq(STRING)
  BY <1>1, Joins, Zenon DEF Serie!Addresses
<1>3. /\ Serie!Addresses("to", h) \in Seq(STRING) /\ Serie!Addresses("cc", h) \in Seq(STRING)
      /\ Serie!Addresses("bcc", h) \in Seq(STRING)
  BY <1>2 DEF Serie!Fields
<1>4. Serie!Complete(h) => Serie!Addresses("to", h) # <<>>
  BY DEF Serie!Complete, Serie!Fields, Serie!Addresses
<1>5. Serie!Recipients(h) \in Seq(STRING)
  BY <1>3 DEF Serie!Recipients
<1>6. Serie!Addresses("to", h) # <<>> => Serie!Recipients(h) # <<>>
  BY <1>3 DEF Serie!Recipients
<1> QED BY <1>4, <1>5, <1>6 DEF h

LEMMA DataIs ==
  ASSUME SerieType, NEW i \in DOMAIN patches
  PROVE  Serie!Data(patches[i]) \in Seq(Serie!LineKinds)
<1> DEFINE h == patches[i]
<1>1. h \in Serie!Patches /\ common \in Serie!Patches \cup {NULL}
  BY PatchIs
<1> HIDE DEF h
<1>2. /\ h.data \in Seq(Serie!LineKinds)
      /\ common # NULL => common.data \in Seq(Serie!LineKinds)
  BY <1>1 DEF Serie!Patches
<1> QED BY <1>2, Joins, Zenon DEF Serie!Data, h

\* Of the lines of a mail none is a single dot, and the server gives it back.
LEMMA LineIs ==
  ASSUME NEW l \in Serie!LineKinds, ~mbox
  PROVE  /\ Serie!Quoted(l) \in Serie!LineKinds /\ Serie!Arrives(l) \in Serie!LineKinds
         /\ Serie!Quoted(l) # "dot" /\ Serie!Unquoted(Serie!Quoted(l)) = Serie!Arrives(l)
<1>1. CASE l = "dot"
  BY <1>1 DEF Serie!Quoted, Serie!Arrives, Serie!Unquoted, Serie!LineKinds
<1>2. CASE l # "dot"
  <2>1. Serie!Quoted(l) = l
    BY <1>2 DEF Serie!Quoted
  <2>2. Serie!Arrives(l) = Serie!Unquoted(l)
    BY DEF Serie!Arrives, Serie!Unquoted
  <2>3. Serie!Unquoted(l) \in Serie!LineKinds
    BY DEF Serie!Unquoted, Serie!LineKinds
  <2> QED BY <1>2, <2>1, <2>2, <2>3
<1> QED BY <1>1, <1>2

\* A text with two lines appended
LEMMA Ended ==
  ASSUME NEW S, NEW q \in Seq(S), NEW a \in S, NEW b \in S
  PROVE  /\ q \o <<a, b>> \in Seq(S) /\ Len(q \o <<a, b>>) = Len(q) + 2
         /\ (q \o <<a, b>>)[Len(q) + 1] = a /\ (q \o <<a, b>>)[Len(q) + 2] = b
         /\ \A k \in 1 .. Len(q) : (q \o <<a, b>>)[k] = q[k]
<1> DEFINE s == Append(Append(q, a), b)
<1>1. q \o <<a, b>> = s
  OBVIOUS
<1>2. /\ s \in Seq(S) /\ Len(s) = Len(q) + 2 /\ s[Len(q) + 1] = a /\ s[Len(q) + 2] = b
      /\ \A k \in 1 .. Len(q) : s[k] = q[k]
  OBVIOUS
<1> HIDE DEF s
<1> QED BY <1>1, <1>2

\* The end of the message is the dot the script sends after the text, which has no
\* other one; the server gives back the text.
LEMMA TakenIs ==
  ASSUME SerieType, ~mbox, p \in DOMAIN patches
  PROVE  Serie!Taken(Serie!OnWire) =
           [k \in DOMAIN Serie!Data(patches[p]) |-> Serie!Arrives(Serie!Data(patches[p])[k])]
                           \o <<"empty">>
<1> DEFINE d == Serie!Data(patches[p])
           N == Len(d)
           q == [k \in DOMAIN d |-> Serie!Quoted(d[k])]
           a == [k \in DOMAIN d |-> Serie!Arrives(d[k])]
           s == q \o <<"empty", "dot">>
<1>1. d \in Seq(Serie!LineKinds) /\ N \in Nat /\ DOMAIN d = 1 .. N
  BY DataIs
<1>2. \A k \in 1 .. N :
        /\ Serie!Quoted(d[k]) \in Serie!LineKinds /\ Serie!Arrives(d[k]) \in Serie!LineKinds
        /\ Serie!Quoted(d[k]) # "dot" /\ Serie!Unquoted(Serie!Quoted(d[k])) = Serie!Arrives(d[k])
  <2>1. \A k \in 1 .. N : d[k] \in Serie!LineKinds
    BY <1>1
  <2> QED BY <2>1, LineIs, Zenon
<1>3. Serie!OnWire = s
  BY DEF Serie!OnWire
<1>4. "empty" \in Serie!LineKinds /\ "dot" \in Serie!LineKinds
  BY DEF Serie!LineKinds
<1> HIDE DEF d, N
<1>5. q \in Seq(Serie!LineKinds) /\ Len(q) = N /\ a \in Seq(Serie!LineKinds) /\ Len(a) = N
      /\ \A k \in 1 .. N : q[k] = Serie!Quoted(d[k]) /\ a[k] = Serie!Arrives(d[k])
  BY <1>1, <1>2
<1> HIDE DEF q, a
<1>6. s \in Seq(Serie!LineKinds) /\ Len(s) = N + 2 /\ s[N + 1] = "empty" /\ s[N + 2] = "dot"
      /\ \A k \in 1 .. N : s[k] = q[k]
  <2>1. /\ s \in Seq(Serie!LineKinds) /\ Len(s) = Len(q) + 2
        /\ s[Len(q) + 1] = "empty" /\ s[Len(q) + 2] = "dot"
        /\ \A k \in 1 .. Len(q) : s[k] = q[k]
    BY <1>4, <1>5, Ended
  <2> HIDE DEF s
  <2> QED BY <1>5, <2>1
<1>7. a \o <<"empty">> = [k \in 1 .. N + 1 |-> IF k = N + 1 THEN "empty" ELSE a[k]]
  BY <1>1, <1>5
<1> HIDE DEF s
<1>8. \A k \in DOMAIN s : s[k] = "dot" /\ (\A j \in 1 .. k - 1 : s[j] # "dot") <=> k = N + 2
  <2>1. DOMAIN s = 1 .. N + 2
    BY <1>1, <1>6
  <2>2. \A k \in 1 .. N + 1 : s[k] # "dot"
    BY <1>1, <1>2, <1>5, <1>6
  <2> QED BY <1>1, <1>6, <2>1, <2>2
<1>9. (CHOOSE k \in DOMAIN s : s[k] = "dot" /\ \A j \in 1 .. k - 1 : s[j] # "dot") = N + 2
  <2>1. N + 2 \in DOMAIN s
    BY <1>1, <1>6
  <2> QED BY <1>8, <2>1, Zenon
<1>10. \A k \in 1 .. N + 1 : Serie!Unquoted(s[k]) = IF k = N + 1 THEN "empty" ELSE a[k]
  <2>1. Serie!Unquoted("empty") = "empty"
    BY DEF Serie!Unquoted
  <2>2. \A k \in 1 .. N : Serie!Unquoted(s[k]) = a[k]
    BY <1>2, <1>5, <1>6
  <2> QED BY <1>1, <1>6, <2>1, <2>2
<1>11. Serie!Taken(s) = [k \in 1 .. N + 1 |-> Serie!Unquoted(s[k])]
  <2>1. Serie!Taken(s) = [k \in 1 .. (N + 2) - 1 |-> Serie!Unquoted(s[k])]
    BY <1>9, Zenon DEF Serie!Taken
  <2>2. (N + 2) - 1 = N + 1
    BY <1>1
  <2> QED BY <2>1, <2>2, Zenon
<1> QED BY <1>3, <1>7, <1>10, <1>11 DEF a, d

-----------------------------------------------------------------------------
(* The invariant *)

\* What depends on the command line and the files only stays.
LEMMA OptionsKeep ==
  ASSUME UNCHANGED Serie!options
  PROVE  /\ \A i : Sent(i)' = Sent(i)
         /\ \A i, m : SentAs(i, m)' = SentAs(i, m)
         /\ \A i : Serie!Recipients(patches[i])' = Serie!Recipients(patches[i])
         /\ Parsable' = Parsable /\ Sents' = Sents
<1>1. UNCHANGED <<mbox, patchbase, patches, common>>
  BY DEF Serie!options
<1>2. \A i : Serie!Recipients(patches[i])' = Serie!Recipients(patches[i])
  BY <1>1 DEF Serie!Recipients, Serie!Addresses, Serie!Merged
<1>3. \A i : Serie!Data(patches[i])' = Serie!Data(patches[i])
  BY <1>1 DEF Serie!Data
<1>4. \A l : Serie!Arrives(l)' = Serie!Arrives(l)
  BY <1>1 DEF Serie!Arrives
<1>5. \A i : Sent(i)' = Sent(i)
  BY <1>1, <1>2, <1>3, <1>4 DEF Sent, Serie!Message, Serie!Number
<1>6. Parsable' = Parsable
  BY <1>1 DEF Parsable, Serie!Unparsable
<1>7. \A i, m : SentAs(i, m)' = SentAs(i, m)
  BY <1>1, <1>5, Zenon DEF SentAs
<1> QED BY <1>1, <1>2, <1>5, <1>6, <1>7 DEF Sents


\* One more message, the next one
LEMMA SentGrows ==
  ASSUME SentInv, UNCHANGED Serie!options, p \in DOMAIN patches, patches \in Seq(Serie!Patches),
         Len(accepted) = p - 1, NEW m, SentAs(p, m), accepted' = Append(accepted, m)
  PROVE  SentInv' /\ Len(accepted') = p /\ accepted' # <<>>
<1>1. accepted \in Seq(Sents) /\ m \in Sents /\ p \in Nat /\ p >= 1 /\ p <= Len(patches)
  BY DEF SentInv, Sents, SentAs
<1>2. accepted' \in Seq(Sents) /\ Len(accepted') = p /\ accepted' # <<>>
  BY <1>1
<1>3. \A i \in 1 .. p : i <= Len(patches) /\ SentAs(i, accepted'[i])
  BY <1>1 DEF SentInv
<1>4. Sents' = Sents /\ patches' = patches /\ \A i, n : SentAs(i, n)' = SentAs(i, n)
  BY OptionsKeep DEF Serie!options
<1> QED BY <1>2, <1>3, <1>4 DEF SentInv

LEMMA SentStays ==
  ASSUME SentInv, UNCHANGED <<Serie!options, accepted>>
  PROVE  SentInv'
BY OptionsKeep DEF SentInv, Serie!options

LEMMA SerieIs ==
  ASSUME SerieType
  PROVE  /\ patches \in Seq(Serie!Patches)
         /\ Len(patches) \in Nat /\ DOMAIN patches = 1 .. Len(patches)
<1>1. patches \in Seq(Serie!Patches)
  BY SerieAssumption, Zenon DEF SerieType
<1> QED BY <1>1

\* The empty sequence is one of lines and one of recipients.
LEMMA Blank == <<>> \in Seq(Lines) /\ <<>> \in Seq(STRING) /\ Len(<<>>) = 0
OBVIOUS

LEMMA SerieInit == Serie!Init => SerieInv
<1> SUFFICES ASSUME Serie!Init
             PROVE  SerieInv
  OBVIOUS
<1>1. patches \in Seq(Serie!Patches) /\ Len(patches) \in Nat
  BY SerieAssumption DEF Serie!Init
<1>2. /\ mbox \in BOOLEAN /\ patches \in Series /\ common \in Commons
      /\ p = 1 /\ todo = <<>> /\ lines = <<>> /\ eof = FALSE /\ rcpts = <<>> /\ accepted = <<>>
      /\ pc \in {"parse", "banner", "exit"} /\ (mbox => pc = "parse") /\ exit # 0
  BY DEF Serie!Init
<1>3. asked \in BOOLEAN /\ (pc = "parse" => ~asked)
  <2>1. asked = (pc = "banner") /\ (pc = "parse" => pc # "banner")
    BY DEF Serie!Init
  <2> QED BY <2>1, Zenon
<1>4. SerieType
  <2>1. lines \in Seq(Lines) /\ todo \in Seq(STRING) /\ rcpts \in Seq(STRING)
        /\ eof \in BOOLEAN
    BY <1>2, Blank, Zenon
  <2>3. p \in 1 .. Len(patches) + 1
    BY <1>1, <1>2
  <2>2. pc \in Serie!Commands \cup {"parse", "build", "exit"}
    BY <1>2 DEF Serie!Commands
  <2> QED BY <1>2, <1>3, <2>1, <2>2, <2>3, Zenon DEF SerieType
<1>5. LoopInv
  BY <1>1, <1>2, <1>3 DEF LoopInv, Delivering
<1>6. RcptInv /\ SentInv
  BY <1>2 DEF RcptInv, SentInv
<1> QED BY <1>4, <1>5, <1>6 DEF SerieInv

LEMMA ParseKeeps ==
  ASSUME SerieInv, Serie!Parse
  PROVE  SerieInv'
<1>1. UNCHANGED <<Serie!options, asked, p, todo, Serie!server>> /\ pc = "parse"
  BY DEF Serie!Parse
<1>2. \/ pc' = "exit" /\ exit' = 1
      \/ pc' = "build" /\ exit' = exit /\ Parsable
  BY DEF Serie!Parse, Serie!Exit, Parsable
<1>3. SerieType'
  BY <1>1, <1>2 DEF SerieInv, SerieType, Serie!options, Serie!server
<1>4. Parsable' = Parsable
  BY <1>1, OptionsKeep
<1>5. LoopInv'
  BY <1>1, <1>2, <1>4 DEF SerieInv, LoopInv, Delivering, Serie!options, Serie!server
<1>6. RcptInv'
  BY <1>2 DEF RcptInv
<1>7. SentInv'
  BY <1>1, SentStays DEF SerieInv, Serie!server
<1> QED BY <1>3, <1>5, <1>6, <1>7 DEF SerieInv

LEMMA FinishKeeps ==
  ASSUME SerieInv, Serie!Finish
  PROVE  SerieInv'
<1>1. /\ UNCHANGED <<Serie!options, asked, p, todo, Serie!server>>
      /\ pc = "build" /\ p > Len(patches)
  BY DEF Serie!Finish
<1>2. \/ mbox /\ pc' = "exit" /\ exit' = 0
      \/ ~mbox /\ pc' = "quit" /\ exit' = exit
  BY DEF Serie!Finish, Serie!Exit
<1>3. SerieType'
  BY <1>1, <1>2 DEF SerieInv, SerieType, Serie!options, Serie!server, Serie!Commands
<1>4. Parsable' = Parsable
  BY <1>1, OptionsKeep
<1>5. Len(patches) \in Nat
  BY SerieIs DEF SerieInv
<1>6. p = Len(patches) + 1
  BY <1>1, <1>5 DEF SerieInv, SerieType
<1>7. LoopInv'
  BY <1>1, <1>2, <1>4, <1>5, <1>6 DEF SerieInv, LoopInv, Delivering, Serie!options, Serie!server
<1>8. RcptInv'
  BY <1>2 DEF RcptInv
<1>9. SentInv'
  BY <1>1, SentStays DEF SerieInv, Serie!server
<1> QED BY <1>3, <1>7, <1>8, <1>9 DEF SerieInv

LEMMA AskKeeps ==
  ASSUME SerieInv, Serie!Ask
  PROVE  SerieInv'
<1>1. /\ pc \in Serie!Commands /\ ~asked /\ asked' = TRUE /\ lines' = <<>> /\ lines = <<>>
      /\ UNCHANGED <<Serie!options, pc, p, todo, exit, eof, rcpts, accepted>>
  BY DEF Serie!Ask, SerieInv, SerieType
<1>2. Idle /\ ~Done' /\ Parsable' = Parsable
      /\ \A i : Serie!Recipients(patches[i])' = Serie!Recipients(patches[i])
  BY <1>1, OptionsKeep DEF Idle, Done
<1>3. SerieType'
  BY <1>1 DEF SerieInv, SerieType, Serie!options
<1>4. LoopInv'
  BY <1>1, <1>2 DEF SerieInv, LoopInv, Delivering, Serie!options, Serie!Commands
<1>5. RcptInv'
  BY <1>1, <1>2 DEF SerieInv, RcptInv, Serie!options
<1>6. SentInv'
  BY <1>1, SentStays DEF SerieInv
<1> QED BY <1>3, <1>4, <1>5, <1>6 DEF SerieInv

LEMMA BuildKeeps ==
  ASSUME SerieInv, Serie!Build
  PROVE  SerieInv'
<1>1. /\ pc = "build" /\ p <= Len(patches)
      /\ UNCHANGED <<Serie!options, asked, lines, eof, rcpts>>
  BY DEF Serie!Build
<1>2. /\ patches \in Seq(Serie!Patches) /\ Len(patches) \in Nat /\ p \in 1 .. Len(patches)
      /\ DOMAIN patches = 1 .. Len(patches) /\ p \in DOMAIN patches
  BY <1>1, SerieIs DEF SerieInv, SerieType
<1>3. Parsable /\ Parsable' = Parsable /\ Len(accepted) = p - 1
      /\ \A i : Serie!Recipients(patches[i])' = Serie!Recipients(patches[i])
  BY <1>1, OptionsKeep DEF SerieInv, LoopInv
<1>4. CASE ~Serie!Complete(patches[p])
  <2>1. pc' = "exit" /\ exit' = 1 /\ UNCHANGED <<p, todo, accepted>>
    BY <1>4 DEF Serie!Build, Serie!Exit
  <2>2. SerieType'
    BY <1>1, <2>1 DEF SerieInv, SerieType, Serie!options
  <2>3. LoopInv'
    BY <1>1, <1>3, <2>1 DEF SerieInv, LoopInv, Delivering, Serie!options
  <2>4. RcptInv'
    BY <2>1 DEF RcptInv
  <2>5. SentInv'
    BY <1>1, <2>1, SentStays DEF SerieInv
  <2> QED BY <2>2, <2>3, <2>4, <2>5 DEF SerieInv
<1>5. CASE Serie!Complete(patches[p]) /\ mbox
  <2> DEFINE d == Serie!Data(patches[p])
             m == Serie!Message(p, <<>>, [k \in DOMAIN d |-> Serie!Quoted(d[k])])
  <2>1. p' = p + 1 /\ UNCHANGED <<pc, todo, exit>>
        /\ \E n \in {NULL, m} : accepted' = Append(accepted, n)
    BY <1>5 DEF Serie!Build
  <2>2. Sent(p) = m
    <3>1. d \in Seq(Serie!LineKinds)
      BY <1>2, DataIs DEF SerieInv
    <3>2. \A l : Serie!Quoted(l) = Serie!Arrives(l)
      BY <1>5 DEF Serie!Quoted, Serie!Arrives
    <3>3. [k \in DOMAIN d |-> Serie!Arrives(d[k])] \o <<>> =
            [k \in DOMAIN d |-> Serie!Quoted(d[k])]
      <4> DEFINE a == [k \in DOMAIN d |-> Serie!Arrives(d[k])]
      <4> HIDE DEF d
      <4>1. a \in Seq(Serie!LineKinds)
        <5>1. \A l \in Serie!LineKinds : Serie!Arrives(l) \in Serie!LineKinds
          BY <1>5 DEF Serie!Arrives, Serie!LineKinds
        <5> QED BY <3>1, <5>1
      <4>2. a = [k \in DOMAIN d |-> Serie!Quoted(d[k])]
        BY <3>2
      <4> HIDE DEF a
      <4>3. a \o <<>> = a
        BY <4>1
      <4> QED BY <4>2, <4>3 DEF a
    <3> QED BY <1>5, <3>3 DEF Sent
  <2> HIDE DEF m
  <2>7. PICK n \in {NULL, m} : accepted' = Append(accepted, n)
    BY <2>1
  <2>8. SentAs(p, n)
    BY <1>5, <2>2 DEF SentAs
  <2>3. SentInv' /\ Len(accepted') = p /\ accepted' # <<>>
    BY <1>1, <1>2, <1>3, <2>7, <2>8, SentGrows DEF SerieInv
  <2>4. SerieType'
    BY <1>1, <1>2, <2>1 DEF SerieInv, SerieType, Serie!options
  <2>5. LoopInv'
    <3>1. exit # 0 /\ ~asked
      BY <1>1 DEF SerieInv, LoopInv
    <3> QED BY <1>1, <1>2, <1>3, <2>1, <2>3, <3>1 DEF LoopInv, Delivering, Serie!options
  <2>6. RcptInv'
    BY <1>1, <2>1 DEF RcptInv
  <2> QED BY <2>3, <2>4, <2>5, <2>6 DEF SerieInv
<1>6. CASE Serie!Complete(patches[p]) /\ ~mbox
  <2>1. pc' = "mail" /\ todo' = Serie!Recipients(patches[p]) /\ UNCHANGED <<p, exit, accepted>>
    BY <1>6 DEF Serie!Build
  <2>2. Serie!Recipients(patches[p]) \in Seq(STRING) /\ Serie!Recipients(patches[p]) # <<>>
    BY <1>2, <1>6, RecipientsIs DEF SerieInv
  <2>3. ~asked /\ lines = <<>> /\ ~Done'
    <3>1. ~asked
      BY <1>1 DEF SerieInv, LoopInv
    <3> QED BY <1>1, <3>1 DEF SerieInv, SerieType, Done
  <2>4. SerieType'
    BY <1>1, <2>1, <2>2 DEF SerieInv, SerieType, Serie!options, Serie!Commands
  <2>5. LoopInv'
    BY <1>1, <1>2, <1>3, <1>6, <2>1 DEF SerieInv, LoopInv, Delivering, Serie!options
  <2>6. RcptInv'
    <3>1. Serie!Recipients(patches[p])' = Serie!Recipients(patches[p])
      BY <1>3, <2>1
    <3> QED BY <2>1, <2>2, <2>3, <3>1 DEF RcptInv
  <2>7. SentInv'
    BY <1>1, <2>1, SentStays DEF SerieInv
  <2> QED BY <2>4, <2>5, <2>6, <2>7 DEF SerieInv
<1> QED BY <1>4, <1>5, <1>6

LEMMA RespKeeps ==
  ASSUME SerieInv, Serie!Resp
  PROVE  SerieInv'
<1>1. /\ pc \in Serie!Commands /\ asked /\ asked' = FALSE /\ lines' = <<>>
      /\ UNCHANGED <<Serie!options, eof, rcpts, accepted>>
  BY DEF Serie!Resp
<1>2. /\ patches \in Seq(Serie!Patches) /\ Len(patches) \in Nat /\ p \in 1 .. Len(patches) + 1
      /\ Len(accepted) \in {p - 1, p} /\ exit # 0 /\ ~mbox
  BY <1>1, SerieIs DEF SerieInv, SerieType, LoopInv, Serie!Commands
<1>3. Parsable' = Parsable /\ Idle' /\ ~Done'
      /\ \A i : Serie!Recipients(patches[i])' = Serie!Recipients(patches[i])
  BY <1>1, OptionsKeep DEF Idle, Done
<1>0. /\ mbox' \in BOOLEAN /\ patches' \in Series /\ common' \in Commons /\ patches' = patches
      /\ rcpts' \in Seq(STRING) /\ lines' \in Seq(Lines) /\ eof' \in BOOLEAN
      /\ asked' \in BOOLEAN /\ (~asked' => lines' = <<>>)
      /\ p \in 1 .. Len(patches) + 1 /\ todo \in Seq(STRING)
  <2>1. lines' \in Seq(Lines)
    BY <1>1, Blank
  <2>2. UNCHANGED <<mbox, patches, common>>
    BY <1>1 DEF Serie!options
  <2>3. UNCHANGED <<rcpts, eof>> /\ asked' = FALSE /\ lines' = <<>>
    BY <1>1
  <2> QED BY <2>1, <2>2, <2>3, Zenon DEF SerieInv, SerieType
<1>4. SentInv'
  BY <1>1, SentStays DEF SerieInv
<1>5. CASE Serie!Refused
  <2>1. pc' = "exit" /\ exit' = 2 /\ UNCHANGED <<p, todo>>
    BY <1>5 DEF Serie!Resp, Serie!Exit
  <2>2. SerieType'
    BY <1>0, <2>1 DEF SerieType
  <2>3. LoopInv'
    BY <1>1, <1>2, <1>3, <2>1 DEF SerieInv, LoopInv, Delivering, Serie!options
  <2>4. RcptInv'
    BY <2>1 DEF RcptInv
  <2> QED BY <1>4, <2>2, <2>3, <2>4 DEF SerieInv
<1>6. CASE ~Serie!Refused
  <2>1. /\ pc' = Serie!After(pc)
        /\ exit' = IF pc = "quit" THEN 0 ELSE exit
        /\ todo' = IF pc = "rcpt" THEN Tail(todo) ELSE todo
        /\ p' = IF pc = "body" THEN p + 1 ELSE p
    BY <1>6 DEF Serie!Resp
  <2>2. Done
    BY <1>6 DEF Serie!Refused, Done
  <2>3. CASE pc \in {"banner", "ehlo", "auth", "user", "pass"}
    <3>1. pc' \in {"ehlo", "auth", "user", "pass", "parse"} /\ UNCHANGED <<exit, todo, p>>
      BY <2>1, <2>3 DEF Serie!After
    <3>2. SerieType'
      BY <1>0, <3>1 DEF SerieType, Serie!Commands
    <3>3. LoopInv'
      BY <1>1, <1>2, <1>3, <2>3, <3>1 DEF SerieInv, LoopInv, Delivering, Serie!options
    <3>4. RcptInv'
      BY <3>1 DEF RcptInv
    <3> QED BY <1>4, <3>2, <3>3, <3>4 DEF SerieInv
  <2>4. CASE pc = "mail"
    <3>1. pc' = "rcpt" /\ UNCHANGED <<exit, todo, p>>
      BY <2>1, <2>4 DEF Serie!After
    <3>2. SerieType'
      BY <1>0, <3>1 DEF SerieType, Serie!Commands
    <3>3. LoopInv'
      BY <1>1, <1>2, <1>3, <2>4, <3>1 DEF SerieInv, LoopInv, Delivering, Serie!options
    <3>4. /\ rcpts = <<>> /\ todo = Serie!Recipients(patches[p])
          /\ todo # <<>> /\ todo \in Seq(STRING)
      BY <2>2, <2>4 DEF SerieInv, RcptInv, SerieType
    <3>5. rcpts' \o todo' = Serie!Recipients(patches[p])'
      <4>1. <<>> \o todo = todo
        BY <3>4
      <4> QED BY <1>1, <1>3, <3>1, <3>4, <4>1
    <3>6. RcptInv'
      BY <1>3, <3>1, <3>4, <3>5 DEF RcptInv
    <3> QED BY <1>4, <3>2, <3>3, <3>6 DEF SerieInv
  <2>5. CASE pc = "rcpt"
    <3>1. pc' = (IF Len(todo) > 1 THEN "rcpt" ELSE "data") /\ todo' = Tail(todo)
          /\ UNCHANGED <<exit, p>>
      BY <2>1, <2>5 DEF Serie!After
    <3>2. todo # <<>> /\ rcpts \o Tail(todo) = Serie!Recipients(patches[p])
          /\ todo \in Seq(STRING) /\ rcpts \in Seq(STRING)
      BY <2>2, <2>5 DEF SerieInv, RcptInv, SerieType
    <3>3. Tail(todo) \in Seq(STRING) /\ Len(Tail(todo)) = Len(todo) - 1 /\ Len(todo) \in Nat
      BY <3>2
    <3>4. SerieType'
      BY <1>0, <3>1, <3>3 DEF SerieType, Serie!Commands
    <3>5. LoopInv'
      BY <1>1, <1>2, <1>3, <2>5, <3>1 DEF SerieInv, LoopInv, Delivering, Serie!options
    <3>6. rcpts' \o todo' = Serie!Recipients(patches[p])'
      BY <1>1, <1>3, <3>1, <3>2
    <3>7. CASE Len(todo) > 1
      <4>1. Tail(todo) # <<>>
        <5>1. PICK n \in Nat : n = Len(todo) /\ Len(Tail(todo)) = n - 1
          BY <3>3, Zenon
        <5>2. n > 1
          BY <3>7, <5>1, Zenon
        <5>3. n - 1 # 0
          BY <5>2
        <5> QED BY <5>1, <5>3, Blank, Zenon
      <4> QED BY <1>3, <1>4, <3>1, <3>4, <3>5, <3>6, <3>7, <4>1 DEF SerieInv, RcptInv
    <3>8. CASE ~(Len(todo) > 1)
      <4>1. Tail(todo) = <<>>
        BY <3>2, <3>3, <3>8
      <4>2. rcpts \o <<>> = rcpts
        BY <3>2
      <4>3. rcpts' = Serie!Recipients(patches[p])'
        BY <1>1, <3>1, <3>6, <4>1, <4>2
      <4> QED BY <1>4, <3>1, <3>4, <3>5, <3>8, <4>3 DEF SerieInv, RcptInv
    <3> QED BY <3>7, <3>8
  <2>6. CASE pc = "data"
    <3>1. pc' = "body" /\ UNCHANGED <<exit, todo, p>>
      BY <2>1, <2>6 DEF Serie!After
    <3>2. SerieType'
      BY <1>0, <3>1 DEF SerieType, Serie!Commands
    <3>3. LoopInv'
      BY <1>1, <1>2, <1>3, <2>6, <3>1 DEF SerieInv, LoopInv, Delivering, Serie!options
    <3>4. RcptInv'
      BY <1>1, <1>3, <2>6, <3>1 DEF SerieInv, RcptInv
    <3> QED BY <1>4, <3>2, <3>3, <3>4 DEF SerieInv
  <2>7. CASE pc = "body"
    <3>1. pc' = "build" /\ p' = p + 1 /\ UNCHANGED <<exit, todo>>
      BY <2>1, <2>7 DEF Serie!After
    <3>2. p <= Len(patches) /\ Len(accepted) = p /\ Parsable
      BY <2>2, <2>7 DEF SerieInv, LoopInv, Delivering
    <3>3. SerieType'
      BY <1>0, <1>2, <3>1, <3>2 DEF SerieType, Serie!Commands
    <3>4. LoopInv'
      BY <1>1, <1>2, <1>3, <3>1, <3>2 DEF LoopInv, Delivering, Serie!options
    <3>5. RcptInv'
      BY <3>1 DEF RcptInv
    <3> QED BY <1>4, <3>3, <3>4, <3>5 DEF SerieInv
  <2>8. CASE pc = "quit"
    <3>1. pc' = "exit" /\ exit' = 0 /\ UNCHANGED <<todo, p>>
      BY <2>1, <2>8 DEF Serie!After
    <3>2. p = Len(patches) + 1 /\ Len(accepted) = p - 1
      BY <2>8 DEF SerieInv, LoopInv
    <3>3. SerieType'
      BY <1>0, <3>1 DEF SerieType, Serie!Commands
    <3>4. LoopInv'
      BY <1>1, <1>2, <1>3, <3>1, <3>2 DEF SerieInv, LoopInv, Delivering, Serie!options
    <3>5. RcptInv'
      BY <3>1 DEF RcptInv
    <3> QED BY <1>4, <3>3, <3>4, <3>5 DEF SerieInv
  <2> QED BY <1>1, <2>3, <2>4, <2>5, <2>6, <2>7, <2>8 DEF Serie!Commands
<1> QED BY <1>5, <1>6

\* Naming the next recipient changes nothing of who they are.
LEMMA Passes ==
  ASSUME NEW S, NEW q \in Seq(S), NEW r \in Seq(S), r # <<>>
  PROVE  Append(q, Head(r)) \o Tail(r) = q \o r
<1>1. r = <<Head(r)>> \o Tail(r) /\ Head(r) \in S /\ Tail(r) \in Seq(S)
  OBVIOUS
<1>2. \A a \in S, u \in Seq(S) : Append(q, a) \o u = q \o (<<a>> \o u)
  OBVIOUS
<1> QED BY <1>1, <1>2, Zenon

\* What the server answers, and what it does for it
LEMMA ServerKeeps ==
  ASSUME SerieInv, Serie!Awaiting, UNCHANGED <<Serie!options, pc, asked, p, todo, exit>>,
         lines' \in Seq(Lines), eof' \in BOOLEAN, ~Idle',
         Serie!Obey \/ (~Done' /\ UNCHANGED <<rcpts, accepted>>)
  PROVE  SerieInv'
<1>1. /\ pc \in Serie!Commands /\ asked /\ Idle
      /\ UNCHANGED <<Serie!options, mbox, patches, common, pc, asked, p, todo, exit>>
  BY DEF Serie!Awaiting, Idle, Serie!options
<1>2. /\ patches \in Seq(Serie!Patches) /\ Len(patches) \in Nat /\ p \in 1 .. Len(patches) + 1
      /\ DOMAIN patches = 1 .. Len(patches)
      /\ ~mbox /\ todo \in Seq(STRING) /\ rcpts \in Seq(STRING) /\ exit # 0
  BY <1>1, SerieIs DEF SerieInv, SerieType, LoopInv, Serie!Commands
<1>3. /\ Parsable' = Parsable
      /\ \A i : Serie!Recipients(patches[i])' = Serie!Recipients(patches[i])
  BY OptionsKeep
<1>4. rcpts' \in Seq(STRING) => SerieType'
  <2>1. asked' /\ asked' \in BOOLEAN /\ mbox' \in BOOLEAN
    <3>1. asked' = asked /\ mbox' = mbox /\ asked
      BY <1>1
    <3>2. asked \in {TRUE, FALSE} /\ mbox \in BOOLEAN
      BY DEF SerieInv, SerieType
    <3>3. asked = TRUE
      BY <3>1, <3>2, Zenon
    <3>4. asked' = TRUE
      BY <3>1, <3>3, Zenon
    <3> QED BY <3>1, <3>2, <3>4, Zenon
  <2> QED BY <1>1, <2>1 DEF SerieInv, SerieType
<1>5. CASE ~Done' /\ UNCHANGED <<rcpts, accepted>>
  <2>1. LoopInv'
    BY <1>1, <1>3, <1>5 DEF SerieInv, LoopInv, Delivering
  <2>2. RcptInv'
    BY <1>1, <1>3, <1>5 DEF SerieInv, RcptInv
  <2> QED BY <1>2, <1>4, <1>5, <2>1, <2>2, SentStays DEF SerieInv
<1>6. CASE Serie!Obey /\ pc = "body"
  <2>1. /\ rcpts' = rcpts
        /\ accepted' = Append(accepted, Serie!Message(p, rcpts, Serie!Taken(Serie!OnWire)))
    BY <1>6 DEF Serie!Obey
  <2>2. /\ p \in DOMAIN patches /\ rcpts = Serie!Recipients(patches[p])
        /\ Len(accepted) = p - 1 /\ Parsable
    BY <1>1, <1>2, <1>6 DEF SerieInv, LoopInv, RcptInv, Delivering
  <2>3. Sent(p) = Serie!Message(p, rcpts, Serie!Taken(Serie!OnWire))
    BY <1>2, <2>2, TakenIs DEF Sent, SerieInv
  <2>4. accepted' = Append(accepted, Sent(p)) /\ SentAs(p, Sent(p))
    BY <2>1, <2>3 DEF SentAs
  <2>5. SentInv' /\ Len(accepted') = p /\ accepted' # <<>>
    BY <1>2, <2>2, <2>4, SentGrows DEF SerieInv
  <2>6. p <= Len(patches) /\ p \in Nat
    BY <1>2, <2>2
  <2>7. LoopInv'
    BY <1>1, <1>2, <1>3, <1>6, <2>2, <2>5, <2>6 DEF LoopInv, Delivering
  <2>8. RcptInv'
    BY <1>1, <1>3, <1>6, <2>1, <2>2 DEF RcptInv
  <2>9. SerieType'
    BY <1>2, <1>4, <2>1
  <2> QED BY <2>5, <2>7, <2>8, <2>9 DEF SerieInv
<1>7. CASE Serie!Obey /\ pc # "body"
  <2>1. accepted' = accepted
    BY <1>7 DEF Serie!Obey
  <2>2. LoopInv'
    BY <1>1, <1>3, <1>7, <2>1 DEF SerieInv, LoopInv, Delivering
  <2>3. SentInv'
    BY <2>1, SentStays DEF SerieInv
  <2>4. CASE pc = "mail"
    <3>1. rcpts' = <<>>
      BY <1>7, <2>4 DEF Serie!Obey
    <3>2. RcptInv'
      BY <1>1, <1>3, <2>4, <3>1 DEF SerieInv, RcptInv
    <3>3. rcpts' \in Seq(STRING)
      BY <3>1, Blank
    <3> QED BY <1>4, <2>2, <2>3, <3>2, <3>3 DEF SerieInv
  <2>5. CASE pc = "rcpt"
    <3>1. rcpts' = Append(rcpts, Head(todo))
      BY <1>7, <2>5 DEF Serie!Obey
    <3>2. todo # <<>> /\ rcpts \o todo = Serie!Recipients(patches[p])
      BY <1>1, <2>5 DEF SerieInv, RcptInv
    <3>3. Append(rcpts, Head(todo)) \in Seq(STRING)
      BY <1>2, <3>2
    <3>4. Append(rcpts, Head(todo)) \o Tail(todo) = rcpts \o todo
      BY <1>2, <3>2, Passes, Zenon
    <3>5. rcpts' \o Tail(todo) = Serie!Recipients(patches[p])
      BY <3>1, <3>2, <3>4, Zenon
    <3>6. RcptInv'
      BY <1>1, <1>3, <2>5, <3>2, <3>5 DEF RcptInv
    <3>7. rcpts' \in Seq(STRING)
      BY <3>1, <3>3, Zenon
    <3> QED BY <1>4, <2>2, <2>3, <3>6, <3>7 DEF SerieInv
  <2>6. CASE pc \notin {"mail", "rcpt"}
    <3>1. rcpts' = rcpts
      BY <1>7, <2>6 DEF Serie!Obey
    <3>2. RcptInv'
      BY <1>1, <1>3, <2>6, <3>1 DEF SerieInv, RcptInv
    <3> QED BY <1>2, <1>4, <2>2, <2>3, <3>1, <3>2 DEF SerieInv
  <2> QED BY <2>4, <2>5, <2>6
<1> QED BY <1>5, <1>6, <1>7

\* The answers there are
LEMMA AnswersAre ==
  ASSUME NEW c \in Int
  PROVE  /\ <<[code |-> c, more |-> FALSE]>> \in Seq(Lines)
         /\ <<[code |-> c, more |-> TRUE]>> \in Seq(Lines)
         /\ <<[code |-> c, more |-> FALSE]>> # <<>> /\ <<[code |-> c, more |-> TRUE]>> # <<>>
         /\ <<[code |-> c, more |-> TRUE]>> \o <<[code |-> c, more |-> FALSE]>> \in Seq(Lines)
         /\ <<[code |-> c, more |-> TRUE]>> \o <<[code |-> c, more |-> FALSE]>> # <<>>
         /\ <<>> \o <<[code |-> c, more |-> FALSE]>> = <<[code |-> c, more |-> FALSE]>>
<1>1. [code |-> c, more |-> FALSE] \in Lines /\ [code |-> c, more |-> TRUE] \in Lines
  BY DEF Lines
<1> DEFINE a == [code |-> c, more |-> FALSE]
           b == [code |-> c, more |-> TRUE]
<1> HIDE DEF a, b, Lines
<1>2. /\ <<a>> \in Seq(Lines) /\ <<b>> \in Seq(Lines) /\ <<a>> # <<>> /\ <<b>> # <<>>
      /\ <<b>> \o <<a>> \in Seq(Lines) /\ <<b>> \o <<a>> # <<>> /\ <<>> \o <<a>> = <<a>>
  <2>1. a \in Lines /\ b \in Lines
    BY <1>1 DEF a, b
  <2> QED BY <2>1
<1> QED BY <1>2 DEF a, b

LEMMA ReplyKeeps ==
  ASSUME SerieInv, Serie!Reply
  PROVE  SerieInv'
<1>1. /\ Serie!Awaiting /\ UNCHANGED <<Serie!options, pc, asked, p, todo, exit, eof>>
      /\ pc \in Serie!Commands /\ asked' = TRUE /\ eof' \in BOOLEAN
  BY DEF Serie!Reply, Serie!Awaiting, SerieInv, SerieType
<1>2. Serie!Class(pc) \in Int /\ Serie!Class(pc) \in {2, 3} /\ 5 \in Int /\ 0 \in Int
  BY DEF Serie!Class
<1>3. CASE Serie!Obey /\ \E first \in {<<>>, <<[code |-> Serie!Class(pc), more |-> TRUE]>>} :
                     lines' = first \o <<[code |-> Serie!Class(pc), more |-> FALSE]>>
  <2>1. lines' \in Seq(Lines) /\ lines' # <<>>
    BY <1>2, <1>3, AnswersAre, Zenon
  <2>2. ~Idle'
    BY <1>1, <2>1 DEF Idle
  <2> QED BY <1>1, <1>3, <2>1, <2>2, ServerKeeps
<1>4. CASE /\ lines' \in {<<[code |-> 5, more |-> FALSE]>>, <<[code |-> 0, more |-> TRUE]>>}
           /\ UNCHANGED <<rcpts, accepted>>
  <2>1. lines' \in Seq(Lines) /\ lines' # <<>>
    BY <1>2, <1>4, AnswersAre, Zenon
  <2>2. ~Idle'
    BY <1>1, <2>1 DEF Idle
  <2>3. Serie!LastLine'.code \in {5, 0}
    BY <1>4 DEF Serie!LastLine
  <2>4. ~Done'
    BY <1>1, <1>2, <2>3 DEF Done, Serie!Class
  <2> QED BY <1>1, <1>4, <2>1, <2>2, <2>4, ServerKeeps
<1> QED BY <1>3, <1>4 DEF Serie!Reply

LEMMA BreakKeeps ==
  ASSUME SerieInv, Serie!Break
  PROVE  SerieInv'
<1>1. /\ Serie!Awaiting /\ UNCHANGED <<Serie!options, pc, asked, p, todo, exit>>
      /\ asked' = TRUE /\ eof' = TRUE /\ lines = <<>>
  BY DEF Serie!Break, Serie!Awaiting, SerieInv, SerieType
<1>2. Serie!Class(pc) \in Int
  BY DEF Serie!Class
<1>3. ~Idle' /\ eof' \in BOOLEAN
  BY <1>1 DEF Idle
<1>4. CASE Serie!Obey /\ lines' \in {<<>>, <<[code |-> Serie!Class(pc), more |-> TRUE]>>}
  <2>1. lines' \in Seq(Lines)
    BY <1>2, <1>4, AnswersAre, Blank
  <2> QED BY <1>1, <1>3, <1>4, <2>1, ServerKeeps
<1>5. CASE UNCHANGED <<rcpts, accepted, lines>>
  <2>1. lines' = <<>> /\ lines' \in Seq(Lines)
    BY <1>1, <1>5, Blank
  <2>2. ~Done'
    BY <2>1 DEF Done
  <2> QED BY <1>1, <1>3, <1>5, <2>1, <2>2, ServerKeeps
<1> QED BY <1>4, <1>5 DEF Serie!Break

LEMMA StutterKeeps ==
  ASSUME SerieInv, UNCHANGED Serie!vars
  PROVE  SerieInv'
<1>1. UNCHANGED <<Serie!options, mbox, patches, common, pc, asked, p, todo, exit, lines, eof,
                  rcpts, accepted>>
  BY DEF Serie!vars, Serie!options, Serie!server
<1>2. /\ Parsable' = Parsable /\ Idle' = Idle /\ Done' = Done
      /\ \A i : Serie!Recipients(patches[i])' = Serie!Recipients(patches[i])
  BY <1>1, OptionsKeep DEF Idle, Done, Serie!LastLine, Serie!Class
<1>3. SerieType'
  BY <1>1 DEF SerieInv, SerieType
<1>4. LoopInv'
  BY <1>1, <1>2 DEF SerieInv, LoopInv, Delivering
<1>5. RcptInv'
  BY <1>1, <1>2 DEF SerieInv, RcptInv
<1> QED BY <1>1, <1>3, <1>4, <1>5, SentStays DEF SerieInv

-----------------------------------------------------------------------------
(* xfcrawl: the invariant *)

INSTANCE WellFoundedInduction

Records == Contents \cup Crawl!Marks
Fetching == {"peek", "fetch", "write"}

CrawlType ==
  /\ rdb \in [Urls -> Records] /\ db \in [Urls -> Records] /\ kept \in [Urls -> Records]
  /\ files \in [Contents -> {"none", "part", "whole"}] /\ damaged \subseteq Contents
  /\ pc \in {"idle", "search", "save", "saving"} \cup Fetching

\* The URLs still to be fetched are different ones, none of them recorded.
UarInv ==
  /\ DOMAIN uar \subseteq Nat /\ \A i \in DOMAIN uar : uar[i] \in Urls
  /\ \A i, j \in DOMAIN uar : uar[i] = uar[j] => i = j
  /\ pc \in Fetching => DOMAIN uar # {} /\ \A i \in DOMAIN uar : rdb[uar[i]] = NULL

\* A run knows all that was recorded before it and that it could read.
KnownInv ==
  /\ pc # "idle" =>
       \A u \in Urls : db[u] # NULL \/ kept[u] # NULL => rdb[u] # NULL \/ u \in lost
  /\ pc # "saving" => \A u \in Urls : kept[u] # NULL => db[u] = kept[u]

\* What a record names is on disk.
OnDisk(f, d, c) == f[c] = "whole" \/ c \in d
Stored(c) == OnDisk(files, damaged, c) \/ (pc = "write" /\ Crawl!Document = c)
StoredInv ==
  /\ \A u \in Urls : db[u] \in Contents => Stored(db[u])
  /\ \A u \in Urls : rdb[u] \in Contents => Stored(rdb[u])

CrawlInv == CrawlType /\ UarInv /\ KnownInv /\ StoredInv

-----------------------------------------------------------------------------

\* A set of numbers that is not empty has a least one.
LEMMA Least ==
  ASSUME NEW S, S \subseteq Nat, S # {}
  PROVE  \E m \in S : \A n \in S : m <= n
<1> DEFINE R == {x \in Nat \X Nat : x[1] < x[2]}
<1>1. IsWellFoundedOn(R, Nat)
  <2>1. OpToRel(<, Nat) = R
    BY Zenon DEF OpToRel
  <2> QED BY <2>1, NatLessThanWellFounded, Zenon
<1>2. \A x, y \in Nat : <<y, x>> \in R <=> y < x
  OBVIOUS
<1> HIDE DEF R
<1>3. \E x \in S : \A y \in S : ~ (<<y, x>> \in R)
  BY <1>1, WFMin, Zenon
<1>4. PICK x \in S : \A y \in S : ~ (<<y, x>> \in R)
  BY <1>3
<1>5. \A y \in S : ~(y < x)
  BY <1>2, <1>4
<1>6. \A y \in S : x <= y
  BY <1>5
<1> QED BY <1>6

LEMMA FirstIs ==
  ASSUME DOMAIN uar \subseteq Nat, DOMAIN uar # {}
  PROVE  Crawl!First \in DOMAIN uar
BY Least, Zenon DEF Crawl!First

\* The URL to fetch is one of those to fetch, and the others come after it.
LEMMA UrlIs ==
  ASSUME UarInv, DOMAIN uar # {}
  PROVE  /\ Crawl!Url \in Urls
         /\ DOMAIN Crawl!Rest \subseteq DOMAIN uar
         /\ \A i \in DOMAIN Crawl!Rest : Crawl!Rest[i] = uar[i] /\ Crawl!Rest[i] # Crawl!Url
         /\ pc \in Fetching => rdb[Crawl!Url] = NULL
<1>1. Crawl!First \in DOMAIN uar
  BY FirstIs DEF UarInv
<1> QED BY <1>1 DEF UarInv, Crawl!Url, Crawl!Rest

\* The links to fetch
LEMMA NewLinksAre ==
  ASSUME CrawlType, NEW links \in Seq(Crawl!Links)
  PROVE  LET new == Crawl!NewLinks(links)
         IN /\ DOMAIN new \subseteq Nat
            /\ \A i \in DOMAIN new : new[i] \in Urls /\ rdb[new[i]] = NULL
            /\ \A i, j \in DOMAIN new : new[i] = new[j] => i = j
<1> DEFINE S == {i \in DOMAIN links :
                  /\ Crawl!New(links[i])
                  /\ \A j \in 1 .. i - 1 : Crawl!New(links[j]) => links[j].url # links[i].url}
           new == [i \in S |-> links[i].url]
<1>1. Crawl!NewLinks(links) = new
  BY DEF Crawl!NewLinks
<1>2. S \subseteq Nat /\ DOMAIN links = 1 .. Len(links)
  OBVIOUS
<1>3. \A i \in S : new[i] = links[i].url /\ links[i].url \in Urls /\ rdb[links[i].url] = NULL
  <2>1. \A i \in DOMAIN links : links[i].url \in Urls
    <3>1. \A l \in Crawl!Links : l.url \in Urls
      BY DEF Crawl!Links
    <3>2. \A i \in DOMAIN links : links[i] \in Crawl!Links
      OBVIOUS
    <3> QED BY <3>1, <3>2
  <2>2. \A i \in DOMAIN links : Crawl!New(links[i]) => rdb[links[i].url] = NULL
    BY DEF Crawl!New
  <2> QED BY <2>1, <2>2
<1>4. \A i, j \in S : i < j => new[i] # new[j]
  <2> SUFFICES ASSUME NEW i \in S, NEW j \in S, i < j PROVE links[i].url # links[j].url
    BY <1>3
  <2>1. i \in 1 .. j - 1
    BY <1>2
  <2>2. Crawl!New(links[i])
    OBVIOUS
  <2>3. \A k \in 1 .. j - 1 : Crawl!New(links[k]) => links[k].url # links[j].url
    OBVIOUS
  <2> QED BY <2>1, <2>2, <2>3, Zenon
<1>5. \A i, j \in S : new[i] = new[j] => i = j
  <2> SUFFICES ASSUME NEW i \in S, NEW j \in S, new[i] = new[j] PROVE i = j
    OBVIOUS
  <2>1. ~(i < j) /\ ~(j < i)
    BY <1>4, Zenon
  <2>2. i \in Nat /\ j \in Nat
    BY <1>2
  <2> HIDE DEF S
  <2> QED BY <2>1, <2>2
<1>6. DOMAIN new = S
  OBVIOUS
<1> HIDE DEF new, S
<1> QED BY <1>1, <1>2, <1>3, <1>5, <1>6

\* The part of a page that is looked at
LEMMA LookedIs ==
  ASSUME NEW links \in Seq(Crawl!Links)
  PROVE  Crawl!Looked(links) \in Seq(Crawl!Links)
<1> DEFINE near == {i \in DOMAIN links : links[i].near}
           k == CHOOSE i \in near : \A j \in near : i <= j
<1>1. CASE near = {}
  BY <1>1 DEF Crawl!Looked
<1>2. CASE near # {}
  <2>1. near \subseteq Nat /\ near \subseteq 1 .. Len(links)
    OBVIOUS
  <2>2. k \in near
    <3> HIDE DEF near
    <3> QED BY <1>2, <2>1, Least, Zenon
  <2>3. Crawl!Looked(links) = SubSeq(links, 1, k)
    BY <1>2 DEF Crawl!Looked
  <2>4. k \in 1 .. Len(links)
    BY <2>1, <2>2
  <2> HIDE DEF k, near
  <2> QED BY <2>3, <2>4
<1> QED BY <1>1, <1>2

-----------------------------------------------------------------------------
(* The steps *)

LEMMA CrawlInit == Crawl!Init => CrawlInv
<1> SUFFICES ASSUME Crawl!Init PROVE CrawlInv
  OBVIOUS
<1>1. /\ \A u \in Urls : rdb[u] = NULL /\ db[u] = NULL /\ kept[u] = NULL
      /\ pc = "idle" /\ NULL \notin Contents /\ DOMAIN uar = {}
  BY CrawlAssumption DEF Crawl!Init, Crawl!Unknown, Crawl!Marks
<1>2. CrawlType
  BY DEF Crawl!Init, CrawlType, Records, Crawl!Marks, Crawl!Unknown
<1> QED BY <1>1, <1>2 DEF CrawlInv, UarInv, KnownInv, StoredInv, Fetching

\* Records that were read or written in part tell less than the whole, and nothing
\* else that names a document.
LEMMA PartsAre ==
  ASSUME NEW f \in [Urls -> Records], NEW d \in Crawl!Parts(f)
  PROVE  /\ d \in [Urls -> Records]
         /\ \A u \in Urls : d[u] \in Contents => d[u] = f[u]
<1>1. /\ \A u \in Urls : f[u] \in Records
      /\ "torn" \in Records /\ "torn" \notin Contents /\ NULL \in Records /\ NULL \notin Contents
  BY CrawlAssumption DEF Records, Crawl!Marks
<1>2. PICK S, T :
        d = [u \in Urls |-> IF u \in S THEN f[u] ELSE IF u \in T THEN "torn" ELSE NULL]
  BY DEF Crawl!Parts
<1> QED BY <1>1, <1>2

LEMMA StartKeeps ==
  ASSUME CrawlInv, Crawl!Start
  PROVE  CrawlInv'
<1>1. /\ pc = "idle" /\ rdb' \in Crawl!Parts(db) /\ DOMAIN uar' = {}
      /\ lost' = {u \in Urls : rdb'[u] # db[u]} /\ pc' \in {"search", "save"}
      /\ UNCHANGED <<db, kept, files, damaged>>
  BY DEF Crawl!Start, Crawl!Round, Crawl!Loaded, Crawl!disk
<1>6. /\ rdb' \in [Urls -> Records]
      /\ \A u \in Urls : rdb'[u] \in Contents => rdb'[u] = db[u]
  BY <1>1, PartsAre DEF CrawlInv, CrawlType
<1>2. CrawlType'
  BY <1>1, <1>6 DEF CrawlInv, CrawlType
<1>3. UarInv'
  BY <1>1 DEF UarInv, Fetching
<1>4. KnownInv'
  BY <1>1 DEF CrawlInv, KnownInv
<1>5. StoredInv'
  BY <1>1, <1>6 DEF CrawlInv, StoredInv, Stored, OnDisk
<1> QED BY <1>2, <1>3, <1>4, <1>5 DEF CrawlInv

LEMMA SearchKeeps ==
  ASSUME CrawlInv, Crawl!Search
  PROVE  CrawlInv'
<1>1. pc = "search" /\ UNCHANGED <<rdb, lost, db, kept, files, damaged>>
  BY DEF Crawl!Search, Crawl!disk
<1>2. PICK page \in IF base < MaxPages THEN Pages ELSE {<<>>} :
        LET links == Crawl!Looked(page)
            count == Crawl!Cardinality({i \in DOMAIN links : links[i].http})
            new == Crawl!NewLinks(links)
        IN /\ uar' = new /\ ucount' = count
           /\ IF DOMAIN new # {} THEN pc' = "peek" /\ UNCHANGED base
              ELSE pc' = Crawl!AfterPage(count, base + 1) /\ base' = base + 1
  BY DEF Crawl!Search
<1>3. page \in Seq(Crawl!Links)
  <2>1. <<>> \in Seq(Crawl!Links)
    OBVIOUS
  <2> QED BY <2>1, CrawlAssumption, Zenon
<1>4. Crawl!Looked(page) \in Seq(Crawl!Links)
  BY <1>3, LookedIs
<1>5. uar' = Crawl!NewLinks(Crawl!Looked(page)) /\ pc' \in {"peek", "search", "save"}
      /\ (pc' = "peek" => DOMAIN uar' # {})
  BY <1>2 DEF Crawl!AfterPage, Crawl!Round
<1>6. /\ DOMAIN uar' \subseteq Nat
      /\ \A i \in DOMAIN uar' : uar'[i] \in Urls /\ rdb[uar'[i]] = NULL
      /\ \A i, j \in DOMAIN uar' : uar'[i] = uar'[j] => i = j
  BY <1>4, <1>5, NewLinksAre DEF CrawlInv
<1>7. CrawlType'
  BY <1>1, <1>5 DEF CrawlInv, CrawlType, Fetching
<1>8. UarInv'
  BY <1>1, <1>5, <1>6 DEF UarInv, Fetching
<1>9. KnownInv'
  BY <1>1, <1>5 DEF CrawlInv, KnownInv
<1>10. StoredInv'
  BY <1>1, <1>5 DEF CrawlInv, StoredInv, Stored, OnDisk
<1> QED BY <1>7, <1>8, <1>9, <1>10 DEF CrawlInv

\* What fetch_file may return
LEMMA ReturnKeeps ==
  ASSUME CrawlInv, pc \in Fetching, NEW v \in Records, Crawl!Return(v), UNCHANGED <<db, kept>>,
         files' \in [Contents -> {"none", "part", "whole"}], damaged' \subseteq Contents,
         \A c \in Contents : Stored(c) => OnDisk(files', damaged', c),
         v \in Contents => OnDisk(files', damaged', v)
  PROVE  CrawlInv'
<1>1. /\ Crawl!Url \in Urls /\ rdb[Crawl!Url] = NULL
      /\ DOMAIN Crawl!Rest \subseteq DOMAIN uar
      /\ \A i \in DOMAIN Crawl!Rest : Crawl!Rest[i] = uar[i] /\ Crawl!Rest[i] # Crawl!Url
  BY UrlIs DEF CrawlInv, UarInv
<1>2. /\ rdb' \in [Urls -> Records]
      /\ \A u \in Urls : u # Crawl!Url => rdb'[u] = rdb[u]
      /\ \A u \in Urls : rdb[u] # NULL => rdb'[u] # NULL
      /\ \A u \in Urls : rdb'[u] \in {rdb[u], v}
  <2>1. CASE v = NULL
    BY <2>1 DEF Crawl!Return, CrawlInv, CrawlType
  <2>2. CASE v # NULL
    <3>1. rdb' = [rdb EXCEPT ![Crawl!Url] = v]
      BY <2>2 DEF Crawl!Return
    <3> QED BY <1>1, <2>2, <3>1 DEF CrawlInv, CrawlType
  <2> QED BY <2>1, <2>2
<1>3. /\ pc' \in {"peek", "search", "save"}
      /\ \/ uar' = Crawl!Rest /\ DOMAIN Crawl!Rest # {}
         \/ DOMAIN uar' = {} /\ pc' # "peek"
  BY DEF Crawl!Return, Crawl!AfterPage, Crawl!Round
<1>4. CrawlType'
  BY <1>2, <1>3 DEF CrawlInv, CrawlType, Fetching
<1>5. UarInv'
  <2>1. CASE uar' = Crawl!Rest /\ DOMAIN Crawl!Rest # {}
    <3>1. /\ DOMAIN uar' # {} /\ DOMAIN uar' \subseteq DOMAIN uar
          /\ \A i \in DOMAIN uar' : uar'[i] = uar[i] /\ uar[i] # Crawl!Url
      BY <1>1, <2>1
    <3>2. /\ DOMAIN uar \subseteq Nat /\ \A i \in DOMAIN uar : uar[i] \in Urls
          /\ \A i, j \in DOMAIN uar : uar[i] = uar[j] => i = j
          /\ \A i \in DOMAIN uar : rdb[uar[i]] = NULL
      BY DEF CrawlInv, UarInv
    <3>3. \A i \in DOMAIN uar' : rdb'[uar'[i]] = NULL
      BY <1>2, <3>1, <3>2
    <3> QED BY <3>1, <3>2, <3>3 DEF UarInv
  <2>2. CASE DOMAIN uar' = {} /\ pc' # "peek"
    BY <1>3, <2>2 DEF UarInv, Fetching
  <2> QED BY <1>3, <2>1, <2>2
<1>6. KnownInv'
  <2>1. lost' = lost
    BY DEF Crawl!Return
  <2> QED BY <1>2, <1>3, <2>1 DEF CrawlInv, KnownInv, Fetching
<1>7. StoredInv'
  <2>1. \A u \in Urls : db'[u] \in Contents => OnDisk(files', damaged', db'[u])
    BY DEF CrawlInv, StoredInv
  <2>2. \A u \in Urls : rdb'[u] \in Contents => OnDisk(files', damaged', rdb'[u])
    BY <1>2 DEF CrawlInv, StoredInv
  <2> QED BY <2>1, <2>2 DEF StoredInv, Stored
<1> QED BY <1>4, <1>5, <1>6, <1>7 DEF CrawlInv

LEMMA DropKeeps ==
  ASSUME CrawlInv, Crawl!Drop \/ Crawl!OpenFails
  PROVE  CrawlInv'
<1>1. /\ pc \in Fetching /\ pc # "write" /\ UNCHANGED <<db, kept, files, damaged>>
      /\ Crawl!Return("dropped") \/ Crawl!Return(NULL)
  BY DEF Crawl!Drop, Crawl!OpenFails, Crawl!Unable, Crawl!disk, Fetching
<1>2. /\ "dropped" \in Records /\ NULL \in Records
      /\ "dropped" \notin Contents /\ NULL \notin Contents
  BY CrawlAssumption DEF Records, Crawl!Marks
<1>3. \A c \in Contents : Stored(c) => OnDisk(files', damaged', c)
  BY <1>1 DEF Stored, OnDisk
<1>4. files' \in [Contents -> {"none", "part", "whole"}] /\ damaged' \subseteq Contents
  BY <1>1 DEF CrawlInv, CrawlType
<1> QED BY <1>1, <1>2, <1>3, <1>4, ReturnKeeps

LEMMA DocumentIs ==
  ASSUME CrawlInv, pc \in Fetching
  PROVE  Crawl!Document \in Contents
BY UrlIs, CrawlAssumption DEF CrawlInv, UarInv, Crawl!Document

LEMMA WriteKeeps ==
  ASSUME CrawlInv, Crawl!Write
  PROVE  CrawlInv'
<1>1. pc = "write" /\ pc \in Fetching /\ Crawl!Return(Crawl!Document) /\ UNCHANGED <<db, kept>>
  BY DEF Crawl!Write, Fetching
<1>2. Crawl!Document \in Contents /\ Crawl!Document \in Records
  BY <1>1, DocumentIs DEF Records
<1>3. \/ /\ files' = [files EXCEPT ![Crawl!Document] = "whole"]
         /\ damaged' = damaged \ {Crawl!Document}
      \/ damaged' = damaged \cup {Crawl!Document} /\ UNCHANGED files
  BY DEF Crawl!Write
<1>4. files' \in [Contents -> {"none", "part", "whole"}] /\ damaged' \subseteq Contents
  BY <1>2, <1>3 DEF CrawlInv, CrawlType
<1>5. \A c \in Contents : Stored(c) => OnDisk(files', damaged', c)
  BY <1>2, <1>3 DEF CrawlInv, CrawlType, Stored, OnDisk
<1>6. OnDisk(files', damaged', Crawl!Document)
  BY <1>2, <1>3 DEF CrawlInv, CrawlType, OnDisk
<1> QED BY <1>1, <1>2, <1>4, <1>5, <1>6, ReturnKeeps

\* The records that are kept when save_db has written them all
Keeping == [u \in Urls |-> IF rdb[u] = NULL /\ u \notin lost THEN kept[u] ELSE rdb[u]]

\* The end of the program
LEMMA EndKeeps ==
  ASSUME CrawlInv, pc' = "idle", UNCHANGED <<uar, rdb, files>>,
         damaged' \subseteq Contents, \A c \in Contents : Stored(c) => OnDisk(files', damaged', c),
         \/ UNCHANGED <<db, kept>> /\ pc # "saving"
         \/ db' \in Crawl!Parts(rdb) /\ kept' = db'
         \/ db' = rdb /\ kept' = Keeping
            /\ pc = "saving"
  PROVE  CrawlInv'
<1>1. /\ db' \in [Urls -> Records] /\ kept' \in [Urls -> Records]
      /\ \A u \in Urls : db'[u] \in Contents => db'[u] \in {db[u], rdb[u]}
  BY PartsAre DEF CrawlInv, CrawlType, Keeping
<1>2. CrawlType'
  BY <1>1 DEF CrawlInv, CrawlType
<1>3. UarInv'
  BY DEF CrawlInv, UarInv, Fetching
<1>4. \A u \in Urls : kept'[u] # NULL => db'[u] = kept'[u]
  <2>1. CASE UNCHANGED <<db, kept>> /\ pc # "saving"
    BY <2>1 DEF CrawlInv, KnownInv
  <2>2. CASE db' \in Crawl!Parts(rdb) /\ kept' = db'
    BY <2>2
  <2>3. CASE db' = rdb /\ kept' = Keeping
             /\ pc = "saving"
    BY <2>3 DEF CrawlInv, KnownInv, Keeping
  <2> QED BY <2>1, <2>2, <2>3
<1>5. KnownInv'
  BY <1>4 DEF KnownInv
<1>6. StoredInv'
  <2>1. \A u \in Urls : db'[u] \in Contents => OnDisk(files', damaged', db'[u])
    BY <1>1 DEF CrawlInv, StoredInv
  <2>2. \A u \in Urls : rdb'[u] \in Contents => OnDisk(files', damaged', rdb'[u])
    BY DEF CrawlInv, StoredInv
  <2> QED BY <2>1, <2>2 DEF StoredInv, Stored
<1> QED BY <1>2, <1>3, <1>5, <1>6 DEF CrawlInv

LEMMA FailKeeps ==
  ASSUME CrawlInv, Crawl!SearchFails \/ Crawl!SaveFails \/ Crawl!Saved
  PROVE  CrawlInv'
<1>1. pc' = "idle" /\ pc # "write" /\ UNCHANGED <<uar, rdb, files, damaged>>
  BY DEF Crawl!SearchFails, Crawl!SaveFails, Crawl!Saved, Crawl!disk
<1>2. damaged' \subseteq Contents
  BY <1>1 DEF CrawlInv, CrawlType
<1>3. \A c \in Contents : Stored(c) => OnDisk(files', damaged', c)
  BY <1>1 DEF Stored
<1>4. \/ UNCHANGED <<db, kept>> /\ pc # "saving"
      \/ db' \in Crawl!Parts(rdb) /\ kept' = db'
      \/ db' = rdb /\ kept' = Keeping
         /\ pc = "saving"
  BY DEF Crawl!SearchFails, Crawl!SaveFails, Crawl!Saved, Crawl!disk, Keeping
<1> QED BY <1>1, <1>2, <1>3, <1>4, EndKeeps

LEMMA KillKeeps ==
  ASSUME CrawlInv, Crawl!Kill
  PROVE  CrawlInv'
<1>1. /\ pc' = "idle" /\ UNCHANGED <<uar, rdb, files>>
      /\ damaged' = IF pc = "write" THEN damaged \cup {Crawl!Document} ELSE damaged
  BY DEF Crawl!Kill
<1>2. damaged' \subseteq Contents
  BY <1>1, DocumentIs DEF CrawlInv, CrawlType, Fetching
<1>3. \A c \in Contents : Stored(c) => OnDisk(files', damaged', c)
  BY <1>1 DEF Stored, OnDisk
<1>4. \/ UNCHANGED <<db, kept>> /\ pc # "saving"
      \/ db' \in Crawl!Parts(rdb) /\ kept' = db'
  BY DEF Crawl!Kill
<1> QED BY <1>1, <1>2, <1>3, <1>4, EndKeeps

\* The steps that write nothing but the file of a document or the emptied DB file
LEMMA OtherKeeps ==
  ASSUME CrawlInv,
         Crawl!Peek \/ Crawl!Open \/ Crawl!Save \/ Crawl!Interrupt \/ UNCHANGED Crawl!vars
  PROVE  CrawlInv'
<1>0. UNCHANGED <<uar, rdb, lost, kept, damaged>>
  BY DEF Crawl!Peek, Crawl!Open, Crawl!Save, Crawl!Interrupt, Crawl!vars, Crawl!disk
<1>9. UNCHANGED Crawl!Document
  BY <1>0 DEF Crawl!Document, Crawl!Url, Crawl!First
<1>1. /\ UNCHANGED <<uar, rdb, lost, kept, damaged>> /\ UNCHANGED Crawl!Document
      /\ \/ pc = "peek" /\ pc' = "fetch" /\ UNCHANGED <<db, files>>
         \/ /\ pc = "fetch" /\ pc' = "write" /\ UNCHANGED db
            /\ files' = [files EXCEPT ![Crawl!Document] = "part"]
         \/ pc = "save" /\ pc' = "saving" /\ db' = Crawl!Unknown /\ UNCHANGED files
         \/ UNCHANGED <<pc, db, files>>
  BY <1>0, <1>9 DEF Crawl!Peek, Crawl!Open, Crawl!Save, Crawl!Interrupt, Crawl!vars,
         Crawl!disk
<1>2. NULL \in Records /\ NULL \notin Contents
  BY CrawlAssumption DEF Records, Crawl!Marks
<1>3. CrawlType'
  BY <1>1, <1>2 DEF CrawlInv, CrawlType, Fetching, Crawl!Unknown
<1>4. UarInv'
  BY <1>1 DEF CrawlInv, UarInv, Fetching
<1>5. KnownInv'
  BY <1>1 DEF CrawlInv, KnownInv, Crawl!Unknown
<1>6. \A c \in Contents : Stored(c) => Stored(c)'
  BY <1>1 DEF CrawlInv, CrawlType, Stored, OnDisk
<1>7. \A u \in Urls : db'[u] \in Contents => db'[u] = db[u]
  BY <1>1, <1>2 DEF Crawl!Unknown
<1>8. StoredInv'
  BY <1>1, <1>6, <1>7 DEF CrawlInv, StoredInv
<1> QED BY <1>3, <1>4, <1>5, <1>8 DEF CrawlInv

-----------------------------------------------------------------------------
(* The theorems *)

EInv ==
  /\ program \in {"send-serie", "xfcrawl"}
  /\ program = "send-serie" => SerieInv
  /\ program = "xfcrawl" => CrawlInv

LEMMA SerieNext == SerieInv /\ Serie!Next => SerieInv'
BY ParseKeeps, BuildKeeps, FinishKeeps, AskKeeps, RespKeeps, ReplyKeeps, BreakKeeps
   DEF Serie!Next, Serie!Script

LEMMA CrawlNext == CrawlInv /\ (Crawl!Next \/ UNCHANGED Crawl!vars) => CrawlInv'
BY StartKeeps, SearchKeeps, DropKeeps, WriteKeeps, FailKeeps, KillKeeps, OtherKeeps
   DEF Crawl!Next, Crawl!Program

\* The invariant holds for every series, any headers and texts, and whatever the
\* server answers and wherever the connection breaks; and whatever a search finds,
\* however often the crawler is started, and wherever it is killed.
THEOREM Invariance == Spec => []EInv
<1>1. Init => EInv
  BY SerieInit, CrawlInit DEF Init, EInv
<1>2. EInv /\ [Next]_vars => EInv'
  <2> SUFFICES ASSUME EInv, [Next]_vars PROVE EInv'
    OBVIOUS
  <2>1. CASE InSerie(Serie!Next)
    BY <2>1, SerieNext DEF EInv, InSerie
  <2>2. CASE InCrawl(Crawl!Next)
    BY <2>2, CrawlNext DEF EInv, InCrawl
  <2>3. CASE UNCHANGED vars
    <3>1. UNCHANGED Serie!vars /\ UNCHANGED Crawl!vars /\ program' = program
      BY <2>3 DEF vars, serie, crawl, Serie!vars, Serie!options, Serie!server, Crawl!vars,
                  Crawl!disk
    <3> QED BY <3>1, StutterKeeps, CrawlNext DEF EInv
  <2> QED BY <2>1, <2>2, <2>3 DEF Next
<1> QED BY <1>1, <1>2, PTL DEF Spec

\* What send-serie.pl has sent is at any time a beginning of the series, each patch
\* once and in order, whole (in a mailbox: unless its print failed), and to all its
\* recipients.
THEOREM InOrder == Spec => []SentInOrder
<1>1. SerieInv => Serie!SentInOrder
  <2> SUFFICES ASSUME SerieInv, NEW i \in DOMAIN accepted
               PROVE  i <= Len(patches) /\ SentAs(i, accepted[i])
    BY DEF Serie!SentInOrder, Sent, SentAs
  <2>1. i \in 1 .. Len(accepted)
    BY DEF SerieInv, SentInv
  <2> QED BY <2>1 DEF SerieInv, SentInv
<1>2. EInv => SentInOrder
  BY <1>1 DEF EInv, SentInOrder
<1> QED BY Invariance, <1>2, PTL

\* Its exit status tells how much of the series was sent.
THEOREM ExitTells == Spec => []StatusTells
<1>1. SerieInv => Serie!StatusTells
  <2> SUFFICES ASSUME SerieInv PROVE Serie!StatusTells
    OBVIOUS
  <2>1. p \in Int /\ Len(accepted) \in Int
    <3>1. p \in 1 .. Len(patches) + 1 /\ Len(patches) \in Nat
      BY SerieIs DEF SerieInv, SerieType
    <3> QED BY <3>1 DEF SerieInv, LoopInv
  <2>2. Len(accepted) = p => pc \in {"body", "exit"}
    BY <2>1 DEF SerieInv, LoopInv
  <2> QED BY <2>2 DEF SerieInv, LoopInv, Parsable, Serie!StatusTells
<1>2. EInv => StatusTells
  BY <1>1 DEF EInv, StatusTells
<1> QED BY Invariance, <1>2, PTL

\* A hash in the DB file of xfcrawl.pl names a document that is on disk, unless a
\* kill or a full disk hit the writing of it, and what save_db wrote stays there as long
\* as no save_db is cut short and no run saves that could not load it.
THEOREM DbIsTrue == Spec => []DbTells
<1>1. CrawlInv => Crawl!DbTells
  BY DEF CrawlInv, StoredInv, KnownInv, Stored, OnDisk, Crawl!DbTells
<1>2. EInv => DbTells
  BY <1>1 DEF EInv, DbTells
<1> QED BY Invariance, <1>2, PTL

\* fetch_file is never called for a URL that this run has recorded, nor for one that is
\* in the DB file and that load_db could read.
THEOREM FetchedOnce == Spec => []NeverTwice
<1>1. CrawlInv => Crawl!NeverTwice
  BY UrlIs DEF CrawlInv, UarInv, KnownInv, Crawl!NeverTwice, Fetching
<1>2. EInv => NeverTwice
  BY <1>1 DEF EInv, NeverTwice
<1> QED BY Invariance, <1>2, PTL
=============================================================================
