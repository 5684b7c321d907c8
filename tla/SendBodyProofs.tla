--------------------------- MODULE SendBodyProofs ---------------------------
(***************************************************************************)
(* What an answer written by send_url, send_mem and send_doc consists of,  *)
(* for any lengths of the header, the body and the chunks, any width of    *)
(* size_t that holds them and any number of failed sends.                  *)
(***************************************************************************)
EXTENDS SendBody, FiniteSetTheorems, TLAPS

TypeInv ==
  /\ server \in Servers /\ mode \in Modes /\ size \in Sizes
  /\ pc \in {"head", "body", "sendfile", "count", "done", "exited"}
  /\ base \in Nat /\ n \in Nat /\ cnt \in Nat
  /\ msent \in Int /\ tbytes \in Int /\ error \in Int
  /\ out \in Seq(Nat)
  /\ fails \in Nat /\ rewound \in Nat /\ gaveUp \in Nat

\* Which buffer bstream_write is at.  The count is a count of bytes of it, or
\* the SIZE_MAX of a write that gave up.
BufferInv ==
  /\ cnt \in 0 .. n \cup {SizeMax} /\ n < SizeMax
  /\ gaveUp = 0 => cnt # SizeMax
  /\ pc \in {"head", "sendfile"} => base = 0 /\ n = HeadLen
  /\ pc \in {"head", "sendfile"} \/ mode # "mem" => msent = 0
  /\ pc = "sendfile" => mode = "sendfile" /\ ~(cnt < n)
  /\ pc = "body" => /\ mode \in {"mem", "mmap"}
                    /\ msent \in 0 .. size - 1 /\ base = HeadLen + msent
                    /\ n \in 1 .. size - msent
                    /\ mode = "mmap" => n = size
  /\ pc = "count" /\ mode = "mem" => msent \in -1 .. size
  /\ pc # "done" => tbytes = 0

\* What the count of a write stands for: SIZE_MAX is the -1 of a failed send().
Net == IF cnt = SizeMax THEN -1 ELSE cnt

\* send_mem has sent msent and Net bytes of the body, and one for each failure.
BodyInv ==
  /\ IsFiniteSet(BodySent)
  /\ pc = "head" => BodySent = {} /\ fails = 0
  /\ mode = "mem" =>
       /\ pc = "body" => Cardinality(BodySent) - fails = msent + Net
       /\ pc = "count" => Cardinality(BodySent) - fails = msent
       /\ pc = "done" => tbytes = (Cardinality(BodySent) - fails) % (SizeMax + 1)

\* The length of what was sent, as long as no write gave up.
LengthInv ==
  gaveUp = 0 =>
    /\ pc = "head" => Len(out) = cnt + rewound
    /\ pc = "sendfile" => Len(out) = HeadLen + rewound
    /\ pc = "body" => Len(out) = HeadLen + msent + cnt + rewound
    /\ pc = "count" => Len(out) = HeadLen + Counted + rewound
    /\ pc = "done" /\ error = 0 => Len(out) = HeadLen + size + rewound

\* Byte b is not beyond the one after the last of s, and s has no gap.
Reaches(s, b) == IF s = <<>> THEN b = 0 ELSE b <= s[Len(s)] + 1
Unbroken(s) == /\ s # <<>> => s[1] = 0
               /\ \A i \in 1 .. Len(s) - 1 : s[i + 1] <= s[i] + 1

NextInv ==
  gaveUp = 0 /\ pc \in {"head", "body", "sendfile"} => Reaches(out, base + cnt)

IInv == TypeInv /\ BufferInv /\ BodyInv /\ LengthInv /\ NextInv /\ NothingSkipped

-----------------------------------------------------------------------------
(* size_t and what is appended to the output *)

LEMMA ModSmall ==
  ASSUME NEW m \in Nat \ {0}, NEW x \in 0 .. m - 1
  PROVE  x % m = x /\ (x + m) % m = x
OBVIOUS

\* A sum that fits is exact; adding SIZE_MAX takes one away, and gives SIZE_MAX at 0.
LEMMA PlusIs ==
  ASSUME NEW a \in 0 .. SizeMax
  PROVE  /\ \A b \in Nat : a + b <= SizeMax => Plus(a, b) = a + b
         /\ Plus(a, SizeMax) = IF a = 0 THEN SizeMax ELSE a - 1
<1> USE SendBodyAssumption
<1> DEFINE m == SizeMax + 1
<1>1. m \in Nat \ {0}
  OBVIOUS
<1>2. ASSUME NEW b \in Nat, a + b <= SizeMax
      PROVE  Plus(a, b) = a + b
  <2>1. a + b \in 0 .. m - 1
    BY <1>2
  <2> HIDE DEF m
  <2>2. (a + b) % m = a + b
    BY <1>1, <2>1, ModSmall
  <2> QED BY <2>2 DEF Plus, m
<1>3. CASE a = 0
  BY <1>2, <1>3
<1>4. CASE a # 0
  <2>1. a - 1 \in 0 .. m - 1 /\ a + SizeMax = (a - 1) + m
    BY <1>4
  <2> HIDE DEF m
  <2>2. (a + SizeMax) % m = a - 1
    BY <1>1, <2>1, ModSmall
  <2> QED BY <1>2, <1>4, <2>2 DEF Plus, m
<1> QED BY <1>2, <1>3, <1>4

\* Sequence t is s and k bytes more, from b on.
Extends(s, t, b, k) ==
  /\ Len(t) = Len(s) + k
  /\ \A i \in 1 .. Len(s) : t[i] = s[i]
  /\ \A i \in Len(s) + 1 .. Len(s) + k : t[i] = b + (i - Len(s)) - 1

LEMMA Concatenated ==
  ASSUME NEW s \in Seq(Nat), NEW t \in Seq(Nat)
  PROVE  /\ s \o t \in Seq(Nat) /\ Len(s \o t) = Len(s) + Len(t)
         /\ \A i \in 1 .. Len(s) : (s \o t)[i] = s[i]
         /\ \A i \in Len(s) + 1 .. Len(s) + Len(t) : (s \o t)[i] = t[i - Len(s)]
OBVIOUS

LEMMA Appended ==
  ASSUME NEW s \in Seq(Nat), NEW b \in Nat, NEW k \in Nat
  PROVE  s \o Bytes(b, k) \in Seq(Nat) /\ Extends(s, s \o Bytes(b, k), b, k)
<1> DEFINE t == Bytes(b, k)
<1>1. t \in Seq(Nat) /\ Len(t) = k /\ \A i \in 1 .. k : t[i] = b + i - 1
  BY DEF Bytes
<1> HIDE DEF t
<1>2. s \o t \in Seq(Nat) /\ Len(s \o t) = Len(s) + k
  BY <1>1, Concatenated, Zenon
<1>3. \A i \in 1 .. Len(s) : (s \o t)[i] = s[i]
  BY <1>1, Concatenated, Zenon
<1>4. \A i \in Len(s) + 1 .. Len(s) + k : (s \o t)[i] = t[i - Len(s)]
  BY <1>1, Concatenated, Zenon
<1>5. \A i \in Len(s) + 1 .. Len(s) + k : i - Len(s) \in 1 .. k
  OBVIOUS
<1>6. \A i \in Len(s) + 1 .. Len(s) + k : (s \o t)[i] = b + (i - Len(s)) - 1
  BY <1>1, <1>4, <1>5
<1> QED BY <1>2, <1>3, <1>6 DEF t, Extends

LEMMA Inside ==
  ASSUME NEW m \in Nat, NEW i \in Nat \ {0}, i < m
  PROVE  i \in 1 .. m - 1 /\ i \in 1 .. m /\ i + 1 \in 1 .. m
OBVIOUS

\* Bytes that start no later than the last one sent skip none.
LEMMA NoGap ==
  ASSUME NEW s \in Seq(Nat), NEW t \in Seq(Nat), NEW b \in Nat, NEW k \in Nat \ {0},
         Extends(s, t, b, k), Unbroken(s), Reaches(s, b)
  PROVE  Unbroken(t) /\ Reaches(t, b + k)
<1>1. Len(s) \in Nat /\ (s = <<>> <=> Len(s) = 0) /\ Len(t) = Len(s) + k
      /\ t # <<>> /\ Len(t) \in Nat
  BY DEF Extends
<1>2. t[1] = 0
  <2>1. CASE s = <<>>
    BY <1>1, <2>1 DEF Extends, Reaches
  <2>2. CASE s # <<>>
    <3>1. 1 \in 1 .. Len(s) /\ s[1] = 0
      BY <1>1, <2>2 DEF Unbroken
    <3> QED BY <3>1 DEF Extends
  <2> QED BY <2>1, <2>2
<1>3. t[Len(t)] = b + k - 1
  <2>1. Len(t) \in Len(s) + 1 .. Len(s) + k
    BY <1>1
  <2>2. t[Len(t)] = b + (Len(t) - Len(s)) - 1
    BY <2>1 DEF Extends
  <2> QED BY <1>1, <2>2
<1>4. ASSUME NEW i \in 1 .. Len(t) - 1
      PROVE  t[i + 1] <= t[i] + 1
  <2>1. CASE i < Len(s)
    <3>1. i \in 1 .. Len(s) - 1 /\ i \in 1 .. Len(s) /\ i + 1 \in 1 .. Len(s)
      <4>1. i \in Nat \ {0}
        OBVIOUS
      <4> QED BY <1>1, <2>1, <4>1, Inside, Zenon
    <3>2. t[i] = s[i] /\ t[i + 1] = s[i + 1]
      BY <3>1 DEF Extends
    <3>3. s[i + 1] <= s[i] + 1
      BY <3>1 DEF Unbroken
    <3> QED BY <3>2, <3>3
  <2>2. CASE i = Len(s)
    <3>1. i + 1 \in Len(s) + 1 .. Len(s) + k /\ i \in 1 .. Len(s) /\ s # <<>>
      BY <1>1, <2>2
    <3>2. t[i + 1] = b + (i + 1 - Len(s)) - 1
      BY <3>1 DEF Extends
    <3>3. t[i] = s[i] /\ s[i] \in Nat
      BY <3>1 DEF Extends
    <3>4. b <= s[i] + 1
      BY <2>2, <3>1 DEF Reaches
    <3> QED BY <1>1, <2>2, <3>2, <3>3, <3>4
  <2>3. CASE i > Len(s)
    <3>1. i + 1 \in Len(s) + 1 .. Len(s) + k /\ i \in Len(s) + 1 .. Len(s) + k
      BY <1>1, <2>3
    <3>2. t[i + 1] = b + (i + 1 - Len(s)) - 1
      BY <3>1 DEF Extends
    <3>3. t[i] = b + (i - Len(s)) - 1
      BY <3>1 DEF Extends
    <3> QED BY <1>1, <3>1, <3>2, <3>3
  <2> QED BY <1>1, <2>1, <2>2, <2>3
<1>5. Unbroken(t)
  BY <1>2, <1>4 DEF Unbroken
<1>6. Reaches(t, b + k)
  BY <1>1, <1>3 DEF Reaches
<1> QED BY <1>5, <1>6

\* Sending k bytes of the body adds k to BodySent, bytes of the header add none.
LEMMA BodyGrows ==
  ASSUME out \in Seq(Nat), out' \in Seq(Nat), IsFiniteSet(BodySent),
         NEW b \in Nat, NEW k \in Nat, Extends(out, out', b, k)
  PROVE  /\ IsFiniteSet(BodySent')
         /\ b >= HeadLen => Cardinality(BodySent') = Cardinality(BodySent) + k
         /\ b + k <= HeadLen => BodySent' = BodySent
<1> DEFINE New == Len(out) + 1 .. Len(out) + k
           Old == 1 .. Len(out)
<1>1. Len(out) \in Nat /\ DOMAIN out = Old /\ DOMAIN out' = Old \cup New /\ Old \cap New = {}
  BY DEF Extends
<1>2. \A i \in Old : out'[i] = out[i]
  BY DEF Extends
<1>3. \A i \in New : out'[i] \in b .. b + k - 1
  <2> SUFFICES ASSUME NEW i \in New
               PROVE  out'[i] \in b .. b + k - 1
    OBVIOUS
  <2>1. out'[i] = b + (i - Len(out)) - 1
    BY DEF Extends
  <2> QED BY <1>1, <2>1
<1>4. IsFiniteSet(New) /\ Cardinality(New) = k
  <2>1. Len(out) + 1 \in Int /\ Len(out) + k \in Int
    BY <1>1
  <2>2. IsFiniteSet(New) /\ Cardinality(New) =
          IF Len(out) + 1 > Len(out) + k THEN 0 ELSE (Len(out) + k) - (Len(out) + 1) + 1
    BY <2>1, FS_Interval, Zenon
  <2> HIDE DEF New
  <2> QED BY <1>1, <2>2
<1> HIDE DEF New, Old
<1>5. /\ BodySent \subseteq Old
      /\ BodySent' = BodySent \cup {i \in New : out'[i] >= HeadLen}
  BY <1>1, <1>2 DEF BodySent
<1>6. IsFiniteSet(BodySent')
  <2>1. IsFiniteSet({i \in New : out'[i] >= HeadLen})
    BY <1>4, FS_Subset
  <2> QED BY <1>5, <2>1, FS_Union
<1>7. ASSUME b >= HeadLen
      PROVE  Cardinality(BodySent') = Cardinality(BodySent) + k
  <2>1. \A i \in New : out'[i] >= HeadLen
    BY <1>3, <1>7, SendBodyAssumption
  <2>2. BodySent' = BodySent \cup New /\ BodySent \cap New = {}
    BY <1>1, <1>5, <2>1
  <2>3. Cardinality(BodySent \cap New) = 0
    BY <2>2, FS_EmptySet
  <2>4. Cardinality(BodySent \cup New)
          = Cardinality(BodySent) + Cardinality(New) - Cardinality(BodySent \cap New)
    BY <1>4, FS_Union
  <2>5. Cardinality(BodySent) \in Nat
    BY FS_CardinalityType
  <2> QED BY <1>4, <2>2, <2>3, <2>4, <2>5
<1>8. ASSUME b + k <= HeadLen
      PROVE  BodySent' = BodySent
  <2>1. \A i \in New : ~(out'[i] >= HeadLen)
    BY <1>3, <1>8, SendBodyAssumption
  <2> QED BY <1>5, <2>1
<1> QED BY <1>6, <1>7, <1>8

-----------------------------------------------------------------------------
(* The invariant *)

LEMMA InitEstablishes == Init => IInv
<1> SUFFICES ASSUME Init
             PROVE  IInv
  OBVIOUS
<1> USE SendBodyAssumption
<1>1. TypeInv
  BY DEF Init, TypeInv
<1>2. BufferInv
  <2>1. HeadLen < SizeMax /\ 0 # SizeMax
    BY DEF Init
  <2> QED BY <2>1 DEF Init, BufferInv
<1>3. BodySent = {}
  BY DEF Init, BodySent
<1>4. BodyInv
  BY <1>3, FS_EmptySet DEF Init, BodyInv
<1>5. LengthInv /\ NextInv /\ NothingSkipped
  BY DEF Init, LengthInv, NextInv, Reaches, NothingSkipped
<1> QED BY <1>1, <1>2, <1>4, <1>5 DEF IInv

\* A write in progress stays in its buffer, and all of its bytes are of the header
\* or all of the body.
LEMMA WriteIs ==
  ASSUME IInv, Writing
  PROVE  /\ cnt \in 0 .. n - 1 /\ cnt # SizeMax /\ base + cnt \in Nat
         /\ Net = cnt
         /\ pc = "head" => base + n = HeadLen
         /\ pc = "body" => base >= HeadLen
<1> USE SendBodyAssumption
<1>1. cnt \in 0 .. n \cup {SizeMax} /\ n < SizeMax /\ cnt < n /\ n \in Nat /\ base \in Nat
  BY DEF IInv, TypeInv, BufferInv, Writing
<1>2. pc = "head" => base = 0 /\ n = HeadLen
  BY DEF IInv, BufferInv
<1>3. pc = "body" => base = HeadLen + msent /\ msent \in 0 .. size - 1 /\ size \in Nat
  BY DEF IInv, BufferInv, TypeInv
<1> QED BY <1>1, <1>2, <1>3 DEF Net

LEMMA SendSomeKeeps ==
  ASSUME IInv, SendSome
  PROVE  IInv'
<1> USE SendBodyAssumption
<1>1. PICK k \in 1 .. n - cnt : out' = out \o Bytes(base + cnt, k) /\ cnt' = Plus(cnt, k)
  BY DEF SendSome
<1>2. /\ cnt \in 0 .. n - 1 /\ cnt # SizeMax /\ base + cnt \in Nat /\ Net = cnt
      /\ pc = "head" => base + n = HeadLen
      /\ pc = "body" => base >= HeadLen
  BY WriteIs DEF SendSome
<1>3. n \in Nat /\ n < SizeMax /\ base \in Nat /\ out \in Seq(Nat)
  BY DEF IInv, TypeInv, BufferInv
<1>4. k \in Nat /\ k \in Nat \ {0} /\ cnt + k <= n
  BY <1>2, <1>3
<1>5. cnt' = cnt + k /\ cnt' \in 1 .. n /\ cnt' # SizeMax
  <2>1. Plus(cnt, k) = cnt + k
    BY <1>2, <1>3, <1>4, PlusIs
  <2> QED BY <1>1, <1>2, <1>3, <1>4, <2>1
<1>6. UNCHANGED <<server, mode, size, pc, base, n, msent, tbytes, error, dead, fails,
                  rewound, gaveUp>> /\ pc \in {"head", "body"}
  BY DEF SendSome, Writing
<1>7. out' \in Seq(Nat) /\ Extends(out, out', base + cnt, k)
  BY <1>1, <1>2, <1>3, <1>4, Appended
<1>8. TypeInv'
  BY <1>3, <1>5, <1>6, <1>7 DEF IInv, TypeInv
<1>9. BufferInv'
  BY <1>3, <1>5, <1>6 DEF IInv, BufferInv
<1>10. BodyInv'
  <2>1. /\ IsFiniteSet(BodySent')
        /\ base + cnt >= HeadLen => Cardinality(BodySent') = Cardinality(BodySent) + k
        /\ base + cnt + k <= HeadLen => BodySent' = BodySent
    BY <1>2, <1>3, <1>4, <1>7, BodyGrows DEF IInv, BodyInv
  <2>2. CASE pc = "head"
    <3>1. BodySent' = BodySent
      BY <1>2, <1>3, <1>4, <2>1, <2>2
    <3> QED BY <1>6, <2>1, <2>2, <3>1 DEF IInv, BodyInv
  <2>3. CASE pc = "body"
    <3>1. Cardinality(BodySent') = Cardinality(BodySent) + k
      BY <1>2, <1>3, <1>4, <2>1, <2>3
    <3>2. Cardinality(BodySent) \in Nat /\ fails \in Nat /\ msent \in Int
      BY FS_CardinalityType DEF IInv, BodyInv, TypeInv
    <3>3. Net' = Net + k
      BY <1>2, <1>5 DEF Net
    <3>4. mode = "mem" => Cardinality(BodySent') - fails' = msent' + Net'
      BY <1>2, <1>4, <1>6, <2>3, <3>1, <3>2, <3>3 DEF IInv, BodyInv
    <3> QED BY <1>6, <2>1, <2>3, <3>4 DEF BodyInv
  <2> QED BY <1>6, <2>2, <2>3
<1>11. LengthInv'
  <2>1. Len(out) \in Nat /\ Len(out') = Len(out) + k
    BY <1>3, <1>7 DEF Extends
  <2>2. gaveUp = 0 => /\ pc = "head" => Len(out) = cnt + rewound
                      /\ pc = "body" => Len(out) = HeadLen + msent + cnt + rewound
    BY DEF IInv, LengthInv
  <2>3. msent \in Int /\ rewound \in Nat
    BY DEF IInv, TypeInv
  <2> QED BY <1>2, <1>4, <1>5, <1>6, <2>1, <2>2, <2>3 DEF LengthInv
<1>12. NextInv' /\ NothingSkipped'
  <2>1. CASE gaveUp = 0
    <3>1. Unbroken(out) /\ Reaches(out, base + cnt)
      BY <1>6, <2>1 DEF IInv, NothingSkipped, NextInv, Unbroken
    <3>2. Unbroken(out') /\ Reaches(out', (base + cnt) + k)
      BY <1>2, <1>3, <1>4, <1>7, <3>1, NoGap
    <3>3. base' + cnt' = (base + cnt) + k
      BY <1>2, <1>3, <1>4, <1>5, <1>6
    <3> QED BY <3>2, <3>3 DEF NextInv, NothingSkipped, Unbroken
  <2>2. CASE gaveUp # 0
    BY <1>6, <2>2 DEF NextInv, NothingSkipped
  <2> QED BY <2>1, <2>2
<1> QED BY <1>8, <1>9, <1>10, <1>11, <1>12 DEF IInv

LEMMA SendFailKeeps ==
  ASSUME IInv, SendFail
  PROVE  IInv'
<1> USE SendBodyAssumption
<1>1. /\ cnt \in 0 .. n - 1 /\ cnt # SizeMax /\ base + cnt \in Nat /\ Net = cnt
      /\ pc \in {"head", "body"}
  BY WriteIs DEF SendFail, Writing
<1>2. n \in Nat /\ n < SizeMax /\ base \in Nat /\ out \in Seq(Nat)
      /\ rewound \in Nat /\ gaveUp \in Nat /\ fails \in Nat /\ msent \in Int
  BY DEF IInv, TypeInv, BufferInv
<1>3. cnt' = IF cnt = 0 THEN SizeMax ELSE cnt - 1
  BY <1>1, <1>2, PlusIs DEF SendFail, CountFailed
<1>4. /\ UNCHANGED <<server, mode, size, pc, base, n, msent, tbytes, error, out>>
      /\ fails' = IF pc = "body" THEN fails + 1 ELSE fails
      /\ rewound' = IF cnt > 0 THEN rewound + 1 ELSE rewound
      /\ gaveUp' = IF cnt = 0 THEN gaveUp + 1 ELSE gaveUp
  BY DEF SendFail
<1>5. TypeInv'
  BY <1>1, <1>2, <1>3, <1>4 DEF IInv, TypeInv
<1>6. BufferInv'
  BY <1>1, <1>2, <1>3, <1>4 DEF IInv, BufferInv
<1>7. BodyInv'
  <2>1. BodySent' = BodySent /\ Net' = Net - 1
    BY <1>1, <1>2, <1>3, <1>4 DEF BodySent, Net
  <2>2. Cardinality(BodySent) \in Nat
    BY FS_CardinalityType DEF IInv, BodyInv
  <2>3. mode = "mem" /\ pc = "body" => Cardinality(BodySent') - fails' = msent' + Net'
    <3>1. mode = "mem" /\ pc = "body" => Cardinality(BodySent) - fails = msent + Net
      BY DEF IInv, BodyInv
    <3> QED BY <1>1, <1>2, <1>4, <2>1, <2>2, <3>1
  <2>4. pc = "head" => BodySent' = {} /\ fails' = 0
    BY <1>4, <2>1 DEF IInv, BodyInv
  <2>5. IsFiniteSet(BodySent')
    BY <2>1 DEF IInv, BodyInv
  <2> QED BY <1>1, <1>4, <2>3, <2>4, <2>5 DEF BodyInv
<1>8. LengthInv'
  <2>1. gaveUp = 0 => /\ pc = "head" => Len(out) = cnt + rewound
                      /\ pc = "body" => Len(out) = HeadLen + msent + cnt + rewound
    BY DEF IInv, LengthInv
  <2> QED BY <1>1, <1>2, <1>3, <1>4, <2>1 DEF LengthInv
<1>9. NextInv'
  <2>1. CASE gaveUp' = 0
    <3>1. gaveUp = 0 /\ cnt > 0 /\ cnt' = cnt - 1
      BY <1>1, <1>2, <1>3, <1>4, <2>1
    <3>2. Reaches(out, base + cnt)
      BY <1>1, <3>1 DEF IInv, NextInv
    <3>3. Reaches(out, base + cnt')
      BY <1>1, <1>2, <3>1, <3>2 DEF Reaches
    <3> QED BY <1>4, <3>3 DEF NextInv
  <2> QED BY <2>1 DEF NextInv
<1>10. NothingSkipped'
  BY <1>2, <1>4 DEF IInv, NothingSkipped
<1> QED BY <1>5, <1>6, <1>7, <1>8, <1>9, <1>10 DEF IInv

\* The end of a write: all of the buffer, or SIZE_MAX.
LEMMA WriteEnds ==
  ASSUME IInv, pc \in {"head", "body"}, ~Writing
  PROVE  (cnt = n \/ cnt = SizeMax) /\ (gaveUp = 0 => cnt = n)
BY DEF IInv, TypeInv, BufferInv, Writing

LEMMA SizeIs ==
  ASSUME IInv
  PROVE  size \in Nat /\ 2 * (size + HeadLen) < SizeMax
<1>1. size \in Sizes
  BY DEF IInv, TypeInv
<1>2. size \in Nat /\ 2 * (size + HeadLen + MaxFails) < SizeMax
  BY <1>1, SendBodyAssumption
<1> QED BY <1>2, SendBodyAssumption

\* The chunk send_mem writes next is part of what is left.
LEMMA ChunkIs ==
  ASSUME IInv, NEW m \in 0 .. size - 1
  PROVE  Chunk(m) \in 1 .. size - m
BY SizeIs, SendBodyAssumption DEF Chunk

LEMMA HeadDoneKeeps ==
  ASSUME IInv, HeadDone
  PROVE  IInv'
<1> USE SendBodyAssumption
<1>1. /\ pc = "head" /\ base = 0 /\ n = HeadLen /\ msent = 0 /\ tbytes = 0
      /\ (cnt = n \/ cnt = SizeMax) /\ (gaveUp = 0 => cnt = n)
  BY WriteEnds DEF HeadDone, IInv, BufferInv
<1>2. UNCHANGED <<server, mode, size, msent, tbytes, dead, out, fails, rewound, gaveUp>>
  BY DEF HeadDone
<1>3. size \in Nat /\ 2 * (size + HeadLen) < SizeMax
  BY SizeIs
<1>4. /\ BodySent = {} /\ fails = 0 /\ BodySent' = BodySent /\ IsFiniteSet(BodySent')
      /\ Cardinality(BodySent') = 0
  BY <1>1, <1>2, FS_EmptySet DEF IInv, BodyInv, BodySent
<1>5. \/ mode = "missing" /\ pc' = "done" /\ error' = -1 /\ UNCHANGED buffer
      \/ mode = "sendfile" /\ pc' = "sendfile" /\ UNCHANGED <<buffer, error>>
      \/ mode = "mmap" /\ pc' = "exited" /\ UNCHANGED <<buffer, error>>
      \/ mode = "mmap" /\ pc' = "done" /\ error' = -1 /\ UNCHANGED buffer
      \/ /\ mode \in {"mem", "mmap"} /\ size > 0 /\ pc' = "body" /\ UNCHANGED error
         /\ base' = HeadLen /\ n' \in 1 .. size /\ cnt' = 0
         /\ mode = "mmap" => n' = size
      \/ mode = "mem" /\ size = 0 /\ pc' = "count" /\ UNCHANGED <<buffer, error>>
  <2>1. size > 0 => Chunk(0) \in 1 .. size
    BY <1>3, ChunkIs
  <2> QED BY <1>3, <2>1 DEF HeadDone, Write
<1>6. TypeInv'
  BY <1>1, <1>2, <1>3, <1>5 DEF IInv, TypeInv, buffer
<1>7. BufferInv'
  BY <1>1, <1>2, <1>3, <1>5 DEF IInv, TypeInv, BufferInv, buffer
<1>8. BodyInv'
  BY <1>1, <1>2, <1>3, <1>4, <1>5 DEF BodyInv, Net
<1>9. LengthInv'
  <2>1. gaveUp = 0 => Len(out) = HeadLen + rewound /\ rewound \in Nat
    BY <1>1 DEF IInv, LengthInv, TypeInv
  <2> QED BY <1>1, <1>2, <1>3, <1>5, <2>1 DEF LengthInv, Counted, buffer
<1>10. NextInv'
  <2>1. gaveUp = 0 => Reaches(out, HeadLen)
    BY <1>1 DEF IInv, NextInv
  <2> QED BY <1>1, <1>2, <1>5, <2>1 DEF NextInv, buffer
<1>11. NothingSkipped'
  BY <1>2 DEF IInv, NothingSkipped
<1> QED BY <1>6, <1>7, <1>8, <1>9, <1>10, <1>11 DEF IInv

LEMMA SendFileKeeps ==
  ASSUME IInv, SendFile
  PROVE  IInv'
<1> USE SendBodyAssumption
<1>1. size \in Nat /\ 2 * (size + HeadLen) < SizeMax /\ out \in Seq(Nat)
  BY SizeIs DEF IInv, TypeInv
<1>2. PICK k \in 0 .. size : /\ out' = out \o Bytes(HeadLen, k)
                             /\ error' = IF k = size THEN 0 ELSE -1
                             /\ pc' = IF k = size THEN "count" ELSE "done"
  BY <1>1 DEF SendFile
<1>3. UNCHANGED <<server, mode, size, buffer, msent, tbytes, dead, fails, rewound, gaveUp>>
      /\ pc = "sendfile"
  BY DEF SendFile
<1>4. k \in Nat /\ out' \in Seq(Nat) /\ Extends(out, out', HeadLen, k)
  BY <1>1, <1>2, Appended
<1>5. TypeInv'
  BY <1>2, <1>3, <1>4 DEF IInv, TypeInv, buffer
<1>6. BufferInv' /\ mode # "mem"
  BY <1>2, <1>3 DEF IInv, BufferInv, buffer
<1>7. BodyInv'
  <2>1. IsFiniteSet(BodySent')
    BY <1>1, <1>4, BodyGrows DEF IInv, BodyInv
  <2> QED BY <1>2, <1>3, <1>6, <2>1 DEF BodyInv
<1>8. LengthInv'
  <2>1. Len(out') = Len(out) + k
    BY <1>4 DEF Extends
  <2>2. gaveUp = 0 => Len(out) = HeadLen + rewound /\ rewound \in Nat
    BY <1>3 DEF IInv, LengthInv, TypeInv
  <2>3. /\ error' = IF k = size THEN 0 ELSE -1
        /\ pc' = IF k = size THEN "count" ELSE "done"
    BY <1>2
  <2> QED BY <1>1, <1>3, <1>6, <2>1, <2>2, <2>3, SMTT(30) DEF LengthInv, Counted
<1>9. NothingSkipped'
  <2>1. CASE gaveUp = 0
    <3>1. base + cnt = HeadLen /\ Unbroken(out) /\ Reaches(out, HeadLen)
      BY <1>3, <2>1 DEF IInv, TypeInv, BufferInv, NextInv, NothingSkipped, Unbroken
    <3>2. Unbroken(out')
      <4>1. CASE k = 0
        <5>1. out' = out
          BY <1>1, <1>4, <4>1 DEF Extends
        <5> QED BY <3>1, <5>1
      <4>2. CASE k # 0
        BY <1>1, <1>4, <3>1, <4>2, NoGap
      <4> QED BY <4>1, <4>2
    <3> QED BY <3>2 DEF NothingSkipped, Unbroken
  <2> QED BY <1>3, <2>1 DEF NothingSkipped
<1>10. NextInv'
  BY <1>2 DEF NextInv
<1> QED BY <1>5, <1>6, <1>7, <1>8, <1>9, <1>10 DEF IInv

LEMMA MapDoneKeeps ==
  ASSUME IInv, MapDone
  PROVE  IInv'
<1> USE SendBodyAssumption
<1>1. /\ pc = "body" /\ mode = "mmap" /\ n = size /\ msent = 0
      /\ (gaveUp = 0 => cnt = n)
  BY WriteEnds DEF MapDone, IInv, BufferInv
<1>2. /\ UNCHANGED <<server, mode, size, buffer, msent, tbytes, dead, out, fails, rewound,
                     gaveUp>>
      /\ error' = IF cnt = size THEN 0 ELSE -1
      /\ pc' = IF cnt = size THEN "count" ELSE "done"
  BY DEF MapDone
<1>3. TypeInv'
  BY <1>1, <1>2 DEF IInv, TypeInv, buffer
<1>4. BufferInv'
  BY <1>1, <1>2 DEF IInv, TypeInv, BufferInv, buffer
<1>5. BodyInv'
  <2>1. BodySent' = BodySent
    BY <1>2 DEF BodySent
  <2> QED BY <1>1, <1>2, <2>1 DEF IInv, BodyInv
<1>6. LengthInv'
  <2>1. gaveUp = 0 => Len(out) = HeadLen + msent + cnt + rewound /\ rewound \in Nat
    BY <1>1 DEF IInv, LengthInv, TypeInv
  <2>2. size \in Nat
    BY SizeIs
  <2> QED BY <1>1, <1>2, <2>1, <2>2 DEF LengthInv, Counted
<1>7. NextInv' /\ NothingSkipped'
  BY <1>2 DEF IInv, NextInv, NothingSkipped
<1> QED BY <1>3, <1>4, <1>5, <1>6, <1>7 DEF IInv

\* send_mem adds what the write stands for to msent, a failed write as -1.
LEMMA MemAdds ==
  ASSUME IInv, pc = "body", cnt = n \/ cnt = SizeMax, msent \in 0 .. size - 1,
         n \in 1 .. size - msent
  PROVE  Signed(Plus(msent, cnt)) = msent + Net
<1> USE SendBodyAssumption
<1>1. size \in Nat /\ 2 * (size + HeadLen) < SizeMax /\ msent \in 0 .. SizeMax
  BY SizeIs
<1>2. CASE cnt = n
  <2>1. Plus(msent, cnt) = msent + n /\ 2 * (msent + n) < SizeMax
    BY <1>1, <1>2, PlusIs
  <2>2. ~(msent + n > SizeMax \div 2)
    BY <1>1, <2>1
  <2>3. Net = n
    BY <1>1, <1>2 DEF Net
  <2> QED BY <2>1, <2>2, <2>3 DEF Signed
<1>3. CASE cnt = SizeMax
  <2>1. Plus(msent, cnt) = IF msent = 0 THEN SizeMax ELSE msent - 1
    BY <1>1, <1>3, PlusIs
  <2>2. SizeMax > SizeMax \div 2 /\ ~(msent - 1 > SizeMax \div 2)
    BY <1>1
  <2>3. Net = -1
    BY <1>3 DEF Net
  <2> QED BY <1>1, <2>1, <2>2, <2>3 DEF Signed
<1> QED BY <1>2, <1>3

LEMMA MemDoneKeeps ==
  ASSUME IInv, MemDone
  PROVE  IInv'
<1> USE SendBodyAssumption
<1>1. /\ pc = "body" /\ mode = "mem" /\ base = HeadLen + msent
      /\ msent \in 0 .. size - 1 /\ n \in 1 .. size - msent /\ n < SizeMax /\ tbytes = 0
      /\ (cnt = n \/ cnt = SizeMax) /\ (gaveUp = 0 => cnt = n)
  BY WriteEnds DEF MemDone, IInv, BufferInv
<1>2. size \in Nat /\ 2 * (size + HeadLen) < SizeMax
  BY SizeIs
<1>3. msent' = msent + Net
  BY <1>1, <1>2, MemAdds DEF MemDone
<1>4. Net = IF cnt = SizeMax THEN -1 ELSE n
  BY <1>1 DEF Net
<1>5. UNCHANGED <<server, mode, size, tbytes, error, dead, out, fails, rewound, gaveUp>>
  BY DEF MemDone
<1>6. \/ /\ cnt = n /\ msent' = msent + n /\ msent' \in 0 .. size - 1
         /\ pc' = "body" /\ base' = HeadLen + msent' /\ cnt' = 0
         /\ n' \in 1 .. size - msent'
      \/ pc' = "count" /\ UNCHANGED buffer /\ msent' \in -1 .. size
  <2>1. CASE cnt = n /\ msent' < size
    <3>1. msent' = msent + n /\ msent' \in 0 .. size - 1
      BY <1>1, <1>2, <1>3, <1>4, <2>1
    <3>2. Chunk(msent') \in 1 .. size - msent'
      BY <3>1, ChunkIs
    <3> QED BY <2>1, <3>1, <3>2 DEF MemDone, Write
  <2>2. CASE ~(cnt = n /\ msent' < size)
    BY <1>1, <1>2, <1>3, <1>4, <2>2 DEF MemDone
  <2> QED BY <2>1, <2>2
<1>7. TypeInv'
  BY <1>1, <1>2, <1>5, <1>6 DEF IInv, TypeInv, buffer
<1>8. BufferInv'
  BY <1>1, <1>2, <1>5, <1>6 DEF IInv, BufferInv, buffer
<1>9. BodyInv'
  <2>1. BodySent' = BodySent
    BY <1>5 DEF BodySent
  <2>2. Cardinality(BodySent) - fails = msent + Net /\ IsFiniteSet(BodySent)
    BY <1>1 DEF IInv, BodyInv
  <2>3. Cardinality(BodySent') - fails' = msent' /\ msent' \in Int
    BY <1>3, <1>5, <1>6, <2>1, <2>2
  <2>4. pc' = "body" => Net' = 0
    BY <1>2, <1>6 DEF Net
  <2> QED BY <1>6, <2>1, <2>2, <2>3, <2>4 DEF BodyInv
<1>10. LengthInv'
  <2>1. gaveUp = 0 => Len(out) = HeadLen + msent + cnt + rewound /\ rewound \in Nat
    BY <1>1 DEF IInv, LengthInv, TypeInv
  <2>2. gaveUp = 0 => msent' = msent + cnt
    BY <1>1, <1>2, <1>3, <1>4
  <2> QED BY <1>1, <1>2, <1>5, <1>6, <2>1, <2>2 DEF LengthInv, Counted
<1>11. NextInv'
  <2>1. gaveUp = 0 => Reaches(out, base + cnt)
    BY <1>1 DEF IInv, NextInv
  <2>2. gaveUp = 0 /\ pc' = "body" => base' + cnt' = base + cnt
    BY <1>1, <1>2, <1>6
  <2> QED BY <1>5, <1>6, <2>1, <2>2 DEF NextInv
<1>12. NothingSkipped'
  BY <1>5 DEF IInv, NothingSkipped
<1> QED BY <1>7, <1>8, <1>9, <1>10, <1>11, <1>12 DEF IInv

LEMMA CountKeeps ==
  ASSUME IInv, Count
  PROVE  IInv'
<1> USE SendBodyAssumption
<1>1. /\ pc = "count" /\ pc' = "done"
      /\ tbytes' = (tbytes + Counted) % (SizeMax + 1)
      /\ error' = IF mode = "mem" /\ msent # size THEN -1 ELSE 0
      /\ UNCHANGED <<server, mode, size, buffer, msent, dead, out, fails, rewound, gaveUp>>
  BY DEF Count
<1>2. tbytes = 0 /\ msent \in Int /\ size \in Nat
  BY <1>1, SizeIs DEF IInv, BufferInv, TypeInv
<1>3. tbytes' \in Int
  <2>1. tbytes + Counted \in Int /\ SizeMax + 1 \in Nat \ {0}
    BY <1>2 DEF Counted
  <2>2. \A x \in Int, m \in Nat \ {0} : x % m \in Int
    OBVIOUS
  <2> QED BY <1>1, <2>1, <2>2
<1>4. TypeInv'
  BY <1>1, <1>3 DEF IInv, TypeInv, buffer
<1>5. BufferInv'
  BY <1>1 DEF IInv, BufferInv, buffer
<1>6. BodyInv'
  <2>1. BodySent' = BodySent
    BY <1>1 DEF BodySent
  <2>2. mode = "mem" => Cardinality(BodySent) - fails = msent
    BY <1>1 DEF IInv, BodyInv
  <2>3. mode = "mem" => tbytes + Counted = msent
    BY <1>2 DEF Counted
  <2>4. mode = "mem" => tbytes' = (Cardinality(BodySent') - fails') % (SizeMax + 1)
    BY <1>1, <2>1, <2>2, <2>3
  <2> QED BY <1>1, <2>1, <2>4 DEF IInv, BodyInv
<1>7. LengthInv'
  <2>1. gaveUp = 0 => Len(out) = HeadLen + Counted + rewound
    BY <1>1 DEF IInv, LengthInv
  <2> QED BY <1>1, <2>1 DEF LengthInv, Counted
<1>8. NextInv' /\ NothingSkipped'
  BY <1>1 DEF IInv, NextInv, NothingSkipped
<1> QED BY <1>4, <1>5, <1>6, <1>7, <1>8 DEF IInv

LEMMA StepPreserves == IInv /\ [Next]_vars => IInv'
<1> SUFFICES ASSUME IInv, [Next]_vars
             PROVE  IInv'
  OBVIOUS
<1>1. CASE Die \/ UNCHANGED vars
  <2>1. UNCHANGED <<server, mode, size, pc, base, n, cnt, msent, tbytes, error, out, fails,
                    rewound, gaveUp>>
    BY <1>1 DEF Die, vars, buffer
  <2>2. TypeInv' /\ BufferInv'
    BY <2>1, Zenon DEF IInv, TypeInv, BufferInv
  <2>3. BodyInv' /\ LengthInv'
    BY <2>1, Zenon DEF IInv, BodyInv, LengthInv, BodySent, Net, Counted
  <2>4. NextInv' /\ NothingSkipped'
    BY <2>1, Zenon DEF IInv, NextInv, NothingSkipped
  <2> QED BY <2>2, <2>3, <2>4 DEF IInv
<1>2. CASE Server
  BY <1>2, SendSomeKeeps, SendFailKeeps, HeadDoneKeeps, SendFileKeeps, MapDoneKeeps,
     MemDoneKeeps, CountKeeps DEF Server
<1> QED BY <1>1, <1>2 DEF Next

-----------------------------------------------------------------------------
(* Theorems *)

\* The inductive invariant holds at every point of every answer.
THEOREM Invariance == Spec => []IInv
BY InitEstablishes, StepPreserves, PTL DEF Spec

\* As long as no write gave up, the client gets every byte of the header and the
\* body up to the last one sent, some of them more than once.
THEOREM NoByteSkipped == Spec => []NothingSkipped
<1>1. IInv => NothingSkipped
  BY DEF IInv
<1> QED BY <1>1, Invariance, PTL

\* An answer that ends without error and without a write that gave up has its full
\* length, and tbytes counts what send_mem has sent of the body, less the failures.
THEOREM AnswerCounted == Spec => []CompleteAndCounted
<1>1. IInv => CompleteAndCounted
  BY DEF IInv, LengthInv, BodyInv, CompleteAndCounted
<1> QED BY <1>1, Invariance, PTL
=============================================================================
