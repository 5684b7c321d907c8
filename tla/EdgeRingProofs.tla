--------------------------- MODULE EdgeRingProofs ---------------------------
(***************************************************************************)
(* eventfd-bench.c and pipetest-4.c lose no event and coalesce none, for   *)
(* any ring size and any numbers of active descriptors and writes.  The    *)
(* inductive invariant says where the tokens are: the descriptors on their *)
(* way to read_cb are neighbours on the ring but for one gap, in the order *)
(* in which they will be read, so that the write of a read event, which is *)
(* active + 1 places further on, falls into the gap or behind the last.    *)
(***************************************************************************)
EXTENDS EdgeRing, TLAPS

Wrap(n, x) == IF x >= n THEN x - n ELSE x

\* The descriptors on their way to read_cb, in order, are neighbours on the ring but
\* for one gap: h of them from c on, and the others from c + h + 1 on.
Place(n, c, h, j) == Wrap(n, c + (IF j <= h THEN j - 1 ELSE j))

OnRing(c, h) ==
  /\ \A j \in 1 .. Len(batch) : batch[j] = Place(num, c, h, j)
  /\ \A j \in 1 .. Len(ready) : ready[j] = Place(num, c, h, Len(batch) + j)

BenchType ==
  /\ num \in Nat \ {0} /\ active \in 0 .. num - 1 /\ numWrites \in Nat
  /\ value \in [0 .. num - 1 -> {0, 1}]
  /\ ready \in Seq(0 .. num - 1) /\ batch \in Seq(0 .. num - 1)
  /\ count \in Nat /\ writes \in Nat /\ fired \in Nat
  /\ pc \in {"fill", "wait", "loop", "exit7", "end"}

TokenInv ==
  /\ Len(batch) + Len(ready) <= active
  /\ Len(batch) + Len(ready) > 0 => \E c \in 0 .. num - 1, h \in 1 .. active : OnRing(c, h)

\* A descriptor is readable exactly when it is on its way.
ValueInv ==
  \A i \in 0 .. num - 1 :
    value[i] = 1 <=> \/ \E j \in 1 .. Len(batch) : batch[j] = i
                     \/ \E j \in 1 .. Len(ready) : ready[j] = i

\* The first writes are to the first descriptors; the loop then loses no token as
\* long as it has writes left.
RunInv ==
  /\ pc \in {"fill", "wait"} => batch = <<>>
  /\ pc = "fill" => /\ Len(ready) = fired
                    /\ \A j \in 1 .. Len(ready) : ready[j] = j - 1
  /\ pc \in {"wait", "loop"} =>
       /\ fired = count + Len(ready) + Len(batch)
       /\ writes > 0 => Len(batch) + Len(ready) = active

BenchInv == BenchType /\ TokenInv /\ ValueInv /\ RunInv

LEMMA TailIs ==
  ASSUME NEW S, NEW s \in Seq(S), s # <<>>
  PROVE  /\ Head(s) = s[1] /\ Head(s) \in S /\ Tail(s) \in Seq(S)
         /\ Len(s) \in Nat /\ Len(s) >= 1 /\ Len(Tail(s)) = Len(s) - 1
         /\ \A j \in 1 .. Len(s) - 1 : Tail(s)[j] = s[j + 1]
<1> QED OBVIOUS

LEMMA AppendIs ==
  ASSUME NEW S, NEW s \in Seq(S), NEW x \in S
  PROVE  /\ Append(s, x) \in Seq(S) /\ Len(s) \in Nat /\ Len(Append(s, x)) = Len(s) + 1
         /\ Append(s, x)[Len(s) + 1] = x
         /\ \A j \in 1 .. Len(s) : Append(s, x)[j] = s[j]
<1> QED OBVIOUS

LEMMA EmptyIs == ASSUME NEW S PROVE <<>> \in Seq(S) /\ Len(<<>>) = 0
<1> QED OBVIOUS

LEMMA PlaceIs ==
  ASSUME NEW n \in Nat \ {0}, NEW a \in 0 .. n - 1, NEW c \in 0 .. n - 1, NEW h \in 1 .. a,
         NEW j \in 1 .. a, NEW k \in 1 .. a, j # k
  PROVE  Place(n, c, h, j) # Place(n, c, h, k)
<1> QED BY DEF Place, Wrap

LEMMA PlaceFirst ==
  ASSUME NEW n \in Nat \ {0}, NEW c \in 0 .. n - 1, NEW h \in Nat \ {0}
  PROVE  Place(n, c, h, 1) = c
<1> QED BY DEF Place, Wrap

\* Once the first has been read and has made the descriptor a + 1 further on readable,
\* the places are again of that form.
LEMMA PlaceShift ==
  ASSUME NEW n \in Nat \ {0}, NEW a \in 0 .. n - 1, NEW c \in 0 .. n - 1, NEW h \in 1 .. a
  PROVE  \E d \in 0 .. n - 1, g \in 1 .. a :
           /\ \A j \in 1 .. a - 1 : Place(n, d, g, j) = Place(n, c, h, j + 1)
           /\ Place(n, d, g, a) = Wrap(n, c + a + 1)
<1>1. CASE h > 1
  <2>1. PICK d \in 0 .. n - 1 : d = Wrap(n, c + 1)
    BY DEF Wrap
  <2>2. PICK g \in 1 .. a : g = h - 1
    BY <1>1
  <2>3. \A j \in 1 .. a - 1 : Place(n, d, g, j) = Place(n, c, h, j + 1)
    BY <1>1, <2>1, <2>2 DEF Place, Wrap
  <2>4. Place(n, d, g, a) = Wrap(n, c + a + 1)
    BY <1>1, <2>1, <2>2 DEF Place, Wrap
  <2> QED BY <2>3, <2>4
<1>2. CASE h = 1
  <2>1. PICK d \in 0 .. n - 1 : d = Wrap(n, c + 2)
    BY <1>2 DEF Wrap
  <2>2. PICK g \in 1 .. a : g = a
    OBVIOUS
  <2>3. \A j \in 1 .. a - 1 : Place(n, d, g, j) = Place(n, c, h, j + 1)
    BY <1>2, <2>1, <2>2 DEF Place, Wrap
  <2>4. Place(n, d, g, a) = Wrap(n, c + a + 1)
    BY <1>2, <2>1, <2>2 DEF Place, Wrap
  <2> QED BY <2>3, <2>4
<1> QED BY <1>1, <1>2

\* The elements of b, then those of r, follow each other round the ring from place c on.
Lined(n, a, c, h, b, r, B, R) ==
  /\ B + R <= a
  /\ \A j \in 1 .. B : b[j] = Place(n, c, h, j)
  /\ \A j \in 1 .. R : r[j] = Place(n, c, h, B + j)

\* What is left after the first of b, with the place where the next one is written.
Popped(n, a, c, b, r, B, R) ==
  /\ b[1] = c
  /\ \A j \in 1 .. B - 1 : b[j + 1] # c
  /\ \A j \in 1 .. R : r[j] # c
  /\ \E d \in 0 .. n - 1, g \in 1 .. a :
       /\ \A j \in 1 .. B - 1 : b[j + 1] = Place(n, d, g, j)
       /\ \A j \in 1 .. R : r[j] = Place(n, d, g, B - 1 + j)
       /\ Place(n, d, g, a) = Wrap(n, c + a + 1)
       /\ \A j \in 1 .. B - 1 : b[j + 1] # Wrap(n, c + a + 1)
       /\ \A j \in 1 .. R : r[j] # Wrap(n, c + a + 1)

\* What is left on the ring when the first of the batch b has been read: r is the ready
\* list, and the next descriptor to be written is none of those left.
LEMMA Pop ==
  ASSUME NEW n \in Nat \ {0}, NEW a \in 0 .. n - 1, NEW c \in 0 .. n - 1, NEW h \in 1 .. a,
         NEW b, NEW r, NEW B \in Nat \ {0}, NEW R \in Nat, Lined(n, a, c, h, b, r, B, R)
  PROVE  Popped(n, a, c, b, r, B, R)
<1> SUFFICES
      /\ b[1] = c
      /\ \A j \in 1 .. B - 1 : b[j + 1] # c
      /\ \A j \in 1 .. R : r[j] # c
      /\ \E d \in 0 .. n - 1, g \in 1 .. a :
           /\ \A j \in 1 .. B - 1 : b[j + 1] = Place(n, d, g, j)
           /\ \A j \in 1 .. R : r[j] = Place(n, d, g, B - 1 + j)
           /\ Place(n, d, g, a) = Wrap(n, c + a + 1)
           /\ \A j \in 1 .. B - 1 : b[j + 1] # Wrap(n, c + a + 1)
           /\ \A j \in 1 .. R : r[j] # Wrap(n, c + a + 1)
  BY DEF Popped
<1>0. /\ \A j \in 1 .. B : b[j] = Place(n, c, h, j)
      /\ \A j \in 1 .. R : r[j] = Place(n, c, h, B + j)
  BY DEF Lined
<1> B + R <= a
  BY DEF Lined
<1>1. Place(n, c, h, 1) = c
  BY PlaceFirst
<1>2. b[1] = c
  BY <1>0, <1>1
<1>3. ASSUME NEW j \in 1 .. B - 1 PROVE b[j + 1] # c
  <2>1. PICK k \in 1 .. a : k = j + 1 /\ k # 1 /\ 1 \in 1 .. a
    OBVIOUS
  <2>2. Place(n, c, h, k) # Place(n, c, h, 1)
    BY <2>1, PlaceIs
  <2> QED BY <1>0, <1>1, <2>1, <2>2
<1>4. ASSUME NEW j \in 1 .. R PROVE r[j] # c
  <2>1. PICK k \in 1 .. a : k = B + j /\ k # 1 /\ 1 \in 1 .. a
    OBVIOUS
  <2>2. Place(n, c, h, k) # Place(n, c, h, 1)
    BY <2>1, PlaceIs
  <2> QED BY <1>0, <1>1, <2>1, <2>2
<1>5. PICK d \in 0 .. n - 1, g \in 1 .. a :
        /\ \A j \in 1 .. a - 1 : Place(n, d, g, j) = Place(n, c, h, j + 1)
        /\ Place(n, d, g, a) = Wrap(n, c + a + 1)
  BY PlaceShift, ZenonT(30)
<1>6. ASSUME NEW j \in 1 .. B - 1
      PROVE  b[j + 1] = Place(n, d, g, j) /\ b[j + 1] # Wrap(n, c + a + 1)
  <2>1. j \in 1 .. a - 1 /\ j \in 1 .. a /\ a \in 1 .. a /\ j # a /\ j + 1 \in 1 .. B
    OBVIOUS
  <2>2. b[j + 1] = Place(n, d, g, j)
    BY <1>0, <1>5, <2>1
  <2>3. Place(n, d, g, j) # Place(n, d, g, a)
    BY <2>1, PlaceIs
  <2> QED BY <1>5, <2>2, <2>3
<1>7. ASSUME NEW j \in 1 .. R
      PROVE  r[j] = Place(n, d, g, B - 1 + j) /\ r[j] # Wrap(n, c + a + 1)
  <2>1. PICK k \in 1 .. a : k = B - 1 + j /\ k + 1 = B + j
    OBVIOUS
  <2>2. k \in 1 .. a - 1 /\ a \in 1 .. a /\ k # a
    BY <2>1
  <2>3. r[j] = Place(n, d, g, k)
    BY <1>0, <1>5, <2>1, <2>2
  <2>4. Place(n, d, g, k) # Place(n, d, g, a)
    BY <2>2, PlaceIs
  <2> QED BY <1>5, <2>1, <2>3, <2>4
<1> QED BY <1>2, <1>3, <1>4, <1>5, <1>6, <1>7

LEMMA BenchInit ==
  ASSUME MaxFds \in Nat, MaxWrites \in Nat, Init
  PROVE  BenchInv
<1>1. num \in Nat \ {0} /\ active \in 0 .. num - 1 /\ numWrites \in Nat
  BY DEF Init, ActiveOf
<1>2. /\ ready = <<>> /\ batch = <<>> /\ value = [i \in 0 .. num - 1 |-> 0]
      /\ count = 0 /\ writes = 0 /\ fired = 0 /\ pc = "fill"
  BY DEF Init, Fds
<1>3. <<>> \in Seq(0 .. num - 1) /\ Len(<<>>) = 0
  BY EmptyIs
<1>4. BenchType
  BY <1>1, <1>2, <1>3 DEF BenchType
<1>5. Len(ready) = 0 /\ Len(batch) = 0
  BY <1>2, <1>3
<1>6. TokenInv /\ ValueInv
  BY <1>1, <1>2, <1>5 DEF TokenInv, ValueInv
<1>7. RunInv
  BY <1>2, <1>5 DEF RunInv
<1> QED BY <1>4, <1>6, <1>7 DEF BenchInv

\* A write to a descriptor that is not on the ready list puts it at its end.
LEMMA EdgeIs ==
  ASSUME NEW r, NEW i, \A j \in 1 .. Len(r) : r[j] # i
  PROVE  Edge(r, i) = Append(r, i)
<1> QED BY DEF Edge, OnList

LEMMA FillStep ==
  ASSUME BenchInv, Fill
  PROVE  BenchInv'
<1>1. /\ pc = "fill" /\ fired < active /\ batch = <<>> /\ Len(ready) = fired
      /\ \A j \in 1 .. Len(ready) : ready[j] = j - 1
  BY DEF Fill, BenchInv, RunInv
<1>2. /\ value' = [value EXCEPT ![fired] = value[fired] + 1] /\ fired' = fired + 1
      /\ UNCHANGED <<num, active, numWrites, batch, count, writes, pc>>
  BY DEF Fill, config
<1>3. PICK f \in 0 .. num - 1 : f = fired
  BY <1>1 DEF BenchInv, BenchType
<1>4. Len(batch) = 0
  BY <1>1, EmptyIs
<1>5. ready' = Append(ready, f)
  <2>1. \A j \in 1 .. Len(ready) : ready[j] # f
    BY <1>1, <1>3
  <2> QED BY <1>3, <2>1, EdgeIs DEF Fill
<1>6. /\ ready' \in Seq(0 .. num - 1) /\ Len(ready') = f + 1 /\ ready'[f + 1] = f
      /\ \A j \in 1 .. f : ready'[j] = ready[j]
  BY <1>1, <1>3, <1>5, AppendIs DEF BenchInv, BenchType
<1>7. value[f] = 0
  BY <1>1, <1>3, <1>4 DEF BenchInv, BenchType, ValueInv
<1>8. /\ value' \in [0 .. num - 1 -> {0, 1}] /\ value'[f] = 1
      /\ \A i \in 0 .. num - 1 : i # f => value'[i] = value[i]
  BY <1>2, <1>3, <1>7 DEF BenchInv, BenchType
<1>9. BenchType'
  BY <1>2, <1>6, <1>8 DEF BenchInv, BenchType
<1>10. \A j \in 1 .. f + 1 : ready'[j] = j - 1
  BY <1>1, <1>3, <1>6
<1>11. TokenInv'
  <2>1. 0 \in 0 .. num - 1 /\ active \in 1 .. active
    BY <1>1, <1>3 DEF BenchInv, BenchType
  <2>2. \A j \in 1 .. f + 1 : Place(num, 0, active, 0 + j) = j - 1
    BY <1>1, <1>3 DEF Place, Wrap, BenchInv, BenchType
  <2>3. OnRing(0, active)'
    BY <1>2, <1>4, <1>6, <1>10, <2>2 DEF OnRing
  <2> QED BY <1>1, <1>2, <1>3, <1>4, <1>6, <2>1, <2>3 DEF TokenInv, BenchInv, BenchType
<1>12. ValueInv'
  BY <1>1, <1>2, <1>3, <1>4, <1>6, <1>8 DEF ValueInv, BenchInv
<1>13. RunInv'
  BY <1>1, <1>2, <1>3, <1>6, <1>10 DEF RunInv
<1> QED BY <1>9, <1>11, <1>12, <1>13 DEF BenchInv

LEMMA EpollStep ==
  ASSUME BenchInv, EpollWait
  PROVE  BenchInv'
<1>1. /\ pc = "wait" /\ pc' = "loop" /\ batch' = ready /\ ready' = <<>> /\ batch = <<>>
      /\ UNCHANGED <<num, active, numWrites, value, count, writes, fired>>
  BY DEF EpollWait, config, BenchInv, RunInv
<1>2. Len(batch) = 0 /\ Len(ready') = 0 /\ ready' \in Seq(0 .. num - 1) /\ Len(ready) \in Nat
      /\ Len(batch') = Len(ready)
  BY <1>1, EmptyIs DEF BenchInv, BenchType
<1>3. BenchType'
  BY <1>1, <1>2 DEF BenchInv, BenchType
<1>4. TokenInv'
  <2>1. ASSUME NEW c \in 0 .. num - 1, NEW h \in 1 .. active, OnRing(c, h)
        PROVE  OnRing(c, h)'
    BY <1>1, <1>2, <2>1 DEF OnRing
  <2> QED BY <1>1, <1>2, <2>1 DEF BenchInv, TokenInv
<1>5. ValueInv'
  BY <1>1, <1>2 DEF BenchInv, ValueInv
<1>6. RunInv'
  BY <1>1, <1>2 DEF BenchInv, BenchType, RunInv
<1> QED BY <1>3, <1>4, <1>5, <1>6 DEF BenchInv

\* read() of a readable descriptor takes what there is and is counted.
LEMMA ReadOne == ReadOf(1).taken = 1 /\ ReadOf(1).counts
<1>1. EventfdRead(1).taken = 1
  BY DEF EventfdRead
<1>2. EventfdRead(1).counts
  <2>1. (1 > 0) = TRUE
    OBVIOUS
  <2>2. EventfdRead(1) = [taken |-> 1, counts |-> TRUE]
    BY <2>1, Zenon DEF EventfdRead
  <2> QED BY <2>2
<1>3. PipeRead(1).taken = 1
  BY DEF PipeRead
<1>4. PipeRead(1).counts
  BY DEF PipeRead
<1> QED BY <1>1, <1>2, <1>3, <1>4 DEF ReadOf

LEMMA ReadCbStep ==
  ASSUME BenchInv, ReadCb
  PROVE  BenchInv'
<1>1. /\ pc = "loop" /\ batch # <<>> /\ batch' = Tail(batch)
      /\ UNCHANGED <<num, active, numWrites, pc>>
  BY DEF ReadCb, config
<1>2. /\ Head(batch) = batch[1] /\ Tail(batch) \in Seq(0 .. num - 1)
      /\ Len(batch) \in Nat /\ Len(batch) >= 1 /\ Len(batch') = Len(batch) - 1
      /\ \A j \in 1 .. Len(batch) - 1 : batch'[j] = batch[j + 1]
      /\ Len(ready) \in Nat
  BY <1>1, TailIs DEF BenchInv, BenchType
<1>3. PICK c \in 0 .. num - 1, h \in 1 .. active : OnRing(c, h)
  BY <1>2 DEF BenchInv, TokenInv
<1>4. Len(batch) + Len(ready) <= active /\ active \in 0 .. num - 1 /\ num \in Nat \ {0}
  BY DEF BenchInv, BenchType, TokenInv
<1>a. PICK B \in Nat \ {0}, R \in Nat : B = Len(batch) /\ R = Len(ready)
  <2>1. Len(batch) \in Nat \ {0}
    BY <1>2
  <2> QED BY <1>2, <2>1
<1>5. /\ B + R <= active /\ Len(batch') = B - 1
      /\ \A j \in 1 .. B - 1 : batch'[j] = batch[j + 1]
      /\ \A j \in 1 .. B : batch[j] = Place(num, c, h, j)
      /\ \A j \in 1 .. R : ready[j] = Place(num, c, h, B + j)
  BY <1>2, <1>3, <1>4, <1>a DEF OnRing
<1>6. /\ batch[1] = c
      /\ \A j \in 1 .. B - 1 : batch[j + 1] # c
      /\ \A j \in 1 .. R : ready[j] # c
      /\ \E d \in 0 .. num - 1, g \in 1 .. active :
           /\ \A j \in 1 .. B - 1 : batch[j + 1] = Place(num, d, g, j)
           /\ \A j \in 1 .. R : ready[j] = Place(num, d, g, B - 1 + j)
           /\ Place(num, d, g, active) = Wrap(num, c + active + 1)
           /\ \A j \in 1 .. B - 1 : batch[j + 1] # Wrap(num, c + active + 1)
           /\ \A j \in 1 .. R : ready[j] # Wrap(num, c + active + 1)
  <2>1. Lined(num, active, c, h, batch, ready, B, R)
    BY <1>5 DEF Lined
  <2>2. Popped(num, active, c, batch, ready, B, R)
    BY <1>4, <2>1, Pop
  <2> QED BY <2>2 DEF Popped
<1>7. value[c] = 1
  BY <1>2, <1>6 DEF BenchInv, ValueInv
<1>8. PICK v \in [0 .. num - 1 -> {0, 1}] :
        /\ v = [value EXCEPT ![c] = 0]
        /\ v[c] = 0 /\ \A i \in 0 .. num - 1 : i # c => v[i] = value[i]
  <2>1. value \in [0 .. num - 1 -> {0, 1}]
    BY DEF BenchInv, BenchType
  <2>2. [value EXCEPT ![c] = 0] \in [0 .. num - 1 -> {0, 1}]
    BY <2>1
  <2>3. /\ [value EXCEPT ![c] = 0][c] = 0
        /\ \A i \in 0 .. num - 1 : i # c => [value EXCEPT ![c] = 0][i] = value[i]
    BY <2>1
  <2> QED BY <2>2, <2>3, Zenon
<1>9. Head(batch) = c /\ ReadOf(value[c]).counts /\ value[c] - ReadOf(value[c]).taken = 0
  BY <1>2, <1>6, <1>7, ReadOne
<1>10. v = [value EXCEPT ![Head(batch)] = @ - ReadOf(@).taken]
  BY <1>8, <1>9
<1>11. count' = count + 1
  BY <1>9 DEF ReadCb
<1>12. PICK d \in 0 .. num - 1, g \in 1 .. active :
         /\ \A j \in 1 .. B - 1 : batch'[j] = Place(num, d, g, j)
         /\ \A j \in 1 .. R : ready[j] = Place(num, d, g, B - 1 + j)
         /\ Place(num, d, g, active) = Wrap(num, c + active + 1)
         /\ \A j \in 1 .. B - 1 : batch'[j] # Wrap(num, c + active + 1)
         /\ \A j \in 1 .. R : ready[j] # Wrap(num, c + active + 1)
  <2>1. PICK d \in 0 .. num - 1, g \in 1 .. active :
          /\ \A j \in 1 .. B - 1 : batch[j + 1] = Place(num, d, g, j)
          /\ \A j \in 1 .. R : ready[j] = Place(num, d, g, B - 1 + j)
          /\ Place(num, d, g, active) = Wrap(num, c + active + 1)
          /\ \A j \in 1 .. B - 1 : batch[j + 1] # Wrap(num, c + active + 1)
          /\ \A j \in 1 .. R : ready[j] # Wrap(num, c + active + 1)
    BY <1>6
  <2>2. /\ \A j \in 1 .. B - 1 : batch'[j] = Place(num, d, g, j)
        /\ \A j \in 1 .. B - 1 : batch'[j] # Wrap(num, c + active + 1)
    BY <1>5, <2>1
  <2> QED BY <2>1, <2>2
<1>13. \A i \in 0 .. num - 1 :
         v[i] = 1 <=> \/ \E j \in 1 .. B - 1 : batch'[j] = i
                      \/ \E j \in 1 .. R : ready[j] = i
  <2>1. \A j \in 1 .. B - 1 : batch'[j] # c
    BY <1>5, <1>6
  <2>2. ASSUME NEW i \in 0 .. num - 1, i # c
        PROVE  (\E j \in 1 .. B - 1 : batch'[j] = i) <=> (\E j \in 1 .. B : batch[j] = i)
    <3>1. ASSUME NEW j \in 1 .. B, batch[j] = i PROVE \E k \in 1 .. B - 1 : batch'[k] = i
      <4>1. PICK k \in 1 .. B - 1 : k + 1 = j
        <5>1. j # 1 /\ j - 1 \in 1 .. B - 1 /\ (j - 1) + 1 = j
          BY <1>6, <2>2, <3>1
        <5> QED BY <5>1
      <4> QED BY <1>5, <3>1, <4>1
    <3>2. ASSUME NEW k \in 1 .. B - 1, batch'[k] = i PROVE \E j \in 1 .. B : batch[j] = i
      <4>1. k + 1 \in 1 .. B /\ batch[k + 1] = i
        BY <1>5, <3>2
      <4> QED BY <4>1
    <3> QED BY <3>1, <3>2
  <2>3. ASSUME NEW i \in 0 .. num - 1
        PROVE  value[i] = 1 <=> \/ \E j \in 1 .. B : batch[j] = i
                                \/ \E j \in 1 .. R : ready[j] = i
    BY <1>a DEF BenchInv, ValueInv
  <2>4. ASSUME NEW i \in 0 .. num - 1, i # c
        PROVE  v[i] = 1 <=> \/ \E j \in 1 .. B - 1 : batch'[j] = i
                            \/ \E j \in 1 .. R : ready[j] = i
    BY <1>8, <2>2, <2>3, <2>4
  <2> QED BY <1>6, <1>8, <2>1, <2>4
<1>14. CASE writes > 0
  <2>1. PICK t \in 0 .. num - 1 : t = Wrap(num, c + active + 1) /\ t = Target(c)
    <3>1. Wrap(num, c + active + 1) \in 0 .. num - 1
      BY <1>4 DEF Wrap
    <3>2. Wrap(num, c + active + 1) = Target(c)
      BY <1>4 DEF Wrap, Target
    <3> QED BY <3>1, <3>2
  <2>2. /\ value' = [v EXCEPT ![t] = v[t] + 1] /\ ready' = Edge(ready, t)
        /\ writes' = writes - 1 /\ fired' = fired + 1
    BY <1>9, <1>10, <1>14, <2>1 DEF ReadCb
  <2>3. B + R = active
    BY <1>1, <1>a, <1>14 DEF BenchInv, RunInv
  <2>4. /\ \A j \in 1 .. B - 1 : batch'[j] # t
        /\ \A j \in 1 .. R : ready[j] # t
    BY <1>12, <2>1
  <2>5. v[t] = 0
    BY <1>8, <1>13, <2>4
  <2>6. ready' = Append(ready, t)
    BY <1>a, <2>2, <2>4, EdgeIs
  <2>7. /\ ready' \in Seq(0 .. num - 1) /\ Len(ready') = R + 1
        /\ ready'[R + 1] = t
        /\ \A j \in 1 .. R : ready'[j] = ready[j]
    BY <1>a, <2>6, AppendIs DEF BenchInv, BenchType
  <2>8. /\ value' \in [0 .. num - 1 -> {0, 1}] /\ value'[t] = 1
        /\ \A i \in 0 .. num - 1 : i # t => value'[i] = v[i]
    BY <1>8, <2>2, <2>5
  <2>9. BenchType'
    BY <1>1, <1>2, <1>11, <1>14, <2>2, <2>7, <2>8 DEF BenchInv, BenchType
  <2>10. OnRing(d, g)'
    <3>1. ASSUME NEW j \in 1 .. R + 1 PROVE ready'[j] = Place(num, d, g, B - 1 + j)
      <4>1. CASE j = R + 1
        <5>1. B - 1 + j = active
          BY <2>3, <4>1
        <5> QED BY <1>12, <2>1, <2>7, <4>1, <5>1
      <4>2. CASE j # R + 1
        BY <1>12, <2>7, <4>2
      <4> QED BY <4>1, <4>2
    <3> QED BY <1>1, <1>5, <1>12, <2>7, <3>1 DEF OnRing
  <2>11. TokenInv'
    BY <1>1, <1>4, <1>5, <2>3, <2>7, <2>10 DEF TokenInv
  <2>12. ValueInv'
    <3>1. ASSUME NEW i \in 0 .. num - 1, i # t
          PROVE  (\E j \in 1 .. R + 1 : ready'[j] = i) <=> (\E j \in 1 .. R : ready[j] = i)
      BY <2>7, <3>1
    <3>2. R + 1 \in 1 .. R + 1
      OBVIOUS
    <3> QED BY <1>1, <1>5, <1>13, <2>7, <2>8, <3>1, <3>2 DEF ValueInv
  <2>13. RunInv'
    <3>1. fired = count + R + B /\ fired \in Nat /\ count \in Nat
      BY <1>1, <1>a DEF BenchInv, BenchType, RunInv
    <3>2. /\ fired' = count' + Len(ready') + Len(batch')
          /\ Len(batch') + Len(ready') = active'
      <4>1. active' = active /\ count' = count + 1 /\ fired' = fired + 1
        BY <1>1, <1>11, <2>2
      <4>2. Len(batch') = B - 1 /\ Len(ready') = R + 1
        BY <1>5, <2>7
      <4> QED BY <2>3, <3>1, <4>1, <4>2
    <3> QED BY <1>1, <3>2 DEF RunInv
  <2> QED BY <2>9, <2>11, <2>12, <2>13 DEF BenchInv
<1>15. CASE ~(writes > 0)
  <2>1. value' = v /\ UNCHANGED <<ready, writes, fired>>
    BY <1>9, <1>10, <1>15 DEF ReadCb
  <2>2. BenchType'
    BY <1>1, <1>2, <1>11, <1>8, <2>1 DEF BenchInv, BenchType
  <2>3. TokenInv'
    <3>1. OnRing(d, g)'
      BY <1>1, <1>a, <1>5, <1>12, <2>1 DEF OnRing
    <3> QED BY <1>1, <1>4, <1>a, <1>5, <2>1, <3>1 DEF TokenInv
  <2>4. ValueInv'
    BY <1>1, <1>a, <1>5, <1>13, <2>1 DEF ValueInv
  <2>5. RunInv'
    <3>1. fired = count + R + B /\ fired \in Nat /\ count \in Nat
      BY <1>1, <1>a DEF BenchInv, BenchType, RunInv
    <3>2. fired' = count' + Len(ready') + Len(batch')
      <4>1. fired' = fired /\ count' = count + 1 /\ Len(ready') = R /\ Len(batch') = B - 1
        BY <1>a, <1>5, <1>11, <2>1
      <4> QED BY <3>1, <4>1
    <3> QED BY <1>1, <1>15, <2>1, <3>2 DEF RunInv
  <2> QED BY <2>2, <2>3, <2>4, <2>5 DEF BenchInv
<1> QED BY <1>14, <1>15

LEMMA LoopTestStep ==
  ASSUME BenchInv, LoopTest
  PROVE  BenchInv'
<1>1. /\ pc = "loop" /\ batch = <<>>
      /\ UNCHANGED <<num, active, numWrites, value, ready, batch, count, writes>>
      /\ \/ count # fired /\ pc' = "wait" /\ fired' = fired
         \/ pc' \in {"exit7", "end"} /\ fired' = fired
         \/ count = fired /\ pc' = "fill" /\ fired' = 0
  BY DEF LoopTest, config
<1>2. Len(batch) = 0 /\ Len(ready) \in Nat
  BY <1>1, EmptyIs DEF BenchInv, BenchType
<1>3. BenchType'
  BY <1>1 DEF BenchInv, BenchType
<1>4. TokenInv' /\ ValueInv'
  BY <1>1 DEF BenchInv, TokenInv, ValueInv, OnRing
<1>5. RunInv'
  <2>1. count = fired => Len(ready) = 0
    BY <1>1, <1>2 DEF BenchInv, BenchType, RunInv
  <2> QED BY <1>1, <1>2, <2>1 DEF BenchInv, RunInv
<1> QED BY <1>3, <1>4, <1>5 DEF BenchInv

LEMMA BenchNext == BenchInv /\ Next => BenchInv'
<1> SUFFICES ASSUME BenchInv, Next PROVE BenchInv'
  OBVIOUS
<1>1. CASE Filled
  <2>1. /\ pc = "fill" /\ pc' = "wait" /\ fired = active /\ count' = 0 /\ writes' = numWrites
        /\ UNCHANGED <<num, active, numWrites, value, ready, batch, fired>>
    BY <1>1 DEF Filled, config
  <2>2. Len(batch) = 0 /\ Len(ready) = active
    BY <2>1, EmptyIs DEF BenchInv, RunInv
  <2>3. BenchType' /\ TokenInv' /\ ValueInv'
    BY <2>1 DEF BenchInv, BenchType, TokenInv, ValueInv, OnRing
  <2>4. RunInv'
    BY <2>1, <2>2 DEF BenchInv, BenchType, RunInv
  <2> QED BY <2>3, <2>4 DEF BenchInv
<1> QED BY <1>1, FillStep, EpollStep, ReadCbStep, LoopTestStep DEF Next

LEMMA BenchIs == BenchInv => Accounted
<1> SUFFICES ASSUME BenchInv PROVE Accounted
  OBVIOUS
<1>1. \A i \in 0 .. num - 1 : value[i] <= 1 /\ (value[i] > 0 <=> value[i] = 1)
  BY DEF BenchInv, BenchType
<1>2. \A i \in 0 .. num - 1 :
        OnList(ready \o batch, i) <=> \/ \E j \in 1 .. Len(batch) : batch[j] = i
                                      \/ \E j \in 1 .. Len(ready) : ready[j] = i
  <2>1. /\ Len(ready) \in Nat /\ Len(batch) \in Nat
        /\ Len(ready \o batch) = Len(ready) + Len(batch)
        /\ \A j \in 1 .. Len(ready) : (ready \o batch)[j] = ready[j]
        /\ \A j \in 1 .. Len(batch) : (ready \o batch)[Len(ready) + j] = batch[j]
    BY DEF BenchInv, BenchType
  <2>2. PICK B \in Nat, R \in Nat : B = Len(batch) /\ R = Len(ready)
    BY <2>1
  <2> SUFFICES ASSUME NEW i \in 0 .. num - 1
               PROVE  (\E k \in 1 .. R + B : (ready \o batch)[k] = i)
                        <=> \/ \E j \in 1 .. B : batch[j] = i
                            \/ \E j \in 1 .. R : ready[j] = i
    BY <2>1, <2>2 DEF OnList
  <2>3. ASSUME NEW j \in 1 .. B PROVE \E k \in 1 .. R + B : (ready \o batch)[k] = batch[j]
    <3>1. R + j \in 1 .. R + B /\ (ready \o batch)[R + j] = batch[j]
      BY <2>1, <2>2
    <3> QED BY <3>1
  <2>4. ASSUME NEW j \in 1 .. R PROVE \E k \in 1 .. R + B : (ready \o batch)[k] = ready[j]
    <3>1. j \in 1 .. R + B /\ (ready \o batch)[j] = ready[j]
      BY <2>1, <2>2
    <3> QED BY <3>1
  <2>5. ASSUME NEW k \in 1 .. R + B, (ready \o batch)[k] = i
        PROVE  \/ \E j \in 1 .. B : batch[j] = i
               \/ \E j \in 1 .. R : ready[j] = i
    <3>1. CASE k <= R
      BY <2>1, <2>2, <2>5, <3>1
    <3>2. CASE k > R
      <4>1. PICK j \in 1 .. B : k = R + j
        <5>1. k - R \in 1 .. B /\ k = R + (k - R)
          BY <3>2
        <5> QED BY <5>1
      <4> QED BY <2>1, <2>2, <2>5, <4>1
    <3> QED BY <3>1, <3>2
  <2> QED BY <2>3, <2>4, <2>5
<1>3. pc \in {"wait", "loop"} => fired = count + Len(ready) + Len(batch)
  BY DEF BenchInv, RunInv
<1> QED BY <1>1, <1>2, <1>3 DEF Accounted, Fds, BenchInv, ValueInv

-----------------------------------------------------------------------------
(* The theorem *)

\* A descriptor is readable exactly when it is on its way to read_cb, it never holds two
\* writes, and every event fired is counted or still to be.
THEOREM NoEventLost ==
  ASSUME MaxFds \in Nat, MaxWrites \in Nat
  PROVE  Spec => []Accounted
<1>1. Init => BenchInv
  BY BenchInit
<1>2. BenchInv /\ [Next]_vars => BenchInv'
  <2>1. BenchInv /\ UNCHANGED vars => BenchInv'
    BY DEF vars, config, BenchInv, BenchType, TokenInv, ValueInv, RunInv, OnRing
  <2> QED BY <2>1, BenchNext
<1> QED BY <1>1, <1>2, BenchIs, PTL DEF Spec
=============================================================================
