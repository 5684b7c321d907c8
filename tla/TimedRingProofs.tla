--------------------------- MODULE TimedRingProofs --------------------------
(***************************************************************************)
(* The timed ring of smart-queue.c, for any number of tasks, any sizes of  *)
(* the ring, of a word and of a slot, and any times.                       *)
(***************************************************************************)
EXTENDS TimedRing, WellFoundedInduction, TLAPS

TypeInv ==
  /\ ibase \in Slots /\ base \in Nat /\ tbase \in Nat
  /\ tsks \in [Slots -> Seq(Tasks)]
  /\ time \in [Tasks -> Nat] /\ due \in [Tasks -> Nat]
  /\ todo \subseteq Tasks /\ taken \in Tasks \cup {Null} /\ exact \subseteq Tasks
  /\ moved \in BOOLEAN

\* How far a slot is from ibase as the ring turns.
Dist(i) == IF i >= ibase THEN i - ibase ELSE i - ibase + MaxRq

\* A task is where its unreduced slot says, and it is there once.
SlotInv ==
  \A i \in Slots : \A n \in DOMAIN tsks[i] : due[tsks[i][n]] = base + Dist(i)
OnceInv ==
  \A i \in Slots : \A n, m \in DOMAIN tsks[i] : tsks[i][n] = tsks[i][m] => n = m
BaseInv == \E q \in Nat : base = MaxRq * q + ibase

\* The bit map is that of the lists.
MapInv == map = {i \in Slots : tsks[i] # <<>>}

\* What tr_test is about to queue is not queued.
CallerInv ==
  caller = "tr_test" => todo \cap Queued = {} /\ taken \notin Queued \cup todo

\* tbase and ibase are in step.
StepInv ==
  ~moved => \A k \in Queued \cap exact :
    LET from == tbase + NsSlot * (due[k] - base)
    IN from <= time[k] /\ time[k] < from + NsSlot

IInv == TypeInv /\ SlotInv /\ OnceInv /\ BaseInv /\ MapInv /\ CallerInv /\ StepInv

-----------------------------------------------------------------------------
(* Numbers *)

\* A set of numbers that is not empty has a least one.
LEMMA Least ==
  ASSUME NEW S, S \subseteq Nat, S # {}
  PROVE  \E m \in S : \A n \in S : m <= n
<1> DEFINE R == {x \in Nat \X Nat : x[1] < x[2]}
<1>1. IsWellFoundedOn(R, Nat)
  <2>1. OpToRel(<, Nat) = R
    BY Zenon DEF OpToRel
  <2> QED BY <2>1, NatLessThanWellFounded, Zenon
<1>2. \A x, y \in Nat : <<y, x>> \in R <=> y < x
  OBVIOUS
<1> HIDE DEF R
<1>3. \E x \in S : \A y \in S : ~ (<<y, x>> \in R)
  BY <1>1, WFMin, Zenon
<1>4. PICK x \in S : \A y \in S : ~ (<<y, x>> \in R)
  BY <1>3
<1>5. \A y \in S : ~(y < x)
  BY <1>2, <1>4
<1>6. \A y \in S : x <= y
  BY <1>5
<1> QED BY <1>6

LEMMA MinIs ==
  ASSUME NEW S, S \subseteq Nat, S # {}
  PROVE  Min(S) \in S /\ \A n \in S : Min(S) <= n
BY Least, Zenon DEF Min

LEMMA Times ==
  ASSUME NEW M \in Nat \ {0}, NEW x \in Int, NEW y \in Int
  PROVE  /\ M * x \in Int /\ M * y \in Int
         /\ x < y <=> M * x + M <= M * y
         /\ M * (x + y) = M * x + M * y
         /\ M * (x - y) = M * x - M * y
<1>1. M * (x + y) = M * x + M * y /\ M * (x - y) = M * x - M * y
  OBVIOUS
<1>2. x < y => M * x + M <= M * y
  OBVIOUS
<1>3. ~(x < y) => ~(M * x + M <= M * y)
  OBVIOUS
<1> QED BY <1>1, <1>2, <1>3

LEMMA DivIs ==
  ASSUME NEW M \in Nat \ {0}, NEW x \in Int
  PROVE  /\ x \div M \in Int /\ x % M \in 0 .. M - 1
         /\ x = M * (x \div M) + (x % M)
OBVIOUS

LEMMA ModIs ==
  ASSUME NEW M \in Nat \ {0}, NEW q \in Int, NEW r \in 0 .. M - 1
  PROVE  (M * q + r) % M = r
<1> DEFINE x == M * q + r
           p == x \div M
           s == x % M
<1>1. x \in Int /\ p \in Int /\ s \in 0 .. M - 1 /\ M * q + r = M * p + s
  BY DivIs
<1> HIDE DEF x, p, s
<1>2. ~(p < q) /\ ~(q < p)
  BY <1>1, Times
<1>3. p = q
  BY <1>1, <1>2
<1>4. s = r
  BY <1>1, <1>3
<1> QED BY <1>4 DEF s, x

\* Once around
LEMMA WrapIs ==
  ASSUME NEW M \in Nat \ {0}, NEW x \in -M .. 2 * M - 1
  PROVE  x % M = IF x < 0 THEN x + M ELSE IF x < M THEN x ELSE x - M
<1>1. CASE x < 0
  <2>1. (M * (-1) + (x + M)) % M = x + M
    BY <1>1, ModIs
  <2> QED BY <1>1, <2>1
<1>2. CASE 0 <= x /\ x < M
  <2>1. (M * 0 + x) % M = x
    BY <1>2, ModIs
  <2> QED BY <1>2, <2>1
<1>3. CASE M <= x
  <2>1. (M * 1 + (x - M)) % M = x - M
    BY <1>3, ModIs
  <2> QED BY <1>3, <2>1
<1> QED BY <1>1, <1>2, <1>3
-----------------------------------------------------------------------------
(* rel_ffs *)

WordsN == MaxRq \div WordBits
Word(i) == i \div WordBits

\* The word of pass n
WordOf(n) == IF Word(ibase) + n < WordsN THEN Word(ibase) + n ELSE Word(ibase) + n - WordsN

LEMMA Sizes ==
  /\ MaxRq \in Nat \ {0} /\ WordBits \in Nat \ {0} /\ NsSlot \in Nat \ {0}
  /\ WordsN \in Nat \ {0} /\ MaxRq = WordBits * WordsN /\ Words = 0 .. WordsN - 1
<1>1. MaxRq \in Nat \ {0} /\ WordBits \in Nat \ {0} /\ NsSlot \in Nat \ {0} /\ MaxRq % WordBits = 0
  BY RingAssumption
<1>2. WordsN \in Int /\ MaxRq = WordBits * WordsN
  BY <1>1, DivIs DEF WordsN
<1>3. WordBits * 0 = 0 /\ (0 < WordsN <=> WordBits * 0 + WordBits <= WordBits * WordsN)
  BY <1>1, <1>2, Times
<1>4. 0 < WordsN
  <2>1. ~(WordsN < 0)
    <3>1. WordsN < 0 <=> WordBits * WordsN + WordBits <= WordBits * 0
      BY <1>1, <1>2, Times
    <3> QED BY <1>1, <1>2, <1>3, <3>1
  <2>2. WordsN # 0
    BY <1>1, <1>2, <1>3
  <2> QED BY <1>2, <2>1, <2>2
<1> QED BY <1>1, <1>2, <1>4 DEF Words, WordsN

LEMMA WordIs ==
  ASSUME NEW i \in Slots
  PROVE  /\ i \in Nat /\ i < MaxRq
         /\ Word(i) \in Nat /\ Word(i) < WordsN
         /\ WordBits * Word(i) \in Int
         /\ WordBits * Word(i) <= i /\ i < WordBits * Word(i) + WordBits
<1>1. i \in Nat /\ i < MaxRq
  BY Sizes DEF Slots
<1>2. /\ Word(i) \in Int /\ i % WordBits \in 0 .. WordBits - 1
      /\ i = WordBits * Word(i) + (i % WordBits)
  BY <1>1, Sizes, DivIs DEF Word
<1>3. WordBits * Word(i) \in Int /\ WordBits * Word(i) <= i /\ i < WordBits * Word(i) + WordBits
  <2>1. WordBits * Word(i) \in Int
    BY <1>2, Sizes
  <2>2. PICK m \in Int, r \in Int, z \in Nat :
          m = WordBits * Word(i) /\ r = i % WordBits /\ z = WordBits
    BY <1>2, <2>1, Sizes
  <2>3. 0 <= r /\ r < z /\ i = m + r
    BY <1>2, <2>2
  <2>4. m <= i /\ i < m + z
    BY <2>3
  <2> QED BY <2>1, <2>2, <2>4, Zenon
<1>4. Word(i) < 0 <=> WordBits * Word(i) + WordBits <= WordBits * 0
  <2>1. Word(i) \in Int /\ 0 \in Int /\ WordBits \in Nat \ {0}
    BY <1>2, Sizes
  <2> QED BY <2>1, Times
<1>5. WordsN < Word(i) <=> WordBits * WordsN + WordBits <= WordBits * Word(i)
  <2>1. Word(i) \in Int /\ WordsN \in Int /\ WordBits \in Nat \ {0}
    BY <1>2, Sizes
  <2> QED BY <2>1, Times
<1>6. WordBits * 0 = 0
  BY Sizes
<1>7. ~(Word(i) < 0)
  BY <1>1, <1>2, <1>3, <1>4, <1>6, Sizes
<1>8. ~(WordsN < Word(i))
  BY <1>1, <1>2, <1>3, <1>5, Sizes
<1>9. WordsN # Word(i)
  BY <1>1, <1>3, Sizes
<1> QED BY <1>1, <1>2, <1>3, <1>7, <1>8, <1>9, Sizes

\* The slots of a word come before those of the next.
LEMMA WordOrder ==
  ASSUME NEW i \in Slots, NEW j \in Slots, Word(i) < Word(j)
  PROVE  i < j
<1>1. Word(i) \in Int /\ Word(j) \in Int /\ WordBits \in Nat \ {0}
  BY WordIs, Sizes
<1>2. WordBits * Word(i) + WordBits <= WordBits * Word(j)
  BY <1>1, Times
<1> QED BY <1>2, WordIs, Sizes

LEMMA SeenIs ==
  ASSUME TypeInv, NEW n \in Words, NEW i
  PROVE  /\ WordOf(n) \in Nat
         /\ i \in Seen(n) <=> i \in map /\ Word(i) = WordOf(n) /\ (n = 0 => i >= ibase)
<1>1. n \in Nat /\ n < WordsN /\ Word(ibase) \in Nat /\ Word(ibase) < WordsN
      /\ WordsN \in Nat \ {0}
  BY WordIs, Sizes DEF TypeInv
<1>2. (Word(ibase) + n) % WordsN = WordOf(n)
  <2>1. Word(ibase) + n \in -WordsN .. 2 * WordsN - 1
    BY <1>1
  <2> QED BY <1>1, <2>1, WrapIs DEF WordOf
<1>3. Seen(n) = IF n = 0 THEN FirstMask(WordOf(n)) ELSE {k \in map : Word(k) = WordOf(n)}
  BY <1>2 DEF Seen, Word, WordsN
<1>4. FirstMask(WordOf(n)) = {k \in map : Word(k) = WordOf(n) /\ k >= ibase}
  BY DEF FirstMask, Word
<1>5. WordOf(n) \in Nat
  BY <1>1 DEF WordOf
<1> QED BY <1>3, <1>4, <1>5

\* What is seen earlier is nearer.
LEMMA SeenOrder ==
  ASSUME TypeInv, map \subseteq Slots, NEW n \in Words, NEW m \in Words,
         NEW i \in Seen(n), NEW j \in Seen(m), n < m \/ (n = m /\ i <= j)
  PROVE  Dist(i) <= Dist(j)
<1>1. /\ i \in Slots /\ Word(i) = WordOf(n) /\ (n = 0 => i >= ibase)
      /\ j \in Slots /\ Word(j) = WordOf(m) /\ (m = 0 => j >= ibase)
  BY SeenIs
<1>2. /\ i \in Nat /\ i < MaxRq /\ j \in Nat /\ j < MaxRq /\ ibase \in Nat /\ ibase < MaxRq
      /\ Word(i) \in Nat /\ Word(j) \in Nat /\ Word(ibase) \in Nat /\ Word(ibase) < WordsN
      /\ n \in Nat /\ m \in Nat /\ n < WordsN /\ m < WordsN /\ WordsN \in Nat /\ MaxRq \in Nat
  BY <1>1, WordIs, Sizes DEF TypeInv
<1>3. /\ Word(i) < Word(j) => i < j
      /\ Word(j) < Word(i) => j < i
      /\ Word(i) < Word(ibase) => i < ibase
      /\ Word(ibase) < Word(i) => ibase < i
      /\ Word(j) < Word(ibase) => j < ibase
      /\ Word(ibase) < Word(j) => ibase < j
  BY <1>1, WordOrder DEF TypeInv
<1>4. CASE n = m
  <2>1. Word(i) = Word(j) /\ i <= j
    BY <1>1, <1>2, <1>4
  <2>2. n = 0 \/ Word(i) < Word(ibase) \/ Word(ibase) < Word(i)
    BY <1>1, <1>2 DEF WordOf
  <2> QED BY <1>1, <1>2, <1>3, <1>4, <2>1, <2>2 DEF Dist
<1>5. CASE n < m
  <2>1. CASE Word(ibase) + m < WordsN
    <3>1. Word(i) < Word(j) /\ Word(ibase) < Word(j) /\ (n = 0 \/ Word(ibase) < Word(i))
      BY <1>1, <1>2, <1>5, <2>1 DEF WordOf
    <3> QED BY <1>1, <1>2, <1>3, <3>1 DEF Dist
  <2>2. CASE ~(Word(ibase) + m < WordsN) /\ Word(ibase) + n < WordsN
    <3>1. Word(j) < Word(ibase) /\ (n = 0 \/ Word(ibase) < Word(i))
      BY <1>1, <1>2, <1>5, <2>2 DEF WordOf
    <3> QED BY <1>1, <1>2, <1>3, <3>1 DEF Dist
  <2>3. CASE ~(Word(ibase) + n < WordsN)
    <3>1. Word(j) < Word(ibase) /\ Word(i) < Word(ibase) /\ Word(i) < Word(j)
      BY <1>1, <1>2, <1>5, <2>3 DEF WordOf
    <3> QED BY <1>1, <1>2, <1>3, <3>1 DEF Dist
  <2> QED BY <2>1, <2>2, <2>3
<1> QED BY <1>2, <1>4, <1>5

\* What is never seen lies behind ibase, in its word, and that is the farthest.
Behind(j) == Word(j) = Word(ibase) /\ j < ibase

LEMMA Unseen ==
  ASSUME TypeInv, map \subseteq Slots, NEW j \in map
  PROVE  Behind(j) <=> \A n \in Words : j \notin Seen(n)
<1>1. /\ j \in Slots /\ j \in Nat /\ ibase \in Nat
      /\ Word(j) \in Nat /\ Word(j) < WordsN /\ Word(ibase) \in Nat /\ Word(ibase) < WordsN
      /\ WordsN \in Nat \ {0}
  BY WordIs, Sizes DEF TypeInv
<1>2. ASSUME Behind(j), NEW n \in Words
      PROVE  j \notin Seen(n)
  <2>1. n \in Nat /\ n < WordsN
    BY <1>1, Sizes
  <2>2. CASE n = 0
    BY <1>1, <1>2, <2>2, SeenIs DEF Behind
  <2>3. CASE n # 0
    <3>1. WordOf(n) # Word(ibase)
      BY <1>1, <2>1, <2>3 DEF WordOf
    <3> QED BY <1>2, <3>1, SeenIs DEF Behind
  <2> QED BY <2>2, <2>3
<1>3. ASSUME ~Behind(j)
      PROVE  \E n \in Words : j \in Seen(n)
  <2> DEFINE n == IF Word(j) >= Word(ibase) THEN Word(j) - Word(ibase)
                  ELSE Word(j) - Word(ibase) + WordsN
  <2>1. n \in 0 .. WordsN - 1
    BY <1>1
  <2>2. n \in Words
    BY <2>1, Sizes
  <2>3. WordOf(n) = Word(j)
    BY <1>1 DEF WordOf
  <2>4. n = 0 => j >= ibase
    BY <1>1, <1>3 DEF Behind
  <2> HIDE DEF n
  <2> QED BY <2>2, <2>3, <2>4, SeenIs
<1> QED BY <1>2, <1>3

LEMMA BehindIsFar ==
  ASSUME TypeInv, map \subseteq Slots, NEW n \in Words, NEW i \in Seen(n),
         NEW j \in Slots, Behind(j)
  PROVE  Dist(i) <= Dist(j)
<1>1. i \in map /\ i \in Slots
  BY SeenIs
<1>2. /\ i \in Nat /\ i < MaxRq /\ j \in Nat /\ j < MaxRq /\ ibase \in Nat /\ ibase < MaxRq
      /\ Word(i) \in Nat /\ Word(j) \in Nat /\ Word(ibase) \in Nat /\ MaxRq \in Nat
  BY <1>1, WordIs, Sizes DEF TypeInv
<1>3. i >= ibase \/ Word(i) # Word(ibase)
  BY <1>1, <1>2, Unseen DEF Behind
<1>4. /\ Word(i) < Word(j) => i < j
      /\ Word(ibase) < Word(i) => ibase < i
  BY <1>1, WordOrder DEF TypeInv
<1> QED BY <1>2, <1>3, <1>4 DEF Behind, Dist

\* rel_ffs finds the nearest of the slots, but for those behind ibase in its word.
LEMMA RelFfsIs ==
  ASSUME TypeInv, map \subseteq Slots
  PROVE  /\ RelFfs = Null <=> \A j \in map : Behind(j)
         /\ RelFfs # Null => RelFfs \in map /\ \A j \in map : Dist(RelFfs) <= Dist(j)
<1> DEFINE hits == {n \in Words : Seen(n) # {}}
           n == Min(hits)
           idx == Min(Seen(n))
<1>1. RelFfs = IF hits = {} THEN Null ELSE idx
  BY DEF RelFfs
<1>2. hits = {} <=> \A j \in map : Behind(j)
  <2>1. hits = {} <=> \A k \in Words : Seen(k) = {}
    OBVIOUS
  <2>2. \A k \in Words : Seen(k) \subseteq map
    BY SeenIs
  <2> QED BY <2>1, <2>2, Unseen
<1>3. hits # {} => n \in hits /\ \A k \in hits : n <= k
  <2>1. hits \subseteq Nat
    BY Sizes
  <2> HIDE DEF hits
  <2> QED BY <2>1, MinIs
<1>4. hits # {} => idx \in Seen(n) /\ \A k \in Seen(n) : idx <= k
  <2>1. hits # {} => Seen(n) \subseteq Nat /\ Seen(n) # {}
    <3>1. hits # {} => n \in Words /\ Seen(n) # {}
      BY <1>3
    <3>2. \A k \in Slots : k \in Nat
      BY WordIs
    <3> HIDE DEF n, hits
    <3> QED BY <3>1, <3>2, SeenIs
  <2> HIDE DEF n, hits
  <2> QED BY <2>1, MinIs
<1>5. hits # {} => idx \in map /\ idx # Null /\ n \in Words
  <2>1. hits # {} => n \in Words
    BY <1>3
  <2> HIDE DEF n, hits, idx
  <2>2. hits # {} => idx \in map
    BY <1>4, <2>1, SeenIs
  <2> QED BY <2>1, <2>2, RingAssumption DEF Slots
<1>6. ASSUME hits # {}, NEW j \in map
      PROVE  Dist(idx) <= Dist(j)
  <2>1. CASE Behind(j)
    <3> HIDE DEF n, hits, idx
    <3> QED BY <1>4, <1>5, <1>6, <2>1, BehindIsFar
  <2>2. CASE ~Behind(j)
    <3>1. PICK m \in Words : j \in Seen(m)
      BY <2>2, Unseen
    <3>2. m \in hits
      BY <3>1
    <3> HIDE DEF n, hits, idx
    <3>3. n <= m /\ n \in Int /\ m \in Int
      BY <1>3, <1>5, <1>6, <3>2, Sizes
    <3>4. n < m \/ (n = m /\ idx <= j)
      BY <1>4, <1>6, <3>1, <3>3
    <3> QED BY <1>4, <1>5, <1>6, <3>1, <3>4, SeenOrder
  <2> QED BY <2>1, <2>2
<1> HIDE DEF n, hits, idx
<1> QED BY <1>1, <1>2, <1>5, <1>6
-----------------------------------------------------------------------------
(* tr_queue *)

In(lists, k) == \E i \in Slots : \E n \in DOMAIN lists[i] : lists[i][n] = k

LEMMA QueuedIs ==
  /\ \A k : k \in Queued <=> In(tsks, k)
  /\ \A k : k \in Queued' <=> In(tsks', k)
BY DEF Queued, ToSet, In

LEMMA DistIs ==
  ASSUME TypeInv, NEW i \in Slots
  PROVE  /\ Dist(i) \in Nat /\ Dist(i) < MaxRq /\ Turn(i) = Dist(i)
         /\ Dist(i) \in {i - ibase, i - ibase + MaxRq}
         /\ \A j \in Slots : Dist(i) = Dist(j) => i = j
<1>1. /\ i \in Nat /\ i < MaxRq /\ ibase \in Nat /\ ibase < MaxRq /\ MaxRq \in Nat \ {0}
      /\ \A j \in Slots : j \in Nat /\ j < MaxRq
  BY WordIs, Sizes DEF TypeInv
<1>2. PICK x \in -MaxRq .. 2 * MaxRq - 1 : x = i - ibase
  BY <1>1
<1>3. Turn(i) = Dist(i)
  <2>1. x % MaxRq = IF x < 0 THEN x + MaxRq ELSE IF x < MaxRq THEN x ELSE x - MaxRq
    BY <1>1, WrapIs
  <2>2. Turn(i) = x % MaxRq
    BY <1>2 DEF Turn
  <2> QED BY <1>1, <1>2, <2>1, <2>2 DEF Dist
<1> QED BY <1>1, <1>3 DEF Dist

\* Where tr_queue puts a task
LEMMA AheadIs ==
  ASSUME NEW from \in Nat, NEW t \in Nat
  PROVE  LET d == Ahead(from, t)
         IN /\ d \in Nat /\ d < MaxRq
            /\ (t - from) \in 0 .. (MaxRq * NsSlot - 1) =>
                 from + NsSlot * d <= t /\ t < from + NsSlot * d + NsSlot
<1> DEFINE x == (t - from) \div NsSlot
           d == Ahead(from, t)
<1>1. MaxRq \in Nat \ {0} /\ NsSlot \in Nat \ {0} /\ MaxRq * NsSlot = NsSlot * MaxRq
      /\ NsSlot * 0 = 0
  BY Sizes
<1>2. CASE t < from
  BY <1>1, <1>2 DEF Ahead
<1>3. CASE ~(t < from)
  <2>1. /\ x \in Int /\ (t - from) % NsSlot \in 0 .. NsSlot - 1
        /\ t - from = NsSlot * x + ((t - from) % NsSlot)
    <3>1. PICK y \in Int : y = t - from
      OBVIOUS
    <3>2. /\ y \div NsSlot \in Int /\ y % NsSlot \in 0 .. NsSlot - 1
          /\ y = NsSlot * (y \div NsSlot) + (y % NsSlot)
      BY <1>1, DivIs
    <3> QED BY <3>1, <3>2
  <2> HIDE DEF x
  <2>2. NsSlot * x \in Int /\ NsSlot * x <= t - from /\ t - from < NsSlot * x + NsSlot
    BY <1>1, <2>1
  <2>3. x < 0 <=> NsSlot * x + NsSlot <= NsSlot * 0
    BY <1>1, <2>1, Times
  <2>4. x \in Nat
    BY <1>1, <1>3, <2>1, <2>2, <2>3
  <2>5. d \in {x, MaxRq - 1} /\ d <= x /\ d <= MaxRq - 1
    <3>1. d = Min({x, MaxRq - 1})
      BY <1>3 DEF Ahead, x
    <3>2. {x, MaxRq - 1} \subseteq Nat /\ {x, MaxRq - 1} # {}
      BY <1>1, <2>4
    <3>3. d \in {x, MaxRq - 1} /\ \A n \in {x, MaxRq - 1} : d <= n
      BY <3>1, <3>2, MinIs
    <3> QED BY <3>3
  <2>6. MaxRq \in Int /\ (MaxRq < x <=> NsSlot * MaxRq + NsSlot <= NsSlot * x)
    BY <1>1, <2>1, Times
  <2>7. t - from < MaxRq * NsSlot => x < MaxRq
    <3>1. MaxRq = x => ~(t - from < MaxRq * NsSlot)
      BY <1>1, <2>2
    <3>2. MaxRq < x => ~(t - from < MaxRq * NsSlot)
      BY <1>1, <2>2, <2>6
    <3> QED BY <1>1, <2>1, <3>1, <3>2
  <2> HIDE DEF d
  <2>8. (t - from) \in 0 .. (MaxRq * NsSlot - 1) => d = x
    BY <1>1, <2>4, <2>5, <2>7
  <2>9. d \in Nat /\ d < MaxRq
    BY <1>1, <2>4, <2>5
  <2>10. (t - from) \in 0 .. (MaxRq * NsSlot - 1) =>
           NsSlot * d = NsSlot * x /\ NsSlot * d \in Int
    BY <2>2, <2>8
  <2>11. (t - from) \in 0 .. (MaxRq * NsSlot - 1) =>
           from + NsSlot * d <= t /\ t < from + NsSlot * d + NsSlot
    BY <1>1, <2>2, <2>10
  <2> QED BY <2>9, <2>11 DEF d
<1> QED BY <1>2, <1>3

\* A slot d ahead of ibase
LEMMA SlotAhead ==
  ASSUME TypeInv, NEW d \in Nat, d < MaxRq
  PROVE  (ibase + d) % MaxRq \in Slots /\ Dist((ibase + d) % MaxRq) = d
<1>1. ibase \in Nat /\ ibase < MaxRq /\ MaxRq \in Nat \ {0}
  BY WordIs, Sizes DEF TypeInv
<1>2. PICK x \in -MaxRq .. 2 * MaxRq - 1 : x = ibase + d
  BY <1>1
<1>3. (ibase + d) % MaxRq = IF ibase + d < MaxRq THEN ibase + d ELSE ibase + d - MaxRq
  <2>1. x % MaxRq = IF x < 0 THEN x + MaxRq ELSE IF x < MaxRq THEN x ELSE x - MaxRq
    BY <1>1, WrapIs
  <2> QED BY <1>1, <1>2, <2>1
<1> QED BY <1>1, <1>3 DEF Dist, Slots

\* A list with a task more, and with one less
LEMMA AppendIs ==
  ASSUME NEW s \in Seq(Tasks), NEW k \in Tasks
  PROVE  /\ Append(s, k) \in Seq(Tasks) /\ Append(s, k) # <<>>
         /\ \A n \in DOMAIN Append(s, k) :
              \/ n \in DOMAIN s /\ Append(s, k)[n] = s[n]
              \/ n = Len(s) + 1 /\ Append(s, k)[n] = k
         /\ \A n \in DOMAIN s : n \in DOMAIN Append(s, k) /\ Append(s, k)[n] = s[n]
         /\ Len(s) + 1 \in DOMAIN Append(s, k) /\ Append(s, k)[Len(s) + 1] = k
         /\ Len(s) + 1 \notin DOMAIN s
OBVIOUS

LEMMA TailIs ==
  ASSUME NEW s \in Seq(Tasks), s # <<>>
  PROVE  /\ Tail(s) \in Seq(Tasks) /\ Head(s) = s[1] /\ 1 \in DOMAIN s /\ Head(s) \in Tasks
         /\ \A n \in DOMAIN Tail(s) : n + 1 \in DOMAIN s /\ Tail(s)[n] = s[n + 1]
                                      /\ n + 1 # 1 /\ n \in Int
         /\ \A n \in DOMAIN s : n # 1 => n - 1 \in DOMAIN Tail(s) /\ Tail(s)[n - 1] = s[n]
         /\ Tail(s) = <<>> <=> Len(s) = 1
<1>1. Tail(s) \in Seq(Tasks) /\ Head(s) = s[1] /\ 1 \in DOMAIN s /\ Head(s) \in Tasks
  OBVIOUS
<1>2. Len(s) \in Nat /\ Len(s) >= 1 /\ Len(Tail(s)) = Len(s) - 1
      /\ DOMAIN s = 1 .. Len(s) /\ DOMAIN Tail(s) = 1 .. Len(s) - 1
  OBVIOUS
<1>3. \A n \in 1 .. Len(s) - 1 : Tail(s)[n] = s[n + 1]
  OBVIOUS
<1>4. \A n \in DOMAIN Tail(s) : n + 1 \in DOMAIN s /\ n + 1 # 1 /\ n \in Int
  BY <1>2
<1>5. \A n \in DOMAIN s : n # 1 => n - 1 \in DOMAIN Tail(s) /\ Tail(s)[n - 1] = s[n]
  <2> SUFFICES ASSUME NEW n \in DOMAIN s, n # 1
               PROVE  n - 1 \in DOMAIN Tail(s) /\ Tail(s)[n - 1] = s[n]
    OBVIOUS
  <2>1. PICK m \in 1 .. Len(s) - 1 : m = n - 1 /\ m + 1 = n
    BY <1>2
  <2> QED BY <1>2, <1>3, <2>1
<1>6. Tail(s) = <<>> <=> Len(s) = 1
  <2>1. Len(<<>>) = 0
    OBVIOUS
  <2>2. \A u \in Seq(Tasks) : Len(u) = 0 => u = <<>>
    OBVIOUS
  <2>3. Len(s) = 1 <=> Len(Tail(s)) = 0
    BY <1>2
  <2>4. Tail(s) = <<>> <=> Len(Tail(s)) = 0
    BY <1>1, <2>1, <2>2, Zenon
  <2> QED BY <2>3, <2>4
<1> QED BY <1>1, <1>2, <1>3, <1>4, <1>5, <1>6
LEMMA TrQueueKeeps ==
  ASSUME IInv, NEW k \in Tasks, NEW t \in Nat, k \notin Queued, TrQueue(k, t),
         UNCHANGED caller, todo' \subseteq todo, taken' \in Tasks \cup {Null},
         caller = "tr_test" => k \notin todo' /\ taken' # k /\ taken' \in {taken, Null}
  PROVE  IInv' /\ Queued \subseteq Queued'
<1> DEFINE d == Ahead(BaseFor(k), t)
           idx == (ibase + d) % MaxRq
<1>1. BaseFor(k) \in Nat /\ d \in Nat /\ d < MaxRq
  BY AheadIs DEF IInv, TypeInv, BaseFor
<1>2. idx \in Slots /\ Dist(idx) = d
  BY <1>1, SlotAhead DEF IInv
<1>3. /\ tbase' = BaseFor(k) /\ time' = [time EXCEPT ![k] = t]
      /\ tsks' = [tsks EXCEPT ![idx] = Append(@, k)]
      /\ map' = map \cup {idx} /\ due' = [due EXCEPT ![k] = base + d]
      /\ exact' = (IF (t - BaseFor(k)) \in 0..(MaxRq * NsSlot - 1)
                   THEN exact \cup {k} ELSE exact \ {k})
      /\ moved' = (moved \/ (Queued # {} /\ BaseFor(k) # tbase))
      /\ UNCHANGED <<ibase, base>>
  BY DEF TrQueue
<1> HIDE DEF d, idx
<1>4. /\ tsks \in [Slots -> Seq(Tasks)] /\ tsks' \in [Slots -> Seq(Tasks)]
      /\ tsks'[idx] = Append(tsks[idx], k) /\ \A i \in Slots : i # idx => tsks'[i] = tsks[i]
  <2>1. tsks \in [Slots -> Seq(Tasks)] /\ tsks[idx] \in Seq(Tasks)
    BY <1>2 DEF IInv, TypeInv
  <2>2. Append(tsks[idx], k) \in Seq(Tasks)
    BY <2>1, AppendIs
  <2> QED BY <1>2, <1>3, <2>1, <2>2
<1>5. \A i \in Slots : \A n \in DOMAIN tsks'[i] :
        \/ i = idx /\ n = Len(tsks[idx]) + 1 /\ tsks'[i][n] = k
        \/ n \in DOMAIN tsks[i] /\ tsks'[i][n] = tsks[i][n]
  <2>1. \A n \in DOMAIN tsks'[idx] :
          \/ n = Len(tsks[idx]) + 1 /\ tsks'[idx][n] = k
          \/ n \in DOMAIN tsks[idx] /\ tsks'[idx][n] = tsks[idx][n]
    BY <1>2, <1>4, AppendIs
  <2> QED BY <1>4, <2>1, Zenon
<1>6. \A i \in Slots : \A n \in DOMAIN tsks[i] :
        /\ n \in DOMAIN tsks'[i] /\ tsks'[i][n] = tsks[i][n]
        /\ tsks[i][n] # k /\ tsks[i][n] \in Tasks
  <2>1. \A n \in DOMAIN tsks[idx] : n \in DOMAIN tsks'[idx] /\ tsks'[idx][n] = tsks[idx][n]
    BY <1>2, <1>4, AppendIs
  <2>2. \A i \in Slots : \A n \in DOMAIN tsks[i] : tsks[i][n] # k
    BY QueuedIs DEF In
  <2>3. \A i \in Slots : \A n \in DOMAIN tsks[i] : tsks[i][n] \in Tasks
    BY <1>4
  <2> QED BY <1>4, <2>1, <2>2, <2>3, Zenon
<1>7. \A x : x \in Queued' <=> x \in Queued \/ x = k
  <2>1. \A x \in Queued : x \in Queued'
    BY <1>6, QueuedIs DEF In
  <2>2. k \in Queued'
    BY <1>2, <1>4, AppendIs, QueuedIs DEF In
  <2>3. \A x \in Queued' : x \in Queued \/ x = k
    BY <1>5, QueuedIs DEF In
  <2> QED BY <2>1, <2>2, <2>3
<1>8. /\ \A i : Dist(i)' = Dist(i)
      /\ \A x \in Tasks : x # k => due'[x] = due[x] /\ time'[x] = time[x]
      /\ due'[k] = base + d /\ time'[k] = t
  BY <1>3 DEF Dist, IInv, TypeInv
<1>9. TypeInv'
  <2>1. base + d \in Nat
    BY <1>1 DEF IInv, TypeInv
  <2>2. due' \in [Tasks -> Nat] /\ time' \in [Tasks -> Nat]
    BY <1>3, <2>1 DEF IInv, TypeInv
  <2>3. exact' \subseteq Tasks /\ todo' \subseteq Tasks
    BY <1>3 DEF IInv, TypeInv
  <2>4. moved' \in BOOLEAN
    BY <1>3
  <2> QED BY <1>1, <1>3, <1>4, <2>2, <2>3, <2>4, Zenon DEF IInv, TypeInv
<1>10. SlotInv'
  <2> SUFFICES ASSUME NEW i \in Slots, NEW n \in DOMAIN tsks'[i]
               PROVE  due'[tsks'[i][n]] = base' + Dist(i)'
    BY DEF SlotInv
  <2>1. CASE i = idx /\ tsks'[i][n] = k
    BY <1>2, <1>3, <1>8, <2>1
  <2>2. CASE n \in DOMAIN tsks[i] /\ tsks'[i][n] = tsks[i][n]
    <3>1. due'[tsks[i][n]] = due[tsks[i][n]]
      BY <1>6, <1>8, <2>2
    <3> QED BY <1>3, <1>8, <2>2, <3>1 DEF IInv, SlotInv
  <2> QED BY <1>5, <2>1, <2>2
<1>11. OnceInv'
  <2> SUFFICES ASSUME NEW i \in Slots, NEW n \in DOMAIN tsks'[i], NEW m \in DOMAIN tsks'[i],
                      tsks'[i][n] = tsks'[i][m]
               PROVE  n = m
    BY DEF OnceInv
  <2>1. \/ i = idx /\ n = Len(tsks[idx]) + 1 /\ tsks'[i][n] = k
        \/ n \in DOMAIN tsks[i] /\ tsks'[i][n] = tsks[i][n] /\ tsks[i][n] # k
    BY <1>5, <1>6, Zenon
  <2>2. \/ i = idx /\ m = Len(tsks[idx]) + 1 /\ tsks'[i][m] = k
        \/ m \in DOMAIN tsks[i] /\ tsks'[i][m] = tsks[i][m] /\ tsks[i][m] # k
    BY <1>5, <1>6, Zenon
  <2> QED BY <2>1, <2>2, Zenon DEF IInv, OnceInv
<1>12. BaseInv'
  BY <1>3 DEF IInv, BaseInv
<1>13. MapInv'
  <2>1. tsks'[idx] # <<>>
    BY <1>2, <1>4, AppendIs
  <2> QED BY <1>2, <1>3, <1>4, <2>1, SMTT(30) DEF IInv, MapInv
<1>14. CallerInv'
  <2>1. Null \notin Queued /\ Null # k /\ Null \notin todo
    BY <1>6, QueuedIs, RingAssumption DEF In, IInv, TypeInv
  <2> QED BY <1>7, <2>1 DEF IInv, CallerInv
<1>15. StepInv'
  <2> SUFFICES ASSUME ~moved', NEW x \in Queued', x \in exact'
               PROVE  /\ tbase' + NsSlot * (due'[x] - base') <= time'[x]
                      /\ time'[x] < tbase' + NsSlot * (due'[x] - base') + NsSlot
    BY DEF StepInv
  <2>1. CASE x = k
    <3>1. (t - BaseFor(k)) \in 0..(MaxRq * NsSlot - 1)
      BY <1>3, <2>1
    <3>2. BaseFor(k) + NsSlot * d <= t /\ t < BaseFor(k) + NsSlot * d + NsSlot
      BY <1>1, <3>1, AheadIs DEF d
    <3>3. (base + d) - base = d
      BY <1>1 DEF IInv, TypeInv
    <3> QED BY <1>3, <1>8, <2>1, <3>2, <3>3, Zenon
  <2>2. CASE x # k
    <3>1. x \in Queued /\ x \in exact /\ x \in Tasks
      BY <1>3, <1>7, <2>2 DEF IInv, TypeInv
    <3>2. ~moved /\ tbase' = tbase
      BY <1>3, <3>1
    <3>3. /\ tbase + NsSlot * (due[x] - base) <= time[x]
          /\ time[x] < tbase + NsSlot * (due[x] - base) + NsSlot
      BY <3>1, <3>2 DEF IInv, StepInv
    <3> QED BY <1>3, <1>8, <2>2, <3>1, <3>2, <3>3, Zenon
  <2> QED BY <2>1, <2>2
<1> QED BY <1>7, <1>9, <1>10, <1>11, <1>12, <1>13, <1>14, <1>15 DEF IInv
-----------------------------------------------------------------------------
(* tr_dequeue *)

\* It finds no slot.
LEMMA NoneKeeps ==
  ASSUME IInv, TrDequeue, RelFfs = Null, UNCHANGED <<caller, todo>>
  PROVE  IInv' /\ Queued' = Queued
<1>1. /\ tbase' = 0 /\ taken' = Null /\ moved' = (moved \/ (Queued # {} /\ tbase # 0))
      /\ UNCHANGED <<ibase, tsks, map, time, base, due, exact>>
  BY DEF TrDequeue
<1>2. Queued' = Queued /\ \A i : Dist(i)' = Dist(i)
  BY <1>1 DEF Queued, Dist
<1>3. TypeInv'
  <2>1. moved' \in BOOLEAN
    BY <1>1
  <2> QED BY <1>1, <2>1 DEF IInv, TypeInv
<1>4. SlotInv' /\ OnceInv' /\ BaseInv' /\ MapInv'
  BY <1>1, <1>2 DEF IInv, SlotInv, OnceInv, BaseInv, MapInv
<1>5. CallerInv'
  <2>1. Null \notin Queued /\ Null \notin todo
    BY QueuedIs, RingAssumption DEF In, IInv, TypeInv
  <2> QED BY <1>1, <1>2, <2>1 DEF IInv, CallerInv
<1>6. StepInv'
  <2>1. ~moved' => ~moved /\ (Queued = {} \/ tbase' = tbase)
    BY <1>1
  <2> QED BY <1>1, <1>2, <2>1 DEF IInv, StepInv
<1> QED BY <1>2, <1>3, <1>4, <1>5, <1>6 DEF IInv

\* It finds one: the task at its head leaves, and it alone, and no other is due earlier.
LEMMA TakeKeeps ==
  ASSUME IInv, TrDequeue, RelFfs # Null, UNCHANGED <<caller, todo>>
  PROVE  /\ IInv'
         /\ RelFfs \in Slots /\ tsks[RelFfs] # <<>>
         /\ \A k \in Queued : k \notin Queued' => k = Head(tsks[RelFfs])
         /\ \A k \in Queued : due[Head(tsks[RelFfs])] <= due[k]
         /\ due[Head(tsks[RelFfs])] = base' /\ UNCHANGED <<due, time, exact, moved>>
         /\ ibase' = RelFfs /\ tbase' = tbase + NsSlot * (base' - base)
<1> DEFINE idx == RelFfs
           d == Dist(idx)
           k == Head(tsks[idx])
<1>1. /\ idx \in Slots /\ tsks[idx] # <<>>
      /\ \A i \in Slots : tsks[i] # <<>> => Dist(idx) <= Dist(i)
  BY RelFfsIs DEF IInv, MapInv
<1>2. Turn(idx) = d /\ d \in Nat /\ d < MaxRq
  BY <1>1, DistIs DEF IInv
<1>3. /\ taken' = k /\ tsks' = [tsks EXCEPT ![idx] = Tail(@)]
      /\ map' = (IF Len(tsks[idx]) = 1 THEN map \ {idx} ELSE map)
      /\ ibase' = idx /\ tbase' = tbase + NsSlot * d /\ base' = base + d
      /\ UNCHANGED <<time, due, exact, moved>>
  BY <1>2 DEF TrDequeue, ClearBit
<1> HIDE DEF idx, d
<1>4. /\ tsks \in [Slots -> Seq(Tasks)] /\ tsks' \in [Slots -> Seq(Tasks)]
      /\ tsks[idx] \in Seq(Tasks)
      /\ tsks'[idx] = Tail(tsks[idx]) /\ \A i \in Slots : i # idx => tsks'[i] = tsks[i]
  <2>1. tsks \in [Slots -> Seq(Tasks)] /\ tsks[idx] \in Seq(Tasks)
    BY <1>1 DEF IInv, TypeInv
  <2>2. Tail(tsks[idx]) \in Seq(Tasks)
    BY <1>1, <2>1, TailIs
  <2> QED BY <1>1, <1>3, <2>1, <2>2
<1>5. /\ k = tsks[idx][1] /\ k \in Tasks /\ 1 \in DOMAIN tsks[idx]
      /\ \A n \in DOMAIN tsks'[idx] : /\ n + 1 \in DOMAIN tsks[idx] /\ n \in Int
                                      /\ tsks'[idx][n] = tsks[idx][n + 1]
                                      /\ n + 1 # 1
      /\ \A n \in DOMAIN tsks[idx] :
           n # 1 => n - 1 \in DOMAIN tsks'[idx] /\ tsks'[idx][n - 1] = tsks[idx][n]
      /\ tsks'[idx] = <<>> <=> Len(tsks[idx]) = 1
  BY <1>1, <1>4, TailIs
<1> HIDE DEF k
<1>6. \A i \in Slots : \A n \in DOMAIN tsks[i] : tsks[i][n] \in Tasks
  BY <1>4
<1>7. \A x \in Queued : x \in Tasks /\ \E i \in Slots : tsks[i] # <<>> /\ due[x] = base + Dist(i)
  <2> SUFFICES ASSUME NEW i \in Slots, NEW n \in DOMAIN tsks[i]
               PROVE  tsks[i] # <<>> /\ due[tsks[i][n]] = base + Dist(i)
    BY <1>6, QueuedIs DEF In
  <2>1. tsks[i] # <<>>
    BY <1>4
  <2> QED BY <2>1 DEF IInv, SlotInv
<1>8. due[k] = base + d
  BY <1>1, <1>5 DEF IInv, SlotInv, d
<1>9. \A x \in Queued : due[k] <= due[x]
  <2> SUFFICES ASSUME NEW x \in Queued
               PROVE  due[k] <= due[x]
    OBVIOUS
  <2>1. PICK i \in Slots : tsks[i] # <<>> /\ due[x] = base + Dist(i)
    BY <1>7
  <2>2. d <= Dist(i) /\ Dist(i) \in Nat /\ base \in Nat
    BY <1>1, <2>1, DistIs DEF IInv, TypeInv, d
  <2> QED BY <1>2, <1>8, <2>1, <2>2
<1>10. \A i \in Slots : \A n \in DOMAIN tsks'[i] :
         \E m \in DOMAIN tsks[i] : tsks'[i][n] = tsks[i][m] /\ (i = idx => m # 1)
  <2> SUFFICES ASSUME NEW i \in Slots, NEW n \in DOMAIN tsks'[i]
               PROVE  \E m \in DOMAIN tsks[i] : tsks'[i][n] = tsks[i][m] /\ (i = idx => m # 1)
    OBVIOUS
  <2>1. CASE i = idx
    <3>1. n + 1 \in DOMAIN tsks[i] /\ tsks'[i][n] = tsks[i][n + 1] /\ n + 1 # 1
      BY <1>5, <2>1
    <3> QED BY <3>1, Zenon
  <2>2. CASE i # idx
    BY <1>4, <2>2, Zenon
  <2> QED BY <2>1, <2>2
<1>11. \A x \in Queued : x \notin Queued' => x = k
  <2> SUFFICES ASSUME NEW i \in Slots, NEW n \in DOMAIN tsks[i], tsks[i][n] # k
               PROVE  \E m \in DOMAIN tsks'[i] : tsks'[i][m] = tsks[i][n]
    BY QueuedIs DEF In
  <2>1. CASE i = idx
    BY <1>5, <2>1
  <2>2. CASE i # idx
    BY <1>4, <2>2
  <2> QED BY <2>1, <2>2
<1>12. \A x \in Queued' : x \in Queued
  BY <1>10, QueuedIs DEF In
<1>13. k \notin Queued'
  <2> SUFFICES ASSUME NEW i \in Slots, NEW n \in DOMAIN tsks'[i], tsks'[i][n] = k
               PROVE  FALSE
    BY QueuedIs DEF In
  <2>1. PICK m \in DOMAIN tsks[i] : tsks'[i][n] = tsks[i][m] /\ (i = idx => m # 1)
    BY <1>10
  <2>2. CASE i = idx
    BY <1>5, <2>1, <2>2 DEF IInv, OnceInv
  <2>3. CASE i # idx
    <3>1. due[k] = base + Dist(i)
      BY <2>1 DEF IInv, SlotInv
    <3>2. Dist(i) \in Nat /\ Dist(idx) \in Nat /\ base \in Nat
      BY <1>1, DistIs DEF IInv, TypeInv
    <3>3. Dist(i) = Dist(idx)
      BY <1>8, <3>1, <3>2 DEF d
    <3> QED BY <1>1, <2>3, <3>3, DistIs DEF IInv
  <2> QED BY <2>2, <2>3
<1>14. TypeInv'
  <2>1. NsSlot * d \in Nat
    BY <1>2, Sizes
  <2>2. base + d \in Nat /\ tbase + NsSlot * d \in Nat
    BY <1>2, <2>1 DEF IInv, TypeInv
  <2> QED BY <1>1, <1>3, <1>4, <1>5, <2>2 DEF IInv, TypeInv
<1>15. \A i \in Slots : tsks[i] # <<>> => Dist(i)' = Dist(i) - d
  <2> SUFFICES ASSUME NEW i \in Slots, tsks[i] # <<>>
               PROVE  Dist(i)' = Dist(i) - d
    OBVIOUS
  <2>1. d <= Dist(i)
    BY <1>1 DEF d
  <2>2. /\ i \in Nat /\ i < MaxRq /\ idx \in Nat /\ idx < MaxRq /\ ibase \in Nat /\ ibase < MaxRq
        /\ MaxRq \in Nat
    BY <1>1, WordIs, Sizes DEF IInv, TypeInv
  <2> QED BY <1>3, <2>1, <2>2 DEF Dist, d
<1>16. SlotInv'
  <2> SUFFICES ASSUME NEW i \in Slots, NEW n \in DOMAIN tsks'[i]
               PROVE  due'[tsks'[i][n]] = base' + Dist(i)'
    BY DEF SlotInv
  <2>1. PICK m \in DOMAIN tsks[i] : tsks'[i][n] = tsks[i][m]
    BY <1>10
  <2>2. tsks[i] # <<>> /\ due[tsks[i][m]] = base + Dist(i)
    BY <1>4 DEF IInv, SlotInv
  <2>3. Dist(i) \in Nat /\ base \in Nat
    BY DistIs DEF IInv, TypeInv
  <2>4. Dist(i)' = Dist(i) - d
    BY <1>15, <2>2
  <2>5. (base + d) + (Dist(i) - d) = base + Dist(i)
    BY <1>2, <2>3
  <2> QED BY <1>3, <2>1, <2>2, <2>4, <2>5, Zenon
<1>17. OnceInv'
  <2> SUFFICES ASSUME NEW i \in Slots, NEW n \in DOMAIN tsks'[i], NEW m \in DOMAIN tsks'[i],
                      tsks'[i][n] = tsks'[i][m]
               PROVE  n = m
    BY DEF OnceInv
  <2>1. CASE i = idx
    <3>1. n + 1 = m + 1 /\ n \in Int /\ m \in Int
      BY <1>1, <1>5, <2>1 DEF IInv, OnceInv
    <3> QED BY <3>1
  <2>2. CASE i # idx
    BY <1>4, <2>2 DEF IInv, OnceInv
  <2> QED BY <2>1, <2>2
<1>18. BaseInv'
  <2>1. PICK q \in Nat : base = MaxRq * q + ibase
    BY DEF IInv, BaseInv
  <2>2. /\ idx \in Nat /\ ibase \in Nat /\ MaxRq \in Nat \ {0} /\ q \in Int /\ q + 1 \in Nat
        /\ MaxRq * q \in Int
    BY <1>1, WordIs, Sizes DEF IInv, TypeInv
  <2>3. MaxRq * (q + 1) = MaxRq * q + MaxRq
    BY <2>2
  <2>4. d \in {idx - ibase, idx - ibase + MaxRq}
    BY <1>1, DistIs DEF d, IInv
  <2>5. base + d = MaxRq * q + idx \/ base + d = MaxRq * (q + 1) + idx
    BY <2>1, <2>2, <2>3, <2>4
  <2>6. base' = MaxRq * q + ibase' \/ base' = MaxRq * (q + 1) + ibase'
    BY <1>3, <2>5
  <2> QED BY <2>2, <2>6 DEF BaseInv
<1>19. MapInv'
  <2>1. \A i \in Slots : i # idx => (tsks'[i] # <<>> <=> tsks[i] # <<>>)
    BY <1>4
  <2>2. map = {i \in Slots : tsks[i] # <<>>}
    BY DEF IInv, MapInv
  <2>3. map' = {i \in Slots : tsks'[i] # <<>>}
    BY <1>1, <1>3, <1>5, <2>1, <2>2
  <2> QED BY <2>3 DEF MapInv
<1>20. CallerInv'
  <2>1. k \in Queued
    BY <1>1, <1>5, QueuedIs DEF In
  <2> QED BY <1>3, <1>12, <1>13, <2>1 DEF IInv, CallerInv
<1>21. StepInv'
  <2> SUFFICES ASSUME ~moved', NEW x \in Queued', x \in exact'
               PROVE  /\ tbase' + NsSlot * (due'[x] - base') <= time'[x]
                      /\ time'[x] < tbase' + NsSlot * (due'[x] - base') + NsSlot
    BY DEF StepInv
  <2>1. x \in Queued /\ x \in exact /\ ~moved /\ x \in Tasks
    BY <1>3, <1>7, <1>12
  <2>2. /\ tbase + NsSlot * (due[x] - base) <= time[x]
        /\ time[x] < tbase + NsSlot * (due[x] - base) + NsSlot
    BY <2>1 DEF IInv, StepInv
  <2>3. due[x] \in Nat /\ base \in Nat /\ tbase \in Nat /\ NsSlot \in Nat \ {0}
    BY <2>1, Sizes DEF IInv, TypeInv
  <2>4. (tbase + NsSlot * d) + NsSlot * (due[x] - (base + d)) = tbase + NsSlot * (due[x] - base)
    <3>1. PICK a \in Int : a = due[x] - base
      BY <2>3
    <3>2. due[x] - (base + d) = a - d
      BY <1>2, <2>3, <3>1
    <3>3. NsSlot * (a - d) = NsSlot * a - NsSlot * d /\ NsSlot * a \in Int /\ NsSlot * d \in Int
      BY <1>2, <2>3
    <3> QED BY <2>3, <3>1, <3>2, <3>3
  <2> QED BY <1>3, <2>2, <2>4, Zenon
<1>22. IInv'
  BY <1>14, <1>16, <1>17, <1>18, <1>19, <1>20, <1>21 DEF IInv
<1>23. tbase' = tbase + NsSlot * (base' - base)
  <2>1. (base + d) - base = d
    BY <1>2 DEF IInv, TypeInv
  <2> QED BY <1>3, <2>1, Zenon
<1> QED BY <1>1, <1>3, <1>8, <1>9, <1>11, <1>22, <1>23 DEF idx, k
-----------------------------------------------------------------------------

LEMMA InitEstablishes == Init => IInv
<1> SUFFICES ASSUME Init PROVE IInv
  OBVIOUS
<1>1. /\ \A i \in Slots : tsks[i] = <<>> /\ DOMAIN tsks[i] = {}
      /\ 0 \in Slots /\ ibase = 0 /\ base = 0 /\ map = {}
  BY Sizes DEF Init, Slots
<1>2. Queued = {}
  BY <1>1, QueuedIs DEF In
<1>3. TypeInv
  <2>1. tsks \in [Slots -> Seq(Tasks)]
    BY DEF Init
  <2>2. moved \in BOOLEAN
    BY DEF Init
  <2> QED BY <1>1, <2>1, <2>2 DEF Init, TypeInv
<1>4. SlotInv /\ OnceInv /\ MapInv
  BY <1>1 DEF SlotInv, OnceInv, MapInv
<1>5. BaseInv
  <2>1. 0 = MaxRq * 0 + 0 /\ 0 \in Nat
    BY Sizes
  <2> QED BY <1>1, <2>1, Zenon DEF BaseInv
<1>6. todo = Tasks /\ taken = Null /\ Null \notin Tasks
  BY RingAssumption DEF Init
<1> QED BY <1>2, <1>3, <1>4, <1>5, <1>6 DEF IInv, CallerInv, StepInv

\* A step takes a task from the ring as tr_dequeue does, or it takes none.
Takes == TrDequeue /\ RelFfs # Null /\ UNCHANGED <<caller, todo>>

LEMMA StepKeeps ==
  ASSUME IInv, [Next]_vars
  PROVE  IInv' /\ (Takes \/ Queued \subseteq Queued')
<1>1. CASE UNCHANGED vars
  <2>1. UNCHANGED <<caller, ibase, tbase, tsks, map, time, todo, base, due, taken, exact, moved>>
    BY <1>1 DEF vars
  <2>2. Queued' = Queued /\ \A i : Dist(i)' = Dist(i)
    BY <2>1 DEF Queued, Dist
  <2>3. TypeInv'
    BY <2>1 DEF IInv, TypeInv
  <2>4. SlotInv' /\ OnceInv' /\ BaseInv' /\ MapInv' /\ CallerInv'
    BY <2>1, <2>2 DEF IInv, SlotInv, OnceInv, BaseInv, MapInv, CallerInv
  <2>5. StepInv'
    BY <2>1, <2>2 DEF IInv, StepInv
  <2> QED BY <2>2, <2>3, <2>4, <2>5 DEF IInv
<1>2. ASSUME UNCHANGED caller, NEW k \in Tasks, Fill(k), caller = "tr_test"
      PROVE  IInv' /\ Queued \subseteq Queued'
  <2>1. PICK r \in Slots : TrQueue(k, r * NsSlot)
    BY <1>2 DEF Fill
  <2>2. r * NsSlot \in Nat
    BY WordIs, Sizes
  <2>3. k \notin Queued /\ todo' = todo \ {k} /\ taken' = taken
    BY <1>2 DEF Fill, IInv, CallerInv
  <2>4. taken \in Tasks \cup {Null}
    BY DEF IInv, TypeInv
  <2>5. taken # k
    BY <1>2 DEF Fill, IInv, CallerInv
  <2> QED BY <1>2, <2>1, <2>2, <2>3, <2>4, <2>5, TrQueueKeeps
<1>3. ASSUME UNCHANGED caller, Requeue, caller = "tr_test"
      PROVE  IInv' /\ Queued \subseteq Queued'
  <2>1. /\ taken \in Tasks /\ TrQueue(taken, Again(taken)) /\ taken' = Null /\ todo' = todo
        /\ todo = {} /\ taken \notin Queued /\ taken # Null
    BY <1>3 DEF Requeue, IInv, TypeInv, CallerInv
  <2>2. Again(taken) \in Nat
    <3>1. MaxRq \div 7 \in Nat /\ NsSlot \in Nat
      BY Sizes
    <3>2. (MaxRq \div 7) * NsSlot \in Nat
      BY <3>1
    <3> QED BY <2>1, <3>2 DEF Again, IInv, TypeInv
  <2>3. PICK k \in Tasks, t \in Nat : k = taken /\ t = Again(taken)
    BY <2>1, <2>2
  <2>4. TrQueue(k, t)
    BY <2>1, <2>3
  <2> QED BY <1>3, <2>1, <2>3, <2>4, TrQueueKeeps
<1>4. ASSUME UNCHANGED caller, NEW k \in Tasks, NEW t \in CallTimes, Put(k, t), caller = "any"
      PROVE  IInv' /\ Queued \subseteq Queued'
  <2>1. t \in Nat /\ k \notin Queued /\ TrQueue(k, t) /\ UNCHANGED <<todo, taken>>
    BY <1>4, RingAssumption DEF Put
  <2>2. taken' \in Tasks \cup {Null} /\ caller # "tr_test"
    BY <1>4, <2>1 DEF IInv, TypeInv
  <2> QED BY <1>4, <2>1, <2>2, TrQueueKeeps
<1>5. ASSUME UNCHANGED <<caller, todo>>, TrDequeue
      PROVE  IInv' /\ (Takes \/ Queued \subseteq Queued')
  BY <1>5, NoneKeeps, TakeKeeps DEF Takes
<1>6. CASE Next
  BY <1>2, <1>3, <1>4, <1>5, <1>6 DEF Next, TrTest, AnyUse, Take, Get
<1> QED BY <1>1, <1>6

\* The invariant holds for any number of tasks and all sizes, under tr_test and under
\* any other caller.
THEOREM Invariance == Spec => []IInv
<1>1. IInv /\ [Next]_vars => IInv'
  BY StepKeeps
<1> QED BY InitEstablishes, <1>1, PTL DEF Spec

\* rel_ffs of smart-queue.c misses exactly the tasks in the base word, below ibase,
\* and never leads tr_dequeue to an empty list.
THEOREM MissesOnlyBehind == Spec => []NullOnlyBehindBase
<1>1. IInv => NullOnlyBehindBase
  <2> SUFFICES ASSUME IInv PROVE NullOnlyBehindBase
    OBVIOUS
  <2>1. map = {i \in Slots : tsks[i] # <<>>} /\ TypeInv
    BY DEF IInv, MapInv
  <2>2. /\ RelFfs = Null <=> \A j \in map : Behind(j)
        /\ RelFfs # Null => RelFfs \in map
    BY <2>1, RelFfsIs
  <2> QED BY <2>1, <2>2 DEF NullOnlyBehindBase, Behind, Word
<1> QED BY Invariance, <1>1, PTL

\* tr_dequeue returns a task of the earliest slot, the first queued of that slot.
THEOREM TakesEarliest == Spec => EarliestFirst
<1> DEFINE Takes1 == \A k \in Queued : k \notin Queued' =>
                       /\ \A q \in Queued : due[k] <= due[q]
                       /\ Head(tsks[due[k] % MaxRq]) = k
<1>1. IInv /\ [Next]_vars => [Takes1]_vars
  <2> SUFFICES ASSUME IInv, [Next]_vars, NEW k \in Queued, k \notin Queued'
               PROVE  /\ \A q \in Queued : due[k] <= due[q]
                      /\ Head(tsks[due[k] % MaxRq]) = k
    OBVIOUS
  <2>1. Takes /\ IInv'
    BY StepKeeps
  <2>2. /\ k = Head(tsks[RelFfs]) /\ due[k] = base' /\ ibase' = RelFfs /\ RelFfs \in Slots
        /\ \A q \in Queued : due[k] <= due[q]
    BY <2>1, TakeKeeps DEF Takes
  <2>3. PICK q \in Nat : base' = MaxRq * q + ibase'
    BY <2>1 DEF IInv, BaseInv
  <2>4. RelFfs \in 0 .. MaxRq - 1 /\ MaxRq \in Nat \ {0}
    BY <2>2, Sizes DEF Slots
  <2>5. (MaxRq * q + RelFfs) % MaxRq = RelFfs
    BY <2>4, ModIs
  <2>6. due[k] % MaxRq = RelFfs
    BY <2>2, <2>3, <2>5
  <2> QED BY <2>2, <2>6
<1> QED BY Invariance, <1>1, PTL DEF Spec, EarliestFirst

\* While tbase has only moved with the ring, tr_dequeue takes a task in its slot.
THEOREM TakesInSlot == Spec => TakenInItsSlot
<1> DEFINE Takes1 == \A k \in Queued \cap exact : k \notin Queued' /\ ~moved =>
                       time[k] \in tbase'..(tbase' + NsSlot - 1)
<1>1. IInv /\ [Next]_vars => [Takes1]_vars
  <2> SUFFICES ASSUME IInv, [Next]_vars, NEW k \in Queued \cap exact, k \notin Queued', ~moved
               PROVE  time[k] \in tbase'..(tbase' + NsSlot - 1)
    OBVIOUS
  <2>1. Takes /\ IInv'
    BY StepKeeps
  <2>2. due[k] = base' /\ tbase' = tbase + NsSlot * (base' - base)
    BY <2>1, TakeKeeps DEF Takes
  <2>3. /\ tbase + NsSlot * (due[k] - base) <= time[k]
        /\ time[k] < tbase + NsSlot * (due[k] - base) + NsSlot
    BY DEF IInv, StepInv
  <2>4. tbase' <= time[k] /\ time[k] < tbase' + NsSlot
    BY <2>2, <2>3, Zenon
  <2>5. time[k] \in Nat /\ tbase' \in Nat /\ NsSlot \in Nat
    BY <2>1, Sizes DEF IInv, TypeInv
  <2> QED BY <2>4, <2>5
<1> QED BY Invariance, <1>1, PTL DEF Spec, TakenInItsSlot
=============================================================================
