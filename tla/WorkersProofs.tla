---------------------------- MODULE WorkersProofs ----------------------------
(***************************************************************************)
(* Proofs about the programs of MCWorkers.  Each program has an inductive  *)
(* invariant of its own, which its own steps keep and the steps of the     *)
(* others never meet.                                                      *)
(***************************************************************************)
EXTENDS MCWorkers, TLAPS

-----------------------------------------------------------------------------
(* The inductive invariants *)

\* thrhttp: the connection that main holds is the one in cfd, the counter is
\* behind by that one only, and after a late accept() main does not accept again.
ServerInv ==
  /\ pc \in {"test", "accept", "count", "create", "print", "exited"}
  /\ conn \in [Conns -> {"none", "backlog", "main", "thread"}]
  /\ stopsvr \in BOOLEAN
  /\ conns \in Nat /\ aborted \in Nat /\ closed \in Nat /\ late \in {0, 1}
  /\ pc \in {"count", "create"} => cfd \in Conns /\ conn[cfd] = "main"
  /\ pc \notin {"count", "create"} => cfd = Server!NoConn
  /\ \A c \in Conns : conn[c] = "main" => cfd = c
  /\ conns = Cardinality(Server!Held("thread")) + closed + aborted
               + (IF pc = "create" THEN 1 ELSE 0)
  /\ late = 1 => stopsvr /\ pc # "accept"

\* pth-stk-test: the slots whose threads have ended
Idle == {i \in Stack!Slots : thread[i] \in {"listed", "ended"}}

StackType ==
  /\ pc \in {"create", "lock", "test", "asleep", "drain", "join", "done", "failed"}
  /\ next \in 1 .. NT + 1
  /\ thread \in [Stack!Slots -> {"none", "runs", "listed", "ended"}]
  /\ tlst \in Seq(Stack!Slots)
  /\ running \in Nat /\ completed \in Nat
  /\ signaled \in BOOLEAN /\ waited \in BOOLEAN

\* The list l holds elements of I, none twice.
Once(l, I) ==
  /\ \A k \in 1 .. Len(l) : l[k] \in I
  /\ \A j, k \in 1 .. Len(l) : l[j] = l[k] => j = k

\* tlst holds the slots of ended threads, each once, but the one main joins.
ListInv ==
  /\ Once(tlst, Idle)
  /\ pc = "join" => th \in Idle /\ \A k \in 1 .. Len(tlst) : tlst[k] # th
  /\ pc # "failed" => Len(tlst) + (IF pc = "join" THEN 1 ELSE 0) = Cardinality(Idle)

\* A stack is mapped for each thread started and not joined, and as long as
\* there are threads to start, all slots are in use.
RunInv ==
  /\ mapped = {i \in Stack!Slots : thread[i] # "none"}
  /\ running = Cardinality(mapped)
  /\ completed + running <= NTTotal
  /\ ~waited => completed = 0 /\ mapped = 1 .. next - 1
  /\ pc = "create" => ~waited /\ next <= NT
  /\ pc \notin {"create", "failed"} =>
       next = NT + 1 /\ (running = NT \/ completed + running = NTTotal)
  /\ pc = "done" => running = 0

\* main waits again only with an empty tlst, and is signalled for what comes then.
WakeInv ==
  /\ pc = "lock" => ~waited
  /\ pc \in {"drain", "join"} => waited
  /\ pc = "test" /\ waited => tlst = <<>>
  /\ pc = "asleep" => running > 0 /\ (waited /\ tlst # <<>> => signaled)

StackInv == StackType /\ ListInv /\ RunInv /\ WakeInv

\* sload: c comes before d in the order of the forks and of the reports.
Before(c, d) == c[1] < d[1] \/ (c[1] = d[1] /\ c[2] < d[2])

LoadType ==
  /\ pc \in {"pipe", "waitpid", "read", "exit 0", "exit 1"}
  /\ at \in Load!Kids
  /\ pids \in [Load!Kids -> {"pid", Load!Failed, Load!Unset}]
  /\ kid \in [Load!Kids -> {"none", "runs", "wrote", "zombie", "reaped"}]
  /\ pipe = [c \in Load!Kids |-> pipe[c]]
  /\ time = [c \in Load!Kids |-> time[c]]
  /\ killed \subseteq Load!Kids

\* A child's pipe holds its report from its write to main's read, and never holds
\* one if the child was killed before its write or could not be forked.
PipeOk(c) ==
  /\ kid[c] \in {"none", "runs"} => pipe[c] = <<>>
  /\ kid[c] = "wrote" => pipe[c] = <<time[c]>>
  /\ kid[c] = "zombie" /\ c \notin killed => pipe[c] = <<time[c]>>
  /\ c \in killed => kid[c] \in {"zombie", "reaped"} /\ pipe[c] = <<>>
  /\ pids[c] = Load!Failed => kid[c] = "none"

PipeInv == \A c \in Load!Kids : PipeOk(c)

Gathered(c) == kid[c] = "reaped" /\ c \notin killed

\* How far main is: the children from at on are not yet forked, those before at
\* have been reaped and their reports read.
MainInv ==
  /\ pc = "pipe" => \A c \in Load!Kids : Before(c, at) \/ kid[c] = "none"
  /\ pc \in {"waitpid", "read"} => \A c \in Load!Kids : Before(c, at) => Gathered(c)
  /\ pc = "read" => at \in Load!Lost \/ (Gathered(at) /\ pipe[at] = <<time[at]>>)
  /\ pc = "exit 0" => \A c \in Load!Kids : Gathered(c)

LoadInv == LoadType /\ PipeInv /\ MainInv

EInv ==
  /\ program \in Server!Programs \cup Stack!Programs \cup Load!Programs
  /\ program \in Server!Programs => ServerInv
  /\ program \in Stack!Programs => StackInv
  /\ program \in Load!Programs => LoadInv

-----------------------------------------------------------------------------
(* sload: the order of the children *)

LEMMA KidIs ==
  ASSUME NEW c
  PROVE  c \in Load!Kids <=>
           \E i \in 1 .. Len(Tasks) : \E k \in 1 .. Tasks[i].count : c = <<i, k>>
BY WorkersAssumption DEF Load!Kids

\* The two numbers of a child
LEMMA KidNumbers ==
  ASSUME NEW c \in Load!Kids
  PROVE  /\ c[1] \in 1 .. Len(Tasks) /\ c[2] \in 1 .. Tasks[c[1]].count
         /\ c = <<c[1], c[2]>>
         /\ Tasks[c[1]].count \in Nat /\ c[1] \in Nat /\ c[2] \in Nat /\ Len(Tasks) \in Nat
<1>1. PICK i \in 1 .. Len(Tasks) : \E k \in 1 .. Tasks[i].count : c = <<i, k>>
  BY KidIs
<1>2. PICK k \in 1 .. Tasks[i].count : c = <<i, k>>
  BY <1>1
<1>3. c[1] = i /\ c[2] = k
  BY <1>2
<1>4. Len(Tasks) \in Nat /\ Tasks[i].count \in Nat
  BY WorkersAssumption
<1> QED BY <1>2, <1>3, <1>4

LEMMA FirstKid ==
  /\ <<1, 1>> \in Load!Kids
  /\ \A c \in Load!Kids : ~Before(c, <<1, 1>>)
<1>1. Len(Tasks) \in Nat \ {0} /\ 1 \in 1 .. Len(Tasks)
  BY WorkersAssumption
<1>2. Tasks[1].count \in Nat \ {0}
  BY <1>1, WorkersAssumption
<1>3. 1 \in 1 .. Tasks[1].count
  BY <1>2
<1>4. <<1, 1>> \in Load!Kids
  BY <1>1, <1>3, KidIs
<1>5. \A c \in Load!Kids : c[1] \in Nat /\ c[1] >= 1 /\ c[2] \in Nat /\ c[2] >= 1
  BY KidNumbers
<1> QED BY <1>4, <1>5 DEF Before

\* main's loops go through the children in order, up to the last one.
LEMMA LastKid ==
  ASSUME NEW c \in Load!Kids
  PROVE  Before(c, Load!Last) \/ c = Load!Last
<1>1. /\ c[1] \in 1 .. Len(Tasks) /\ c[2] \in 1 .. Tasks[c[1]].count /\ c = <<c[1], c[2]>>
      /\ Len(Tasks) \in Nat
  BY KidNumbers
<1> DEFINE n == Len(Tasks)
           m == Tasks[Len(Tasks)].count
<1>2. m \in Nat
  BY WorkersAssumption
<1>3. Load!Last = <<n, m>> /\ Load!Last[1] = n /\ Load!Last[2] = m
  BY DEF Load!Last
<1>4. CASE c[1] = n
  <2>1. c[2] \in 1 .. m
    BY <1>1, <1>4
  <2>2. c[2] < m \/ c[2] = m
    BY <1>2, <2>1
  <2> QED BY <1>1, <1>3, <1>4, <2>2, Zenon DEF Before
<1>5. CASE c[1] # n
  <2>1. c[1] < n
    BY <1>1, <1>5
  <2> QED BY <1>3, <2>1, Zenon DEF Before
<1> QED BY <1>4, <1>5

LEMMA NextKid ==
  ASSUME NEW d \in Load!Kids, d # Load!Last
  PROVE  /\ Load!After(d) \in Load!Kids
         /\ \A c \in Load!Kids : Before(c, Load!After(d)) <=> Before(c, d) \/ c = d
<1> DEFINE n == Len(Tasks)
           m == Tasks[d[1]].count
<1>1. d[1] \in 1 .. n /\ d[2] \in 1 .. m /\ d = <<d[1], d[2]>> /\ m \in Nat /\ n \in Nat
  BY KidNumbers
<1>2. \A c \in Load!Kids : /\ c[1] \in Nat /\ c[2] \in Nat /\ c = <<c[1], c[2]>>
                           /\ c[1] = d[1] => c[2] <= m
  BY <1>1, KidNumbers
<1>3. \A c \in Load!Kids : c = d <=> c[1] = d[1] /\ c[2] = d[2]
  BY <1>1, <1>2
<1>4. CASE d[2] < m
  <2>1. Load!After(d) = <<d[1], d[2] + 1>>
    BY <1>4 DEF Load!After, Load!TaskOf
  <2>2. d[2] + 1 \in 1 .. m
    BY <1>1, <1>4
  <2>3. Load!After(d) \in Load!Kids
    BY <1>1, <2>1, <2>2, KidIs
  <2>4. ASSUME NEW c \in Load!Kids
        PROVE  Before(c, Load!After(d)) <=> Before(c, d) \/ c = d
    <3>1. Before(c, Load!After(d)) <=> c[1] < d[1] \/ (c[1] = d[1] /\ c[2] < d[2] + 1)
      BY <2>1 DEF Before
    <3>2. c[2] < d[2] + 1 <=> c[2] < d[2] \/ c[2] = d[2]
      BY <1>1, <1>2
    <3> QED BY <1>3, <3>1, <3>2, Zenon DEF Before
  <2> QED BY <2>3, <2>4
<1>5. CASE ~(d[2] < m)
  <2>1. Load!After(d) = <<d[1] + 1, 1>>
    BY <1>5 DEF Load!After, Load!TaskOf
  <2>2. d[2] = m
    BY <1>1, <1>5
  <2>3. d[1] # n
    BY <1>1, <2>2 DEF Load!Last
  <2>4. d[1] + 1 \in 1 .. n
    BY <1>1, <2>3
  <2>5. Tasks[d[1] + 1].count \in Nat \ {0}
    BY <2>4, WorkersAssumption
  <2>6. 1 \in 1 .. Tasks[d[1] + 1].count
    BY <2>5
  <2>7. Load!After(d) \in Load!Kids
    BY <2>1, <2>4, <2>6, KidIs
  <2>8. ASSUME NEW c \in Load!Kids
        PROVE  Before(c, Load!After(d)) <=> Before(c, d) \/ c = d
    <3>1. Before(c, Load!After(d)) <=> c[1] < d[1] + 1 \/ (c[1] = d[1] + 1 /\ c[2] < 1)
      BY <2>1 DEF Before
    <3>2. c[2] >= 1 /\ c[2] \in Nat /\ c[1] \in Nat
      BY KidNumbers
    <3>3. Before(c, Load!After(d)) <=> c[1] < d[1] \/ c[1] = d[1]
      BY <1>1, <3>1, <3>2
    <3>4. c[1] = d[1] => c[2] < d[2] \/ c[2] = d[2]
      BY <1>1, <1>2, <2>2, <3>2
    <3> QED BY <1>3, <3>3, <3>4, Zenon DEF Before
  <2> QED BY <2>7, <2>8
<1> QED BY <1>4, <1>5

-----------------------------------------------------------------------------
(* sload: the reports *)

LEMMA SameKids == Load!Kids' = Load!Kids
  BY DEF Load!Kids

LEMMA LoadInit == Load!Init => LoadInv
<1> SUFFICES ASSUME Load!Init PROVE LoadInv
  OBVIOUS
<1>1. /\ pc = "pipe" /\ at = <<1, 1>> /\ killed = {}
      /\ pids \in [Load!Kids -> {"pid", Load!Failed, Load!Unset}]
      /\ kid \in [Load!Kids -> {"none", "runs", "wrote", "zombie", "reaped"}]
      /\ pipe = [c \in Load!Kids |-> pipe[c]]
      /\ time = [c \in Load!Kids |-> time[c]]
  BY DEF Load!Init
<1>2. \A c \in Load!Kids : kid[c] = "none" /\ pipe[c] = <<>>
  BY DEF Load!Init
<1>3. LoadType
  BY <1>1, FirstKid DEF LoadType
<1>4. PipeInv
  BY <1>1, <1>2 DEF PipeInv, PipeOk
<1>5. MainInv
  BY <1>1, <1>2 DEF MainInv
<1> QED BY <1>3, <1>4, <1>5 DEF LoadInv

\* One child c moves on, and nothing else does.
LEMMA ChildMoves ==
  ASSUME LoadInv, NEW c \in Load!Kids, UNCHANGED <<pc, at, pids>>,
         kid[c] \in {"runs", "wrote"},
         NEW s \in {"runs", "wrote", "zombie"}, kid' = [kid EXCEPT ![c] = s],
         pipe' = [d \in Load!Kids |-> pipe'[d]], time' = [d \in Load!Kids |-> time'[d]],
         killed \subseteq killed', killed' \subseteq killed \cup {c},
         \A d \in Load!Kids \ {c} : pipe'[d] = pipe[d] /\ time'[d] = time[d],
         s = "runs" => pipe'[c] = <<>>,
         s = "wrote" => pipe'[c] = <<time'[c]>>,
         s = "zombie" /\ c \notin killed' => pipe'[c] = <<time'[c]>>,
         c \in killed' => s = "zombie" /\ pipe'[c] = <<>>
  PROVE  LoadInv'
<1>1. LoadType /\ PipeInv /\ MainInv
  BY DEF LoadInv
<1>2. /\ kid' \in [Load!Kids -> {"none", "runs", "wrote", "zombie", "reaped"}]
      /\ kid'[c] = s /\ \A d \in Load!Kids \ {c} : kid'[d] = kid[d]
  BY <1>1 DEF LoadType
<1>3. LoadType'
  <2>1. killed' \subseteq Load!Kids
    BY <1>1 DEF LoadType
  <2> QED BY <1>1, <1>2, <2>1, SameKids DEF LoadType, Load!Failed, Load!Unset
<1>4. ASSUME NEW d \in Load!Kids \ {c} PROVE PipeOk(d)'
  <2>1. PipeOk(d)
    BY <1>1 DEF PipeInv
  <2>2. /\ kid'[d] = kid[d] /\ pipe'[d] = pipe[d] /\ time'[d] = time[d]
        /\ pids'[d] = pids[d] /\ (d \in killed' <=> d \in killed)
    BY <1>2
  <2> QED BY <2>1, <2>2 DEF PipeOk, Load!Failed
<1>5. PipeOk(c)'
  <2>1. pids'[c] # Load!Failed
    BY <1>1 DEF PipeInv, PipeOk
  <2> QED BY <1>2, <2>1 DEF PipeOk, Load!Failed
<1>6. PipeInv'
  BY <1>4, <1>5, SameKids DEF PipeInv
<1>7. \A d \in Load!Kids : Gathered(d) => d # c /\ Gathered(d)'
  BY <1>2 DEF Gathered
<1>8. \A d \in Load!Kids : kid[d] = "none" => kid'[d] = "none"
  BY <1>2
<1>9. at \in Load!Kids /\ at' = at /\ pc' = pc /\ (at \in Load!Lost => at \in Load!Lost')
  BY <1>1, SameKids DEF LoadType, Load!Lost, Load!Failed
<1>10. MainInv'
  <2>1. pc' = "pipe" => \A d \in Load!Kids : Before(d, at') \/ kid'[d] = "none"
    BY <1>1, <1>8, <1>9 DEF MainInv
  <2>2. pc' \in {"waitpid", "read"} => \A d \in Load!Kids : Before(d, at') => Gathered(d)'
    BY <1>1, <1>7, <1>9 DEF MainInv
  <2>3. pc' = "read" =>
          at' \in Load!Lost' \/ (Gathered(at)' /\ pipe'[at'] = <<time'[at']>>)
    BY <1>1, <1>7, <1>9 DEF MainInv
  <2>4. pc' = "exit 0" => \A d \in Load!Kids : Gathered(d)'
    BY <1>1, <1>7, <1>9 DEF MainInv
  <2> QED BY <2>1, <2>2, <2>3, <2>4, <1>9, SameKids DEF MainInv, Before, Gathered
<1> QED BY <1>3, <1>6, <1>10 DEF LoadInv

LEMMA OneReport ==
  ASSUME NEW x
  PROVE  Append(<<>>, x) = <<x>> /\ Tail(<<x>>) = <<>> /\ <<x>> # <<>>
OBVIOUS

LEMMA LoadChild ==
  ASSUME LoadInv, NEW c \in Load!Kids, Load!Child(c) \/ Load!Kill(c)
  PROVE  LoadInv'
<1>1. /\ LoadType /\ PipeOk(c)
      /\ pipe = [d \in Load!Kids |-> pipe[d]] /\ time = [d \in Load!Kids |-> time[d]]
      /\ kid \in [Load!Kids -> {"none", "runs", "wrote", "zombie", "reaped"}]
  BY DEF LoadInv, LoadType, PipeInv
<1>2. CASE Load!Pass(c)
  <2>1. kid[c] = "runs" /\ UNCHANGED <<pc, at, pids, kid, pipe, killed>>
    BY <1>2 DEF Load!Pass
  <2>2. PICK v : time' = [time EXCEPT ![c] = v]
    <3>1. PICK b, d : time' = [time EXCEPT ![c] = @ + b]
      BY <1>2 DEF Load!Pass
    <3> QED BY <3>1
  <2>3. time' = [d \in Load!Kids |-> time'[d]] /\ \A d \in Load!Kids \ {c} : time'[d] = time[d]
    BY <1>1, <2>2
  <2>4. kid' = [kid EXCEPT ![c] = "runs"]
    BY <1>1, <2>1
  <2>5. pipe[c] = <<>> /\ c \notin killed
    BY <1>1, <2>1 DEF PipeOk
  <2>6. pipe' = [d \in Load!Kids |-> pipe'[d]]
    BY <1>1, <2>1
  <2> QED BY <2>1, <2>3, <2>4, <2>5, <2>6, ChildMoves
<1>3. CASE Load!Write(c)
  <2>1. /\ kid[c] = "runs" /\ pipe' = [pipe EXCEPT ![c] = Append(@, time[c])]
        /\ kid' = [kid EXCEPT ![c] = "wrote"] /\ UNCHANGED <<pc, at, pids, time, killed>>
    BY <1>3 DEF Load!Write, Load!PipeOf
  <2>2. pipe[c] = <<>> /\ c \notin killed
    BY <1>1, <2>1 DEF PipeOk
  <2>3. /\ pipe' = [d \in Load!Kids |-> pipe'[d]]
        /\ \A d \in Load!Kids \ {c} : pipe'[d] = pipe[d]
        /\ pipe'[c] = Append(pipe[c], time[c])
    BY <1>1, <2>1
  <2>4. pipe'[c] = <<time'[c]>>
    BY <2>1, <2>2, <2>3, OneReport
  <2>5. time' = [d \in Load!Kids |-> time'[d]]
    BY <1>1, <2>1
  <2> QED BY <2>1, <2>2, <2>3, <2>4, <2>5, ChildMoves
<1>4. CASE Load!Exit(c)
  <2>1. /\ kid[c] = "wrote" /\ kid' = [kid EXCEPT ![c] = "zombie"]
        /\ UNCHANGED <<pc, at, pids, pipe, time, killed>>
    BY <1>4 DEF Load!Exit
  <2>2. pipe[c] = <<time[c]>> /\ c \notin killed
    BY <1>1, <2>1 DEF PipeOk
  <2>3. pipe' = [d \in Load!Kids |-> pipe'[d]] /\ time' = [d \in Load!Kids |-> time'[d]]
    BY <1>1, <2>1
  <2> QED BY <2>1, <2>2, <2>3, ChildMoves
<1>5. CASE Load!Kill(c)
  <2>1. /\ kid[c] = "runs" /\ kid' = [kid EXCEPT ![c] = "zombie"]
        /\ killed' = killed \cup {c} /\ UNCHANGED <<pc, at, pids, pipe, time>>
    BY <1>5 DEF Load!Kill
  <2>2. pipe[c] = <<>>
    BY <1>1, <2>1 DEF PipeOk
  <2>3. pipe' = [d \in Load!Kids |-> pipe'[d]] /\ time' = [d \in Load!Kids |-> time'[d]]
    BY <1>1, <2>1
  <2> QED BY <2>1, <2>2, <2>3, ChildMoves
<1> QED BY <1>2, <1>3, <1>4, <1>5 DEF Load!Child

\* Steps that change nothing the invariant speaks of, but where main is
LEMMA LoadSame ==
  ASSUME LoadInv, UNCHANGED <<pids, kid, pipe, time, killed>>
  PROVE  /\ PipeInv' /\ Load!Lost' = Load!Lost
         /\ \A c \in Load!Kids : Gathered(c)' <=> Gathered(c)
         /\ at' \in Load!Kids /\ pc' \in {"pipe", "waitpid", "read", "exit 0", "exit 1"} => LoadType'
<1>1. LoadType /\ PipeInv
  BY DEF LoadInv
<1>2. PipeInv'
  BY <1>1, SameKids DEF PipeInv, PipeOk, Load!Failed
<1>3. Load!Lost' = Load!Lost
  BY SameKids DEF Load!Lost, Load!Failed
<1>4. \A c \in Load!Kids : Gathered(c)' <=> Gathered(c)
  BY DEF Gathered
<1>5. ASSUME at' \in Load!Kids, pc' \in {"pipe", "waitpid", "read", "exit 0", "exit 1"}
      PROVE  LoadType'
  BY <1>1, <1>5, SameKids DEF LoadType, Load!Failed, Load!Unset
<1> QED BY <1>2, <1>3, <1>4, <1>5

LEMMA LoadSignal ==
  ASSUME LoadInv, NEW p, Load!sig_int(p)
  PROVE  LoadInv'
<1>1. UNCHANGED <<pc, at, pids, kid, pipe, time, killed>>
  BY DEF Load!sig_int
<1>2. LoadType /\ MainInv
  BY DEF LoadInv
<1>3. /\ PipeInv' /\ LoadType' /\ Load!Lost' = Load!Lost
      /\ \A c \in Load!Kids : Gathered(c)' <=> Gathered(c)
  BY <1>1, <1>2, LoadSame DEF LoadType
<1>4. MainInv'
  BY <1>1, <1>2, <1>3, SameKids DEF MainInv, Before, Gathered
<1> QED BY <1>3, <1>4 DEF LoadInv

LEMMA LoadPipeFail ==
  ASSUME LoadInv, Load!PipeFail
  PROVE  LoadInv'
<1>1. pc' = "exit 1" /\ UNCHANGED <<at, pids, kid, pipe, time, killed>>
  BY DEF Load!PipeFail, Load!kids
<1>2. at' \in Load!Kids
  BY <1>1 DEF LoadInv, LoadType
<1>3. PipeInv' /\ LoadType'
  BY <1>1, <1>2, LoadSame
<1>4. MainInv'
  BY <1>1 DEF MainInv
<1> QED BY <1>3, <1>4 DEF LoadInv

\* After a fork, failed or not, main is at the next child or waits for the first.
LEMMA LoadFork ==
  ASSUME LoadInv, Load!Fork \/ Load!ForkFail
  PROVE  LoadInv'
<1>1. /\ pc = "pipe" /\ UNCHANGED <<pipe, time, killed>> /\ Load!Forked
      /\ \/ pids' = [pids EXCEPT ![at] = "pid"] /\ kid' = [kid EXCEPT ![at] = "runs"]
         \/ pids' = [pids EXCEPT ![at] = Load!Failed] /\ kid' = kid
  BY DEF Load!Fork, Load!ForkFail, Load!kids
<1>2. /\ LoadType /\ PipeInv /\ at \in Load!Kids
      /\ pids \in [Load!Kids -> {"pid", Load!Failed, Load!Unset}]
      /\ kid \in [Load!Kids -> {"none", "runs", "wrote", "zombie", "reaped"}]
      /\ \A c \in Load!Kids : Before(c, at) \/ kid[c] = "none"
  BY <1>1 DEF LoadInv, LoadType, MainInv
<1>3. ~Before(at, at)
  BY <1>2, KidNumbers DEF Before
<1>4. kid[at] = "none"
  BY <1>2, <1>3
<1>5. /\ pids' \in [Load!Kids -> {"pid", Load!Failed, Load!Unset}]
      /\ kid' \in [Load!Kids -> {"none", "runs", "wrote", "zombie", "reaped"}]
      /\ \A c \in Load!Kids \ {at} : pids'[c] = pids[c] /\ kid'[c] = kid[c]
  BY <1>1, <1>2
<1>6. \/ pids'[at] = "pid" /\ kid'[at] = "runs"
      \/ pids'[at] = Load!Failed /\ kid'[at] = "none"
  BY <1>1, <1>2, <1>4
<1>7. PipeInv'
  <2>1. ASSUME NEW c \in Load!Kids, c # at PROVE PipeOk(c)'
    <3>1. PipeOk(c)
      BY <1>2 DEF PipeInv
    <3>2. pids'[c] = pids[c] /\ kid'[c] = kid[c]
      BY <1>5, <2>1
    <3> QED BY <1>1, <3>1, <3>2 DEF PipeOk, Load!Failed
  <2>2. PipeOk(at) /\ Load!Failed # "pid"
    BY <1>2 DEF PipeInv, Load!Failed
  <2>3. pipe[at] = <<>> /\ at \notin killed
    BY <1>4, <2>2 DEF PipeOk
  <2>4. ASSUME NEW c \in Load!Kids, c = at PROVE PipeOk(c)'
    <3>1. pipe'[c] = <<>> /\ c \notin killed'
      BY <1>1, <2>3, <2>4
    <3>2. \/ pids'[c] = "pid" /\ kid'[c] = "runs"
          \/ pids'[c] = Load!Failed /\ kid'[c] = "none"
      BY <1>6, <2>4
    <3> QED BY <2>2, <3>1, <3>2 DEF PipeOk, Load!Failed
  <2> QED BY <2>1, <2>4, SameKids DEF PipeInv
<1>8. CASE at = Load!Last
  <2>1. pc' = "waitpid" /\ at' = <<1, 1>>
    BY <1>1, <1>8 DEF Load!Forked
  <2>2. LoadType'
    BY <1>1, <1>2, <1>5, <2>1, FirstKid, SameKids DEF LoadType, Load!Failed, Load!Unset
  <2>3. \A c \in Load!Kids : ~Before(c, at')
    BY <2>1, FirstKid
  <2>4. MainInv'
    BY <2>1, <2>3, SameKids DEF MainInv, Before
  <2> QED BY <1>7, <2>2, <2>4 DEF LoadInv
<1>9. CASE at # Load!Last
  <2>1. pc' = "pipe" /\ at' = Load!After(at)
    BY <1>1, <1>9 DEF Load!Forked
  <2>2. /\ at' \in Load!Kids
        /\ \A c \in Load!Kids : Before(c, at') <=> Before(c, at) \/ c = at
    BY <1>2, <1>9, <2>1, NextKid
  <2>3. LoadType'
    BY <1>1, <1>2, <1>5, <2>1, <2>2, SameKids DEF LoadType, Load!Failed, Load!Unset
  <2>4. \A c \in Load!Kids : Before(c, at') \/ kid'[c] = "none"
    BY <1>2, <1>5, <2>2
  <2>5. MainInv'
    BY <2>1, <2>4, SameKids DEF MainInv, Before
  <2> QED BY <1>7, <2>3, <2>5 DEF LoadInv
<1> QED BY <1>8, <1>9

LEMMA Reaped ==
  ASSUME LoadInv, NEW c \in Load!Kids, kid[c] = "zombie",
         kid' = [kid EXCEPT ![c] = "reaped"], UNCHANGED <<at, pids, pipe, time, killed>>,
         pc' \in {"read", "exit 1"}
  PROVE  /\ LoadType' /\ PipeInv' /\ kid'[c] = "reaped"
         /\ \A d \in Load!Kids \ {c} : kid'[d] = kid[d]
<1>1. LoadType /\ PipeInv
  BY DEF LoadInv
<1>2. /\ kid' \in [Load!Kids -> {"none", "runs", "wrote", "zombie", "reaped"}]
      /\ kid'[c] = "reaped" /\ \A d \in Load!Kids \ {c} : kid'[d] = kid[d]
  BY <1>1 DEF LoadType
<1>3. LoadType'
  BY <1>1, <1>2, SameKids DEF LoadType, Load!Failed, Load!Unset
<1>4. ASSUME NEW d \in Load!Kids PROVE PipeOk(d)'
  <2>1. PipeOk(d)
    BY <1>1 DEF PipeInv
  <2>2. CASE d = c
    BY <1>2, <2>1, <2>2 DEF PipeOk, Load!Failed
  <2>3. CASE d # c
    BY <1>2, <2>1, <2>3 DEF PipeOk, Load!Failed
  <2> QED BY <2>2, <2>3
<1> QED BY <1>2, <1>3, <1>4, SameKids DEF PipeInv

LEMMA LoadWaitpid ==
  ASSUME LoadInv, Load!Waitpid \/ Load!WaitpidAny \/ Load!WaitpidNone
  PROVE  LoadInv'
<1>1. LoadType /\ PipeInv /\ MainInv /\ at \in Load!Kids
  BY DEF LoadInv, LoadType
<1>2. /\ pc = "waitpid" /\ UNCHANGED <<at, pids, pipe, time, killed>>
      /\ \A c \in Load!Kids : Before(c, at) => Gathered(c)
  BY <1>1 DEF MainInv, Load!Waitpid, Load!WaitpidAny, Load!WaitpidNone, Load!kids
<1>3. CASE Load!Waitpid
  <2>1. /\ pids[at] = "pid" /\ kid[at] = "zombie" /\ pc' = "read"
        /\ kid' = [kid EXCEPT ![at] = "reaped"]
    BY <1>3 DEF Load!Waitpid
  <2>2. /\ LoadType' /\ PipeInv' /\ kid'[at] = "reaped"
        /\ \A d \in Load!Kids \ {at} : kid'[d] = kid[d]
    BY <1>1, <1>2, <2>1, Reaped
  <2>3. \A c \in Load!Kids : Before(c, at) => Gathered(c)'
    BY <1>2, <2>1, <2>2 DEF Gathered
  <2>4. at \in Load!Lost' \/ (Gathered(at)' /\ pipe[at] = <<time[at]>>)
    <3>1. CASE at \in killed
      BY <1>2, <3>1 DEF Load!Lost
    <3>2. CASE at \notin killed
      BY <1>1, <1>2, <2>1, <2>2, <3>2 DEF PipeInv, PipeOk, Gathered
    <3> QED BY <3>1, <3>2
  <2>5. MainInv'
    BY <1>2, <2>1, <2>3, <2>4, SameKids DEF MainInv, Before, Gathered
  <2> QED BY <2>2, <2>5 DEF LoadInv
<1>4. CASE Load!WaitpidAny
  <2>1. PICK c \in Load!Kids : kid[c] = "zombie" /\ kid' = [kid EXCEPT ![c] = "reaped"]
    BY <1>4 DEF Load!WaitpidAny
  <2>2. pc' = "exit 1"
    BY <1>4 DEF Load!WaitpidAny
  <2>3. LoadType' /\ PipeInv'
    BY <1>2, <2>1, <2>2, Reaped
  <2> QED BY <2>2, <2>3 DEF LoadInv, MainInv
<1>5. CASE Load!WaitpidNone
  <2>1. pids[at] = Load!Failed /\ pc' = "read" /\ UNCHANGED kid
    BY <1>5 DEF Load!WaitpidNone, Load!kids
  <2>2. /\ PipeInv' /\ LoadType' /\ Load!Lost' = Load!Lost
        /\ \A c \in Load!Kids : Gathered(c)' <=> Gathered(c)
    BY <1>1, <1>2, <2>1, LoadSame
  <2>3. at \in Load!Lost
    BY <1>1, <2>1 DEF Load!Lost
  <2>4. MainInv'
    BY <1>2, <2>1, <2>2, <2>3, SameKids DEF MainInv, Before, Gathered
  <2> QED BY <2>2, <2>4 DEF LoadInv
<1> QED BY <1>3, <1>4, <1>5

\* There is something to read only from a child that has written and was reaped.
LEMMA LoadRead ==
  ASSUME LoadInv, Load!Read
  PROVE  LoadInv'
<1>1. LoadType /\ PipeInv /\ MainInv /\ at \in Load!Kids /\ PipeOk(at)
  BY DEF LoadInv, LoadType, PipeInv
<1>2. /\ pc = "read" /\ pipe[at] # <<>> /\ pipe' = [pipe EXCEPT ![at] = Tail(@)]
      /\ UNCHANGED <<pids, kid, time, killed>>
  BY DEF Load!Read
<1>3. at \notin Load!Lost
  BY <1>1, <1>2 DEF PipeOk, Load!Lost
<1>4. /\ Gathered(at) /\ pipe[at] = <<time[at]>>
      /\ \A c \in Load!Kids : Before(c, at) => Gathered(c)
  BY <1>1, <1>2, <1>3 DEF MainInv
<1>5. /\ pipe' = [d \in Load!Kids |-> pipe'[d]]
      /\ pipe'[at] = Tail(pipe[at]) /\ \A d \in Load!Kids \ {at} : pipe'[d] = pipe[d]
  BY <1>1, <1>2 DEF LoadType
<1>6. ASSUME NEW d \in Load!Kids PROVE PipeOk(d)'
  <2>1. PipeOk(d)
    BY <1>1 DEF PipeInv
  <2>2. CASE d = at
    BY <1>2, <1>4, <2>1, <2>2 DEF PipeOk, Gathered, Load!Failed
  <2>3. CASE d # at
    BY <1>2, <1>5, <2>1, <2>3 DEF PipeOk, Load!Failed
  <2> QED BY <2>2, <2>3
<1>7. PipeInv'
  BY <1>6, SameKids DEF PipeInv
<1>8. \A c \in Load!Kids : Gathered(c) => Gathered(c)'
  BY <1>2 DEF Gathered
<1>9. CASE at = Load!Last
  <2>1. pc' = "exit 0" /\ at' = at
    BY <1>9 DEF Load!Read
  <2>2. \A c \in Load!Kids : Gathered(c)'
    BY <1>4, <1>8, <1>9, LastKid
  <2>3. LoadType'
    BY <1>1, <1>2, <1>5, <2>1, SameKids DEF LoadType, Load!Failed, Load!Unset
  <2>4. MainInv'
    BY <2>1, <2>2, SameKids DEF MainInv, Gathered
  <2> QED BY <1>7, <2>3, <2>4 DEF LoadInv
<1>10. CASE at # Load!Last
  <2>1. pc' = "waitpid" /\ at' = Load!After(at)
    BY <1>10 DEF Load!Read
  <2>2. /\ at' \in Load!Kids
        /\ \A c \in Load!Kids : Before(c, at') <=> Before(c, at) \/ c = at
    BY <1>1, <1>10, <2>1, NextKid
  <2>3. LoadType'
    BY <1>1, <1>2, <1>5, <2>1, <2>2, SameKids DEF LoadType, Load!Failed, Load!Unset
  <2>4. \A c \in Load!Kids : Before(c, at') => Gathered(c)'
    BY <1>4, <1>8, <2>2
  <2>5. MainInv'
    BY <2>1, <2>4, SameKids DEF MainInv, Before, Gathered
  <2> QED BY <1>7, <2>3, <2>5 DEF LoadInv
<1> QED BY <1>9, <1>10

LEMMA LoadNext == LoadInv /\ Load!Next => LoadInv'
  BY LoadChild, LoadSignal, LoadPipeFail, LoadFork, LoadWaitpid, LoadRead
  DEF Load!Next, Load!Main

LEMMA LoadIs == LoadInv => Load!BlockedOnlyByLoss /\ (pc = "exit 0" => Load!Lost = {})
<1> SUFFICES ASSUME LoadInv
             PROVE  Load!BlockedOnlyByLoss /\ (pc = "exit 0" => Load!Lost = {})
  OBVIOUS
<1>1. LoadType /\ PipeInv /\ MainInv
  BY DEF LoadInv
<1>2. pc = "read" /\ pipe[at] = <<>> => at \in Load!Lost
  BY <1>1, OneReport DEF MainInv
<1>3. \A c \in Load!Kids \ killed : kid[c] = "zombie" => pipe[c] = <<time[c]>>
  BY <1>1 DEF PipeInv, PipeOk
<1>4. ASSUME pc = "exit 0" PROVE Load!Lost = {}
  <2>1. \A c \in Load!Kids : c \notin killed /\ pids[c] # Load!Failed
    BY <1>1, <1>4 DEF MainInv, Gathered, PipeInv, PipeOk
  <2> QED BY <1>1, <2>1 DEF LoadType, Load!Lost
<1> QED BY <1>2, <1>3, <1>4 DEF Load!BlockedOnlyByLoss

-----------------------------------------------------------------------------
(* pth-stk-test: tlst *)

LEMMA OncePushed ==
  ASSUME NEW S, NEW l \in Seq(S), NEW I, NEW i \in S, i \notin I, Once(l, I)
  PROVE  /\ <<i>> \o l \in Seq(S) /\ Len(l) \in Nat /\ Len(<<i>> \o l) = Len(l) + 1
         /\ <<i>> \o l # <<>>
         /\ Once(<<i>> \o l, I \cup {i})
<1> DEFINE m == <<i>> \o l
<1>1. m \in Seq(S) /\ Len(l) \in Nat /\ Len(m) = Len(l) + 1
  OBVIOUS
<1>2. m[1] = i /\ \A k \in 2 .. Len(m) : m[k] = l[k - 1] /\ k - 1 \in 1 .. Len(l)
  OBVIOUS
<1> HIDE DEF m
<1>3. \A k \in 1 .. Len(m) : k = 1 \/ k \in 2 .. Len(m)
  BY <1>1
<1>4. \A k \in 1 .. Len(m) : m[k] \in I \cup {i}
  BY <1>2, <1>3 DEF Once
<1>5. \A j, k \in 1 .. Len(m) : m[j] = m[k] => j = k
  <2> SUFFICES ASSUME NEW j \in 1 .. Len(m), NEW k \in 1 .. Len(m), m[j] = m[k]
               PROVE  j = k
    OBVIOUS
  <2>1. CASE j = 1
    BY <1>2, <1>3, <2>1 DEF Once
  <2>2. CASE k = 1
    BY <1>2, <1>3, <2>2 DEF Once
  <2>3. CASE j # 1 /\ k # 1
    <3>1. j - 1 = k - 1
      BY <1>2, <1>3, <2>3 DEF Once
    <3> QED BY <1>1, <3>1
  <2> QED BY <2>1, <2>2, <2>3
<1>6. m # <<>>
  BY <1>1
<1> QED BY <1>1, <1>4, <1>5, <1>6 DEF Once, m

LEMMA OncePopped ==
  ASSUME NEW S, NEW l \in Seq(S), NEW I, l # <<>>, Once(l, I)
  PROVE  /\ Head(l) \in I /\ Head(l) \in S
         /\ Tail(l) \in Seq(S) /\ Len(l) \in Nat /\ Len(Tail(l)) = Len(l) - 1
         /\ Once(Tail(l), I)
         /\ \A k \in 1 .. Len(Tail(l)) : Tail(l)[k] # Head(l)
<1> DEFINE m == Tail(l)
<1>1. /\ Head(l) = l[1] /\ Head(l) \in S /\ m \in Seq(S)
      /\ Len(l) \in Nat /\ Len(l) >= 1 /\ Len(m) = Len(l) - 1
  OBVIOUS
<1>2. \A k \in 1 .. Len(m) : m[k] = l[k + 1]
  OBVIOUS
<1> HIDE DEF m
<1>3. \A k \in 1 .. Len(m) : k \in Int /\ k + 1 \in 1 .. Len(l) /\ k + 1 # 1
  BY <1>1
<1>4. 1 \in 1 .. Len(l)
  BY <1>1
<1>5. \A k \in 1 .. Len(m) : m[k] \in I /\ m[k] # Head(l)
  BY <1>1, <1>2, <1>3, <1>4 DEF Once
<1>6. \A j, k \in 1 .. Len(m) : m[j] = m[k] => j + 1 = k + 1
  BY <1>2, <1>3 DEF Once
<1>7. \A j, k \in 1 .. Len(m) : m[j] = m[k] => j = k
  BY <1>3, <1>6
<1>8. Head(l) \in I
  BY <1>1, <1>4 DEF Once
<1> QED BY <1>1, <1>5, <1>7, <1>8 DEF Once, m

LEMMA OnceLess ==
  ASSUME NEW l, NEW I, NEW x, Once(l, I), \A k \in 1 .. Len(l) : l[k] # x
  PROVE  Once(l, I \ {x})
BY DEF Once

\* Cardinalities, used from here on
INSTANCE FiniteSetTheorems

-----------------------------------------------------------------------------
(* thrhttp *)

\* The instance's own copy of the operator
LEMMA SameCardinality ==
  ASSUME NEW S
  PROVE  Server!Cardinality(S) = Cardinality(S)
BY DEF Server!Cardinality, Cardinality

\* Connections handed over, taken and given back: how Held("thread") changes when
\* c goes to s.
LEMMA HeldChange ==
  ASSUME NEW K, NEW S, NEW f \in [K -> S], NEW c \in K, NEW s \in S, NEW t \in S
  PROVE  LET g == [f EXCEPT ![c] = s]
             H(x) == {d \in K : x[d] = t}
         IN  /\ s # t /\ f[c] # t => H(g) = H(f)
             /\ s = t /\ f[c] # t => H(g) = H(f) \cup {c} /\ c \notin H(f)
             /\ s # t /\ f[c] = t => H(g) = H(f) \ {c} /\ c \in H(f)
<1> DEFINE g == [f EXCEPT ![c] = s]
           H(x) == {d \in K : x[d] = t}
<1>1. \A d \in K : g[d] = IF d = c THEN s ELSE f[d]
  OBVIOUS
<1> HIDE DEF g
<1>2. s # t /\ f[c] # t => H(g) = H(f)
  BY <1>1
<1>3. s = t /\ f[c] # t => H(g) = H(f) \cup {c} /\ c \notin H(f)
  BY <1>1
<1>4. s # t /\ f[c] = t => H(g) = H(f) \ {c} /\ c \in H(f)
  BY <1>1
<1> QED BY <1>2, <1>3, <1>4 DEF g

\* The same for the number of threads.
LEMMA ThreadCount ==
  ASSUME ServerInv, NEW c \in Conns, NEW s \in {"none", "backlog", "main", "thread"},
         conn' = [conn EXCEPT ![c] = s]
  PROVE  /\ conn' \in [Conns -> {"none", "backlog", "main", "thread"}]
         /\ \A d \in Conns : conn'[d] = IF d = c THEN s ELSE conn[d]
         /\ Cardinality(Server!Held("thread")) \in Nat
         /\ Cardinality(Server!Held("thread"))' \in Nat
         /\ s # "thread" /\ conn[c] # "thread" =>
              Cardinality(Server!Held("thread"))' = Cardinality(Server!Held("thread"))
         /\ s = "thread" /\ conn[c] # "thread" =>
              Cardinality(Server!Held("thread"))' = Cardinality(Server!Held("thread")) + 1
         /\ s # "thread" /\ conn[c] = "thread" =>
              Cardinality(Server!Held("thread"))' = Cardinality(Server!Held("thread")) - 1
<1> DEFINE H == Server!Held("thread")
           G == {d \in Conns : conn'[d] = "thread"}
<1>1. conn \in [Conns -> {"none", "backlog", "main", "thread"}]
  BY DEF ServerInv
<1>3. /\ conn' \in [Conns -> {"none", "backlog", "main", "thread"}]
      /\ \A d \in Conns : conn'[d] = IF d = c THEN s ELSE conn[d]
  BY <1>1
<1>4. H = {d \in Conns : conn[d] = "thread"} /\ H' = G
  BY DEF Server!Held
<1>5. IsFiniteSet(H) /\ IsFiniteSet(G)
  BY <1>4, WorkersAssumption, FS_Subset
<1>6. Cardinality(H) \in Nat /\ Cardinality(G) \in Nat
  BY <1>5, FS_CardinalityType
<1>7. /\ s # "thread" /\ conn[c] # "thread" => G = H
      /\ s = "thread" /\ conn[c] # "thread" => G = H \cup {c} /\ c \notin H
      /\ s # "thread" /\ conn[c] = "thread" => G = H \ {c} /\ c \in H
  BY <1>1, <1>4, HeldChange
<1> HIDE DEF G, H
<1>8. s = "thread" /\ conn[c] # "thread" => Cardinality(G) = Cardinality(H) + 1
  BY <1>5, <1>7, FS_AddElement
<1>9. s # "thread" /\ conn[c] = "thread" => Cardinality(G) = Cardinality(H) - 1
  BY <1>5, <1>7, FS_RemoveElement
<1> QED BY <1>3, <1>4, <1>6, <1>7, <1>8, <1>9 DEF H

\* A step that leaves the connections alone
LEMMA SameThreads ==
  ASSUME ServerInv, UNCHANGED conn
  PROVE  /\ Cardinality(Server!Held("thread"))' = Cardinality(Server!Held("thread"))
         /\ Cardinality(Server!Held("thread")) \in Nat
<1>1. Server!Held("thread")' = Server!Held("thread")
  BY DEF Server!Held
<1>2. IsFiniteSet(Server!Held("thread"))
  BY WorkersAssumption, FS_Subset DEF Server!Held
<1> QED BY <1>1, <1>2, FS_CardinalityType

LEMMA ServerInit == Server!Init => ServerInv
<1> SUFFICES ASSUME Server!Init PROVE ServerInv
  OBVIOUS
<1>1. Server!Held("thread") = {}
  BY DEF Server!Init, Server!Held
<1>2. Cardinality(Server!Held("thread")) = 0
  BY <1>1, FS_EmptySet
<1>3. /\ conn \in [Conns -> {"none", "backlog", "main", "thread"}]
      /\ \A c \in Conns : conn[c] # "main"
  BY DEF Server!Init
<1>4. /\ pc = "test" /\ cfd = Server!NoConn /\ stopsvr \in BOOLEAN
      /\ conns = 0 /\ late = 0 /\ aborted = 0 /\ closed = 0
  BY DEF Server!Init
<1>5. conns = Cardinality(Server!Held("thread")) + closed + aborted
                + (IF pc = "create" THEN 1 ELSE 0)
  BY <1>2, <1>4
<1>6. late = 1 => FALSE
  BY <1>4
<1> QED BY <1>3, <1>4, <1>5, <1>6 DEF ServerInv

\* main's steps that hold no connection afterwards
LEMMA ServerQuiet ==
  ASSUME ServerInv, Server!Test \/ Server!Exit \/ Server!SigInt
  PROVE  ServerInv'
<1>1. UNCHANGED <<conn, cfd, conns, late, aborted, closed>>
  BY DEF Server!Test, Server!Exit, Server!SigInt
<1>2. CASE Server!Test
  BY <1>1, <1>2, SameThreads DEF Server!Test, Server!Stops, ServerInv
<1>3. CASE Server!Exit
  BY <1>1, <1>3, SameThreads DEF Server!Exit, ServerInv
<1>4. CASE Server!SigInt
  <2>1. stopsvr' = TRUE /\ (pc' = pc \/ (pc = "accept" /\ pc' = "test"))
    BY <1>4 DEF Server!SigInt
  <2> QED BY <1>1, <2>1, SameThreads DEF ServerInv
<1> QED BY <1>2, <1>3, <1>4

LEMMA ServerCount ==
  ASSUME ServerInv, Server!Count
  PROVE  ServerInv'
<1>1. /\ UNCHANGED <<conn, cfd, stopsvr, late, aborted, closed>>
      /\ conns' = conns + 1 /\ pc = "count" /\ pc' = "create"
  BY DEF Server!Count
<1> QED BY <1>1, SameThreads DEF ServerInv

LEMMA ServerAccept ==
  ASSUME ServerInv, NEW c \in Conns, Server!Accept(c)
  PROVE  ServerInv'
<1>1. /\ pc = "accept" /\ conn[c] = "backlog" /\ cfd' = c
      /\ conn' = [conn EXCEPT ![c] = "main"] /\ pc' = "count"
      /\ late' = (IF stopsvr THEN late + 1 ELSE late)
      /\ UNCHANGED <<stopsvr, conns, aborted, closed>>
  BY DEF Server!Accept, Server!Held
<1>2. late = 0 /\ \A d \in Conns : conn[d] # "main"
  BY <1>1, WorkersAssumption DEF ServerInv, Server!NoConn
<1>3. /\ conn' \in [Conns -> {"none", "backlog", "main", "thread"}]
      /\ \A d \in Conns : conn'[d] = IF d = c THEN "main" ELSE conn[d]
      /\ Cardinality(Server!Held("thread"))' = Cardinality(Server!Held("thread"))
  BY <1>1, ThreadCount
<1> QED BY <1>1, <1>2, <1>3 DEF ServerInv

LEMMA ServerCreate ==
  ASSUME ServerInv, Server!Create \/ Server!CreateFail
  PROVE  ServerInv'
<1>1. /\ pc = "create" /\ pc' = "test" /\ cfd' = Server!NoConn
      /\ UNCHANGED <<stopsvr, conns, late, closed>>
  BY DEF Server!Create, Server!CreateFail
<1>2. cfd \in Conns /\ conn[cfd] = "main" /\ \A d \in Conns : conn[d] = "main" => d = cfd
  BY <1>1 DEF ServerInv
<1>3. CASE Server!Create
  <2>1. conn' = [conn EXCEPT ![cfd] = "thread"] /\ UNCHANGED aborted
    BY <1>3 DEF Server!Create
  <2>2. /\ conn' \in [Conns -> {"none", "backlog", "main", "thread"}]
        /\ \A d \in Conns : conn'[d] = IF d = cfd THEN "thread" ELSE conn[d]
        /\ Cardinality(Server!Held("thread")) \in Nat
        /\ Cardinality(Server!Held("thread"))' = Cardinality(Server!Held("thread")) + 1
    BY <1>2, <2>1, ThreadCount
  <2> QED BY <1>1, <1>2, <2>1, <2>2 DEF ServerInv
<1>4. CASE Server!CreateFail
  <2>1. conn' = [conn EXCEPT ![cfd] = "none"] /\ aborted' = aborted + 1
    BY <1>4 DEF Server!CreateFail
  <2>2. /\ conn' \in [Conns -> {"none", "backlog", "main", "thread"}]
        /\ \A d \in Conns : conn'[d] = IF d = cfd THEN "none" ELSE conn[d]
        /\ Cardinality(Server!Held("thread")) \in Nat
        /\ Cardinality(Server!Held("thread"))' = Cardinality(Server!Held("thread"))
    BY <1>2, <2>1, ThreadCount
  <2> QED BY <1>1, <1>2, <2>1, <2>2 DEF ServerInv
<1> QED BY <1>3, <1>4

\* Clients and threads; a request changes only the counter of the requests.
LEMMA ServerOthers ==
  ASSUME ServerInv, NEW c \in Conns,
         Server!AcceptFail(c) \/ Server!Request(c) \/ Server!Finish(c) \/ Server!Connect(c)
  PROVE  ServerInv'
<1>1. UNCHANGED <<cfd, stopsvr, conns, late, aborted>>
  BY DEF Server!AcceptFail, Server!Request, Server!Finish, Server!Connect
<1>2. CASE Server!AcceptFail(c)
  <2>1. /\ pc = "accept" /\ pc' = "test" /\ UNCHANGED closed
        /\ conn[c] = "backlog" /\ conn' = [conn EXCEPT ![c] = "none"]
    BY <1>2 DEF Server!AcceptFail, Server!Held
  <2>2. /\ conn' \in [Conns -> {"none", "backlog", "main", "thread"}]
        /\ \A d \in Conns : conn'[d] = IF d = c THEN "none" ELSE conn[d]
        /\ Cardinality(Server!Held("thread"))' = Cardinality(Server!Held("thread"))
    BY <2>1, ThreadCount
  <2> QED BY <1>1, <2>1, <2>2 DEF ServerInv
<1>3. CASE Server!Request(c)
  BY <1>1, <1>3, SameThreads DEF Server!Request, ServerInv
<1>4. CASE Server!Finish(c)
  <2>1. /\ UNCHANGED pc /\ closed' = closed + 1
        /\ conn[c] = "thread" /\ conn' = [conn EXCEPT ![c] = "none"]
    BY <1>4 DEF Server!Finish, Server!Held
  <2>2. /\ conn' \in [Conns -> {"none", "backlog", "main", "thread"}]
        /\ \A d \in Conns : conn'[d] = IF d = c THEN "none" ELSE conn[d]
        /\ Cardinality(Server!Held("thread")) \in Nat
        /\ Cardinality(Server!Held("thread"))' = Cardinality(Server!Held("thread")) - 1
    BY <2>1, ThreadCount
  <2> QED BY <1>1, <2>1, <2>2 DEF ServerInv
<1>5. CASE Server!Connect(c)
  <2>1. /\ UNCHANGED <<pc, closed>>
        /\ conn[c] = "none" /\ conn' = [conn EXCEPT ![c] = "backlog"]
    BY <1>5 DEF Server!Connect, Server!Held
  <2>2. /\ conn' \in [Conns -> {"none", "backlog", "main", "thread"}]
        /\ \A d \in Conns : conn'[d] = IF d = c THEN "backlog" ELSE conn[d]
        /\ Cardinality(Server!Held("thread"))' = Cardinality(Server!Held("thread"))
    BY <2>1, ThreadCount
  <2> QED BY <1>1, <2>1, <2>2 DEF ServerInv
<1> QED BY <1>2, <1>3, <1>4, <1>5

LEMMA ServerNext == ServerInv /\ Server!Next => ServerInv'
  BY ServerQuiet, ServerCount, ServerAccept, ServerCreate, ServerOthers
  DEF Server!Next, Server!Main

LEMMA ServerIs == ServerInv => Server!Accounted
<1> SUFFICES ASSUME ServerInv PROVE Server!Accounted
  OBVIOUS
<1>1. Server!Held("lost") = {}
  BY DEF ServerInv, Server!Held
<1>2. Server!Held("main") = IF cfd = Server!NoConn THEN {} ELSE {cfd}
  <2>1. CASE pc \in {"count", "create"}
    BY <2>1, WorkersAssumption DEF ServerInv, Server!Held, Server!NoConn
  <2>2. CASE pc \notin {"count", "create"}
    BY <2>2, WorkersAssumption DEF ServerInv, Server!Held, Server!NoConn
  <2> QED BY <2>1, <2>2
<1>3. late <= 1
  BY DEF ServerInv
<1>4. conns = Server!Cardinality(Server!Held("thread")) + closed + aborted
                + (IF pc = "create" THEN 1 ELSE 0)
  BY SameCardinality DEF ServerInv
<1> QED BY <1>1, <1>2, <1>3, <1>4 DEF Server!Accounted

-----------------------------------------------------------------------------
(* pth-stk-test: threads and stacks *)

LEMMA SlotsFinite ==
  /\ IsFiniteSet(Stack!Slots) /\ Cardinality(Stack!Slots) = NT
  /\ \A T \in SUBSET Stack!Slots : IsFiniteSet(T) /\ Cardinality(T) \in Nat
<1>1. NT \in Int /\ NT >= 1
  BY WorkersAssumption
<1>2. IsFiniteSet(1 .. NT) /\ Cardinality(1 .. NT) = NT
  BY <1>1, FS_Interval
<1> QED BY <1>2, FS_Subset, FS_CardinalityType DEF Stack!Slots

\* What a change of one thread's state does to the slots that are Idle and to those
\* whose thread is not "none".
LEMMA ThreadChange ==
  ASSUME StackType, NEW i \in Stack!Slots, NEW s \in {"none", "runs", "listed", "ended"},
         thread' = [thread EXCEPT ![i] = s]
  PROVE  /\ thread' \in [Stack!Slots -> {"none", "runs", "listed", "ended"}]
         /\ Idle' = IF s \in {"listed", "ended"} THEN Idle \cup {i} ELSE Idle \ {i}
         /\ {j \in Stack!Slots : thread'[j] # "none"} =
              IF s # "none" THEN {j \in Stack!Slots : thread[j] # "none"} \cup {i}
              ELSE {j \in Stack!Slots : thread[j] # "none"} \ {i}
<1>1. thread \in [Stack!Slots -> {"none", "runs", "listed", "ended"}]
  BY DEF StackType
<1>2. /\ thread' \in [Stack!Slots -> {"none", "runs", "listed", "ended"}]
      /\ \A j \in Stack!Slots : thread'[j] = IF j = i THEN s ELSE thread[j]
  BY <1>1
<1>3. Stack!Slots' = Stack!Slots
  BY DEF Stack!Slots
<1>4. Idle' = {j \in Stack!Slots : thread'[j] \in {"listed", "ended"}}
  BY <1>3 DEF Idle
<1>5. CASE s \in {"listed", "ended"}
  BY <1>2, <1>4, <1>5 DEF Idle
<1>6. CASE s = "runs"
  BY <1>2, <1>4, <1>6 DEF Idle
<1>7. CASE s = "none"
  BY <1>2, <1>4, <1>7 DEF Idle
<1> QED BY <1>2, <1>5, <1>6, <1>7

LEMMA SameIdle == UNCHANGED thread => Idle' = Idle
  BY DEF Idle, Stack!Slots

LEMMA StackInit == Stack!Init => StackInv
<1> SUFFICES ASSUME Stack!Init PROVE StackInv
  OBVIOUS
<1>1. StackType
  <2>1. NT \in Nat \ {0}
    BY WorkersAssumption
  <2>2. thread \in [Stack!Slots -> {"none", "runs", "listed", "ended"}]
    BY DEF Stack!Init
  <2>3. tlst \in Seq(Stack!Slots) /\ next \in 1 .. NT + 1 /\ running \in Nat /\ completed \in Nat
    BY <2>1 DEF Stack!Init
  <2>4. signaled \in BOOLEAN /\ waited \in BOOLEAN
    BY DEF Stack!Init
  <2> QED BY <2>2, <2>3, <2>4 DEF StackType, Stack!Init
<1>2. \A i \in Stack!Slots : thread[i] = "none"
  BY DEF Stack!Init
<1>3. Idle = {} /\ {i \in Stack!Slots : thread[i] # "none"} = {}
  BY <1>2 DEF Idle
<1>4. Cardinality({}) = 0
  BY FS_EmptySet
<1>5. ListInv
  <2>1. tlst = <<>> /\ Len(tlst) = 0 /\ pc = "create"
    BY DEF Stack!Init
  <2>2. Len(tlst) + (IF pc = "join" THEN 1 ELSE 0) = Cardinality(Idle)
    BY <1>3, <1>4, <2>1
  <2> QED BY <2>1, <2>2 DEF ListInv, Once
<1>6. RunInv
  <2>1. /\ mapped = {} /\ running = 0 /\ completed = 0 /\ next = 1 /\ ~waited /\ pc = "create"
    BY DEF Stack!Init
  <2>2. 1 .. next - 1 = {} /\ next <= NT /\ completed + running <= NTTotal
    BY <2>1, WorkersAssumption
  <2> QED BY <1>3, <1>4, <2>1, <2>2 DEF RunInv
<1>7. WakeInv
  BY DEF Stack!Init, WakeInv
<1> QED BY <1>1, <1>5, <1>6, <1>7 DEF StackInv

\* The steps of main that change neither the list nor a thread
LEMMA StackQuiet ==
  ASSUME StackInv,
         Stack!Lock \/ Stack!Test \/ Stack!Wake \/ Stack!SpuriousWake \/ Stack!Fail
  PROVE  StackInv'
<1> USE DEF StackInv
<1>1. UNCHANGED <<next, th, running, completed, tlst, thread, mapped>>
  BY DEF Stack!Lock, Stack!Test, Stack!Wake, Stack!SpuriousWake, Stack!Fail
<1>2. Idle' = Idle /\ Stack!Slots' = Stack!Slots
  BY <1>1, SameIdle DEF Stack!Slots
<1>3. pc \in {"create", "lock", "test", "asleep", "drain", "join", "done", "failed"}
  BY DEF StackType
<1>4. CASE Stack!Lock
  <2>1. pc = "lock" /\ pc' = "test" /\ UNCHANGED <<signaled, waited>>
    BY <1>4 DEF Stack!Lock
  <2>2. StackType'
    BY <1>1, <1>2, <2>1 DEF StackType
  <2>3. ListInv'
    BY <1>1, <1>2, <2>1 DEF ListInv
  <2>4. RunInv'
    BY <1>1, <1>2, <2>1 DEF RunInv
  <2>5. WakeInv'
    BY <1>1, <2>1 DEF WakeInv
  <2> QED BY <2>2, <2>3, <2>4, <2>5
<1>5. CASE Stack!Test
  <2>1. /\ pc = "test" /\ pc' \in {"asleep", "done"} /\ UNCHANGED <<signaled, waited>>
        /\ pc' = "asleep" => running > 0
        /\ pc' = "done" => ~(running > 0)
    BY <1>5 DEF Stack!Test
  <2>2. StackType'
    BY <1>1, <1>2, <2>1 DEF StackType
  <2>3. ListInv'
    BY <1>1, <1>2, <2>1 DEF ListInv
  <2>4. pc' = "done" => running = 0
    BY <2>1 DEF StackType
  <2>5. RunInv'
    BY <1>1, <1>2, <2>1, <2>4 DEF RunInv
  <2>6. WakeInv'
    BY <1>1, <2>1 DEF WakeInv
  <2> QED BY <2>2, <2>3, <2>5, <2>6
<1>6. CASE Stack!Wake \/ Stack!SpuriousWake
  <2>1. pc = "asleep" /\ pc' = "drain" /\ waited' = TRUE /\ signaled' \in BOOLEAN
    BY <1>6 DEF Stack!Wake, Stack!SpuriousWake, StackType
  <2>2. StackType'
    BY <1>1, <1>2, <2>1 DEF StackType
  <2>3. ListInv'
    BY <1>1, <1>2, <2>1 DEF ListInv
  <2>4. RunInv'
    BY <1>1, <1>2, <2>1 DEF RunInv
  <2>5. WakeInv'
    BY <1>1, <2>1 DEF WakeInv
  <2> QED BY <2>2, <2>3, <2>4, <2>5
<1>7. CASE Stack!Fail
  <2>1. pc' = "failed" /\ UNCHANGED <<signaled, waited>>
    BY <1>7 DEF Stack!Fail
  <2>2. StackType'
    BY <1>1, <1>2, <2>1 DEF StackType
  <2>3. ListInv'
    BY <1>1, <1>2, <2>1 DEF ListInv
  <2>4. RunInv'
    BY <1>1, <1>2, <2>1 DEF RunInv
  <2>5. WakeInv'
    BY <1>1, <2>1 DEF WakeInv
  <2> QED BY <2>2, <2>3, <2>4, <2>5
<1> QED BY <1>4, <1>5, <1>6, <1>7

\* A thread's critical section
LEMMA StackLeave ==
  ASSUME StackInv, NEW i \in Stack!Slots, Stack!Leave(i)
  PROVE  StackInv'
<1> USE DEF StackInv
<1>1. /\ thread[i] = "runs" /\ pc \in {"create", "lock", "asleep", "done"}
      /\ tlst' = <<i>> \o tlst
      /\ signaled' = (signaled \/ pc = "asleep")
      /\ thread' = [thread EXCEPT ![i] = "listed"]
      /\ UNCHANGED <<pc, next, th, running, completed, mapped, waited>>
  BY DEF Stack!Leave, Stack!MtxFree, Stack!Signal
<1>2. /\ thread' \in [Stack!Slots -> {"none", "runs", "listed", "ended"}]
      /\ Idle' = Idle \cup {i}
      /\ {j \in Stack!Slots : thread'[j] # "none"} =
           {j \in Stack!Slots : thread[j] # "none"} \cup {i}
  BY <1>1, ThreadChange
<1>3. i \notin Idle /\ i \in {j \in Stack!Slots : thread[j] # "none"} /\ Stack!Slots' = Stack!Slots
  BY <1>1 DEF Idle, Stack!Slots
<1>4. tlst \in Seq(Stack!Slots) /\ Once(tlst, Idle)
  BY DEF StackType, ListInv
<1>5. /\ tlst' \in Seq(Stack!Slots) /\ Len(tlst) \in Nat /\ Len(tlst') = Len(tlst) + 1
      /\ tlst' # <<>>
      /\ Once(tlst', Idle \cup {i})
  BY <1>1, <1>3, <1>4, OncePushed
<1>6. IsFiniteSet(Idle) /\ Cardinality(Idle) \in Nat
  BY SlotsFinite DEF Idle
<1>7. Cardinality(Idle') = Cardinality(Idle) + 1
  BY <1>2, <1>3, <1>6, FS_AddElement
<1>8. signaled' \in BOOLEAN /\ (pc = "asleep" => signaled')
  BY <1>1 DEF StackType
<1>9. StackType'
  BY <1>1, <1>2, <1>3, <1>5, <1>8 DEF StackType
<1>10. ListInv'
  <2>1. Len(tlst) + 0 = Cardinality(Idle)
    BY <1>1 DEF ListInv
  <2>2. Len(tlst') + 0 = Cardinality(Idle')
    BY <1>5, <1>6, <1>7, <2>1
  <2> QED BY <1>1, <1>2, <1>5, <2>2 DEF ListInv
<1>11. RunInv'
  <2>1. mapped' = {j \in Stack!Slots : thread'[j] # "none"}
    BY <1>1, <1>2, <1>3 DEF RunInv
  <2> QED BY <1>1, <1>3, <2>1 DEF RunInv
<1>12. WakeInv'
  BY <1>1, <1>8 DEF WakeInv
<1> QED BY <1>9, <1>10, <1>11, <1>12

LEMMA StackReturn ==
  ASSUME StackInv, NEW i \in Stack!Slots, Stack!Return(i)
  PROVE  StackInv'
<1> USE DEF StackInv
<1>1. /\ thread[i] = "listed"
      /\ thread' = [thread EXCEPT ![i] = "ended"]
      /\ UNCHANGED <<pc, next, th, running, completed, tlst, mapped, signaled, waited>>
  BY DEF Stack!Return
<1>2. /\ thread' \in [Stack!Slots -> {"none", "runs", "listed", "ended"}]
      /\ Idle' = Idle \cup {i}
      /\ {j \in Stack!Slots : thread'[j] # "none"} =
           {j \in Stack!Slots : thread[j] # "none"} \cup {i}
  BY <1>1, ThreadChange
<1>3. /\ Idle' = Idle /\ Stack!Slots' = Stack!Slots
      /\ {j \in Stack!Slots : thread'[j] # "none"} = {j \in Stack!Slots : thread[j] # "none"}
  BY <1>1, <1>2 DEF Idle, Stack!Slots
<1>4. StackType'
  BY <1>1, <1>2, <1>3 DEF StackType
<1>5. ListInv'
  BY <1>1, <1>3 DEF ListInv
<1>6. RunInv'
  <2>1. mapped' = {j \in Stack!Slots : thread'[j] # "none"}
    BY <1>1, <1>3 DEF RunInv
  <2> QED BY <1>1, <1>3, <2>1 DEF RunInv
<1>7. WakeInv'
  BY <1>1 DEF WakeInv
<1> QED BY <1>4, <1>5, <1>6, <1>7

LEMMA StackCreate ==
  ASSUME StackInv, Stack!Create
  PROVE  StackInv'
<1> USE DEF StackInv
<1>1. /\ pc = "create" /\ mapped' = mapped \cup {next}
      /\ thread' = [thread EXCEPT ![next] = "runs"]
      /\ running' = running + 1 /\ next' = next + 1
      /\ pc' = (IF next = NT THEN "lock" ELSE "create")
      /\ UNCHANGED <<th, completed, tlst, signaled, waited>>
  BY DEF Stack!Create
<1>2. ~waited /\ next <= NT /\ completed = 0 /\ mapped = 1 .. next - 1
  BY <1>1 DEF RunInv
<1>3. NT \in Nat /\ next \in Nat /\ next >= 1 /\ NTTotal \in Nat /\ NT <= NTTotal
  BY WorkersAssumption DEF StackType
<1>4. next \in Stack!Slots /\ next \notin mapped /\ Stack!Slots' = Stack!Slots
  BY <1>2, <1>3 DEF Stack!Slots
<1>5. thread[next] = "none" /\ next \notin Idle
  BY <1>4 DEF RunInv, Idle
<1>6. /\ thread' \in [Stack!Slots -> {"none", "runs", "listed", "ended"}]
      /\ Idle' = Idle \ {next}
      /\ {j \in Stack!Slots : thread'[j] # "none"} =
           {j \in Stack!Slots : thread[j] # "none"} \cup {next}
  BY <1>1, <1>4, ThreadChange
<1>7. Idle' = Idle
  BY <1>5, <1>6
<1>8. mapped' = 1 .. next
  BY <1>1, <1>2, <1>3
<1>9. Cardinality(mapped') = next
  BY <1>3, <1>8, FS_Interval
<1>10. running = next - 1
  <2>1. Cardinality(1 .. next - 1) = next - 1
    BY <1>3, FS_Interval
  <2> QED BY <1>2, <2>1 DEF RunInv
<1>11. StackType'
  <2>1. next' \in 1 .. NT + 1 /\ running' \in Nat
    BY <1>1, <1>2, <1>3, <1>10
  <2> QED BY <1>1, <1>4, <1>6, <2>1 DEF StackType
<1>12. ListInv'
  BY <1>1, <1>7 DEF ListInv
<1>13. RunInv'
  <2>1. mapped' = {j \in Stack!Slots : thread'[j] # "none"}
    BY <1>1, <1>6 DEF RunInv
  <2>2. running' = Cardinality(mapped') /\ mapped' = 1 .. next' - 1
    BY <1>1, <1>3, <1>8, <1>9, <1>10
  <2>3. completed' + running' <= NTTotal
    BY <1>1, <1>2, <1>3, <1>10
  <2>4. pc' = "create" => next' <= NT
    BY <1>1, <1>2, <1>3
  <2>5. pc' = "lock" => next' = NT + 1 /\ running' = NT
    BY <1>1, <1>3, <1>10
  <2>6. pc' \in {"lock", "create"}
    BY <1>1
  <2> QED BY <1>1, <1>2, <1>4, <2>1, <2>2, <2>3, <2>4, <2>5, <2>6 DEF RunInv
<1>14. WakeInv'
  BY <1>1, <1>2 DEF WakeInv
<1> QED BY <1>11, <1>12, <1>13, <1>14

LEMMA StackDrain ==
  ASSUME StackInv, Stack!Drain
  PROVE  StackInv'
<1> USE DEF StackInv
<1>1. pc = "drain" /\ UNCHANGED <<next, running, completed, thread, mapped, signaled, waited>>
  BY DEF Stack!Drain
<1>2. Idle' = Idle /\ Stack!Slots' = Stack!Slots
  BY <1>1, SameIdle DEF Stack!Slots
<1>3. CASE tlst = <<>>
  <2>1. pc' = "test" /\ UNCHANGED <<th, tlst>>
    BY <1>3 DEF Stack!Drain
  <2>2. StackType'
    BY <1>1, <1>2, <2>1 DEF StackType
  <2>3. ListInv'
    BY <1>1, <1>2, <2>1 DEF ListInv
  <2>4. RunInv'
    BY <1>1, <1>2, <2>1 DEF RunInv
  <2>5. WakeInv'
    BY <1>1, <1>3, <2>1 DEF WakeInv
  <2> QED BY <2>2, <2>3, <2>4, <2>5
<1>4. CASE tlst # <<>>
  <2>1. pc' = "join" /\ th' = Head(tlst) /\ tlst' = Tail(tlst)
    BY <1>4 DEF Stack!Drain
  <2>2. tlst \in Seq(Stack!Slots) /\ Once(tlst, Idle) /\ Len(tlst) + 0 = Cardinality(Idle)
    BY <1>1 DEF StackType, ListInv
  <2>3. /\ th' \in Idle
        /\ tlst' \in Seq(Stack!Slots) /\ Len(tlst) \in Nat /\ Len(tlst') = Len(tlst) - 1
        /\ Once(tlst', Idle) /\ \A k \in 1 .. Len(tlst') : tlst'[k] # th'
    BY <1>4, <2>1, <2>2, OncePopped
  <2>4. Len(tlst') + 1 = Cardinality(Idle)
    BY <2>2, <2>3
  <2>5. StackType'
    BY <1>1, <1>2, <2>1, <2>3 DEF StackType
  <2>6. ListInv'
    BY <1>2, <2>1, <2>3, <2>4 DEF ListInv
  <2>7. RunInv'
    BY <1>1, <1>2, <2>1 DEF RunInv
  <2>8. WakeInv'
    BY <1>1, <2>1 DEF WakeInv
  <2> QED BY <2>5, <2>6, <2>7, <2>8
<1> QED BY <1>3, <1>4

LEMMA StackJoin ==
  ASSUME StackInv, Stack!Join
  PROVE  StackInv'
<1> USE DEF StackInv
<1>1. /\ pc = "join" /\ thread[th] = "ended" /\ pc' = "drain"
      /\ completed' = completed + 1
      /\ UNCHANGED <<next, th, tlst, signaled, waited>>
  BY DEF Stack!Join, Stack!Joinable, Stack!AfterJoin
<1>2. /\ th \in Idle /\ th \in Stack!Slots /\ Once(tlst, Idle)
      /\ \A k \in 1 .. Len(tlst) : tlst[k] # th
      /\ Len(tlst) + 1 = Cardinality(Idle)
  BY <1>1 DEF ListInv, Idle
<1>3. Once(tlst, Idle \ {th})
  BY <1>2, OnceLess
<1>4. Cardinality(Idle \ {th}) = Cardinality(Idle) - 1 /\ Cardinality(Idle) \in Nat
  <2>1. IsFiniteSet(Idle) /\ Cardinality(Idle) \in Nat
    BY SlotsFinite DEF Idle
  <2> QED BY <1>2, <2>1, FS_RemoveElement
<1>5. Len(tlst) \in Nat /\ Len(tlst) = Cardinality(Idle \ {th})
  <2>1. Len(tlst) \in Nat
    BY DEF StackType
  <2> QED BY <1>2, <1>4, <2>1
<1>6. /\ th \in mapped /\ mapped \subseteq Stack!Slots /\ running = Cardinality(mapped)
      /\ mapped = {j \in Stack!Slots : thread[j] # "none"}
      /\ next = NT + 1 /\ (running = NT \/ completed + running = NTTotal)
      /\ completed + running <= NTTotal /\ waited
      /\ running \in Nat /\ completed \in Nat /\ NTTotal \in Nat /\ NT \in Nat
  BY <1>1, <1>2, WorkersAssumption DEF RunInv, WakeInv, StackType
<1>7. Stack!Slots' = Stack!Slots
  BY DEF Stack!Slots
<1>8. CASE completed + 1 + (running - 1) < NTTotal
  <2>1. thread' = [thread EXCEPT ![th] = "runs"] /\ UNCHANGED <<running, mapped>>
    BY <1>8 DEF Stack!Join, Stack!Again
  <2>2. /\ thread' \in [Stack!Slots -> {"none", "runs", "listed", "ended"}]
        /\ Idle' = Idle \ {th}
        /\ {j \in Stack!Slots : thread'[j] # "none"} =
             {j \in Stack!Slots : thread[j] # "none"} \cup {th}
    BY <1>2, <2>1, ThreadChange
  <2>3. mapped' = {j \in Stack!Slots : thread'[j] # "none"}
    BY <1>6, <2>1, <2>2
  <2>4. /\ completed' \in Nat /\ completed' + running' <= NTTotal /\ running' = NT
    <3>1. completed' = completed + 1 /\ running' = running
      BY <1>1, <2>1
    <3>2. /\ running \in Nat /\ completed \in Nat /\ NTTotal \in Nat
          /\ running = NT \/ completed + running = NTTotal
      BY <1>6
    <3> QED BY <1>8, <3>1, <3>2
  <2>5. StackType'
    BY <1>1, <1>7, <2>1, <2>2, <2>4 DEF StackType
  <2>6. ListInv'
    BY <1>1, <1>3, <1>5, <2>2 DEF ListInv
  <2>7. RunInv'
    BY <1>1, <1>6, <1>7, <2>1, <2>3, <2>4 DEF RunInv
  <2>8. WakeInv'
    BY <1>1, <1>6 DEF WakeInv
  <2> QED BY <2>5, <2>6, <2>7, <2>8
<1>9. CASE ~(completed + 1 + (running - 1) < NTTotal)
  <2>1. /\ thread' = [thread EXCEPT ![th] = "none"] /\ running' = running - 1
        /\ mapped' = mapped \ {th}
    BY <1>1, <1>9 DEF Stack!Join, Stack!Again
  <2>2. /\ thread' \in [Stack!Slots -> {"none", "runs", "listed", "ended"}]
        /\ Idle' = Idle \ {th}
        /\ {j \in Stack!Slots : thread'[j] # "none"} =
             {j \in Stack!Slots : thread[j] # "none"} \ {th}
    BY <1>2, <2>1, ThreadChange
  <2>3. mapped' = {j \in Stack!Slots : thread'[j] # "none"}
    BY <1>6, <2>1, <2>2
  <2>4. Cardinality(mapped') = running - 1 /\ running - 1 \in Nat
    <3>1. IsFiniteSet(mapped) /\ IsFiniteSet(mapped \ {th})
      BY <1>6, SlotsFinite, FS_RemoveElement
    <3>2. Cardinality(mapped \ {th}) = Cardinality(mapped) - 1
      BY <1>6, <3>1, FS_RemoveElement
    <3>3. Cardinality(mapped \ {th}) \in Nat
      BY <3>1, FS_CardinalityType
    <3> QED BY <1>6, <2>1, <3>2, <3>3
  <2>5. /\ completed' \in Nat /\ running' \in Nat /\ completed' + running' = NTTotal
    BY <1>1, <1>6, <1>9, <2>1, <2>4
  <2>6. StackType'
    BY <1>1, <1>7, <2>2, <2>5 DEF StackType
  <2>7. ListInv'
    BY <1>1, <1>3, <1>5, <2>2 DEF ListInv
  <2>8. completed' + running' <= NTTotal
    <3>1. NTTotal \in Nat
      BY WorkersAssumption
    <3>2. NTTotal <= NTTotal
      BY <3>1
    <3> QED BY <2>5, <3>2, Zenon
  <2>9. RunInv'
    BY <1>1, <1>6, <1>7, <2>1, <2>3, <2>4, <2>5, <2>8 DEF RunInv
  <2>10. WakeInv'
    BY <1>1, <1>6 DEF WakeInv
  <2> QED BY <2>6, <2>7, <2>9, <2>10
<1> QED BY <1>8, <1>9

LEMMA StackNext == StackInv /\ Stack!Next => StackInv'
  BY StackQuiet, StackLeave, StackReturn, StackCreate, StackDrain, StackJoin
  DEF Stack!Next, Stack!Main

\* main asleep: with tlst empty no thread can have ended, and until main has
\* waited once no slot can have been joined.
LEMMA StackIs == StackInv => Stack!Accounted /\ Stack!LostOnlyBeforeFirstWait
<1> SUFFICES ASSUME StackInv PROVE Stack!Accounted /\ Stack!LostOnlyBeforeFirstWait
  OBVIOUS
<1> USE DEF StackInv
<1>1. mapped = {j \in Stack!Slots : thread[j] # "none"} /\ running = Cardinality(mapped)
  BY DEF RunInv
<1>2. IsFiniteSet(mapped) /\ IsFiniteSet(Idle)
  BY <1>1, SlotsFinite DEF Idle
<1>3. \A i \in Stack!Slots : thread[i] \in {"runs", "listed"} => i \in mapped
  BY <1>1
<1>4. pc = "done" => completed = NTTotal /\ running = 0 /\ mapped = {}
  <2> SUFFICES ASSUME pc = "done" PROVE completed = NTTotal /\ running = 0 /\ mapped = {}
    OBVIOUS
  <2>1. running = 0 /\ (running = NT \/ completed + running = NTTotal)
    BY DEF RunInv
  <2>2. completed \in Nat /\ NT \in Nat \ {0}
    BY WorkersAssumption DEF StackType
  <2>3. mapped = {}
    BY <1>1, <1>2, <2>1, FS_EmptySet
  <2> QED BY <2>1, <2>2, <2>3
<1>5. ASSUME pc = "asleep", ~signaled, \A i \in Stack!Slots : thread[i] # "runs"
      PROVE  ~waited /\ Len(tlst) = NT
  <2>1. running > 0 /\ (waited => tlst = <<>>)
    BY <1>5 DEF WakeInv
  <2>2. Len(tlst) + 0 = Cardinality(Idle) /\ Len(tlst) \in Nat
    BY <1>5 DEF ListInv, StackType
  <2>3. Idle = mapped
    <3>1. thread \in [Stack!Slots -> {"none", "runs", "listed", "ended"}]
      BY DEF StackType
    <3> QED BY <1>1, <1>5, <3>1 DEF Idle
  <2>4. Len(tlst) = running
    BY <1>1, <2>2, <2>3
  <2>5. ~waited
    <3>1. SUFFICES ASSUME waited PROVE FALSE
      OBVIOUS
    <3>2. Len(tlst) = 0
      BY <2>1, <3>1
    <3> QED BY <2>1, <2>4, <3>2
  <2>6. next = NT + 1 /\ mapped = 1 .. next - 1
    BY <1>5, <2>5 DEF RunInv
  <2>7. mapped = Stack!Slots
    BY <2>6, WorkersAssumption DEF Stack!Slots
  <2>8. running = NT
    BY <1>1, <2>7, SlotsFinite
  <2> QED BY <2>4, <2>5, <2>8
<1> QED BY <1>3, <1>4, <1>5 DEF Stack!Accounted, Stack!LostOnlyBeforeFirstWait

-----------------------------------------------------------------------------
(* The programs side by side *)

LEMMA Apart ==
  /\ Server!Programs \cap Stack!Programs = {} /\ Server!Programs \cap Load!Programs = {}
  /\ Stack!Programs \cap Load!Programs = {}
BY DEF Server!Programs, Stack!Programs, Load!Programs

LEMMA SamePrograms ==
  /\ Server!Programs' = Server!Programs /\ Stack!Programs' = Stack!Programs
  /\ Load!Programs' = Load!Programs
BY DEF Server!Programs, Stack!Programs, Load!Programs

LEMMA SameProgram == Next => program' = program
<1>1. Server!Next => program' = program
  BY DEF Server!Next, Server!Main, Server!Test, Server!Accept, Server!Count, Server!Create,
         Server!Exit, Server!CreateFail, Server!SigInt, Server!AcceptFail, Server!Request,
         Server!Finish, Server!Connect
<1>2. Stack!Next => program' = program
  BY DEF Stack!Next, Stack!Main, Stack!Create, Stack!Lock, Stack!Test, Stack!Wake,
         Stack!Drain, Stack!Join, Stack!SpuriousWake, Stack!Fail, Stack!Leave, Stack!Return
<1>3. Load!Next => program' = program
  BY DEF Load!Next, Load!Main, Load!PipeFail, Load!Fork, Load!ForkFail, Load!Waitpid,
         Load!WaitpidAny, Load!WaitpidNone, Load!Read, Load!Child, Load!Pass, Load!Write,
         Load!Exit, Load!sig_int, Load!Kill
<1> QED BY <1>1, <1>2, <1>3 DEF Next, InServer, InStack, InLoad

LEMMA InitEInv == Init => EInv
<1>1. ASSUME Server!Init PROVE EInv
  BY <1>1, ServerInit, Apart DEF EInv, Server!Init
<1>2. ASSUME Stack!Init PROVE EInv
  BY <1>2, StackInit, Apart DEF EInv, Stack!Init
<1>3. ASSUME Load!Init PROVE EInv
  BY <1>3, LoadInit, Apart DEF EInv, Load!Init
<1> QED BY <1>1, <1>2, <1>3 DEF Init

LEMMA NextEInv == EInv /\ [Next]_vars => EInv'
<1>1. ASSUME EInv, InServer(Server!Next) PROVE EInv'
  <2>1. program' = program /\ program \in Server!Programs
    BY <1>1, SameProgram DEF Next, InServer
  <2>2. ServerInv'
    BY <1>1, ServerNext DEF EInv, InServer
  <2> QED BY <2>1, <2>2, Apart, SamePrograms DEF EInv
<1>2. ASSUME EInv, InStack(Stack!Next) PROVE EInv'
  <2>1. program' = program /\ program \in Stack!Programs
    BY <1>2, SameProgram DEF Next, InStack
  <2>2. StackInv'
    BY <1>2, StackNext DEF EInv, InStack
  <2> QED BY <2>1, <2>2, Apart, SamePrograms DEF EInv
<1>3. ASSUME EInv, InLoad(Load!Next) PROVE EInv'
  <2>1. program' = program /\ program \in Load!Programs
    BY <1>3, SameProgram DEF Next, InLoad
  <2>2. LoadInv'
    BY <1>3, LoadNext DEF EInv, InLoad
  <2> QED BY <2>1, <2>2, Apart, SamePrograms DEF EInv
<1>4. ASSUME EInv, UNCHANGED vars PROVE EInv'
  <2>1. UNCHANGED <<program, pc, server, stack, load>>
    BY <1>4 DEF vars
  <2>2. ServerInv => ServerInv'
    BY <2>1, SameThreads DEF server, ServerInv, Server!NoConn
  <2>3. StackInv => StackInv'
    <3>1. UNCHANGED <<pc, stack>>
      BY <2>1
    <3>2. Idle' = Idle /\ Stack!Slots' = Stack!Slots
      BY <3>1, SameIdle DEF stack, Stack!Slots
    <3>3. StackType => StackType'
      BY <3>1, <3>2 DEF stack, StackType
    <3>4. ListInv => ListInv'
      BY <3>1, <3>2 DEF stack, ListInv
    <3>5. RunInv => RunInv'
      BY <3>1, <3>2 DEF stack, RunInv
    <3>6. WakeInv => WakeInv'
      BY <3>1 DEF stack, WakeInv
    <3> QED BY <3>3, <3>4, <3>5, <3>6 DEF StackInv
  <2>4. LoadInv => LoadInv'
    <3> SUFFICES ASSUME LoadInv PROVE LoadInv'
      OBVIOUS
    <3>1. UNCHANGED <<pc, at, pids, kid, pipe, time, killed>>
      BY <2>1 DEF load
    <3>2. LoadType /\ MainInv
      BY DEF LoadInv
    <3>3. /\ PipeInv' /\ LoadType' /\ Load!Lost' = Load!Lost
          /\ \A c \in Load!Kids : Gathered(c)' <=> Gathered(c)
      BY <3>1, <3>2, LoadSame DEF LoadType
    <3>4. MainInv'
      BY <3>1, <3>2, <3>3, SameKids DEF MainInv, Before, Gathered
    <3> QED BY <3>3, <3>4 DEF LoadInv
  <2> QED BY <1>4, <2>1, <2>2, <2>3, <2>4, SamePrograms DEF EInv
<1> QED BY <1>1, <1>2, <1>3, <1>4 DEF Next

\* The invariants of the three programs, for any connections, slots, threads and tasks.
THEOREM Invariance == Spec => []EInv
<1> QED BY InitEInv, NextEInv, PTL DEF Spec

\* main is blocked for good in no other cases than these: all of pth-stk-test's first
\* threads ended before its first pthread_cond_wait, or a child of sload was killed or
\* could not be forked, so that nobody writes the report main reads.
THEOREM OnlyLossBlocks == Spec => []BlockedOnlyByLoss
<1>1. EInv => BlockedOnlyByLoss
  BY StackIs, LoadIs DEF EInv, BlockedOnlyByLoss
<1> QED BY <1>1, Invariance, PTL

\* No connection of thrhttp is lost between accept(), the counter and the thread; no
\* stack of pth-stk-test is unmapped under its thread and nt_total threads have run
\* when it is done; sload prints its total only when every child was forked, wrote its
\* report and was reaped.
THEOREM NoWorkerLost ==
  Spec => [](/\ program \in Server!Programs => Server!Accounted
             /\ program \in Stack!Programs => Stack!Accounted
             /\ program \in Load!Programs /\ pc = "exit 0" => Load!Lost = {})
<1>1. EInv => /\ program \in Server!Programs => Server!Accounted
              /\ program \in Stack!Programs => Stack!Accounted
              /\ program \in Load!Programs /\ pc = "exit 0" => Load!Lost = {}
  BY ServerIs, StackIs, LoadIs DEF EInv
<1> QED BY <1>1, Invariance, PTL
=============================================================================
