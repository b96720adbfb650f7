------------------------ MODULE SyntaxRuntimeProofs ------------------------
(* The threads beside a view.  Highlighting, for any rows, limits and number *)
(* of workers: work is never queued while every worker sleeps, a              *)
(* generation's bookkeeping is never mixed with another's, and the books of  *)
(* queue and view stay exact.  The terminal, for a channel of any size and   *)
(* any number of keys, reports and failures: its modes are where they belong *)
(* and what the person does reaches whom it was meant for.                    *)
EXTENDS Threads, FiniteSetTheorems, WellFoundedInduction, TLAPS

(* After any notification at least one worker is awake. *)
LEMMA WakeOne ==
  ASSUME NotifyOne
  PROVE  Waiting' # Workers
<1>1. CASE Waiting = {}
  <2>1. Waiting' = {}
    BY <1>1 DEF NotifyOne, Waiting
  <2> QED  BY <2>1, LimitsAssumption
<1>2. CASE Waiting # {}
  <2>1. PICK w \in Waiting : worker' = Wake({w})
    BY <1>2 DEF NotifyOne
  <2>2. w \in Workers /\ worker'[w] = [pc |-> "pop"]
    BY <2>1 DEF Wake, Waiting
  <2> QED  BY <2>2 DEF Waiting
<1> QED  BY <1>1, <1>2

LEMMA WakeEveryone ==
  ASSUME worker' = Wake(Waiting)
  PROVE  Waiting' # Workers
<1>1. Waiting' = {}
  BY DEF Wake, Waiting
<1> QED  BY <1>1, LimitsAssumption

(* Asking for a row leaves the queue and the workers alone or signals. *)
Signalled == UNCHANGED <<queue, worker>> \/ NotifyOne

LEMMA QueueJobSignals ==
  ASSUME NEW row, NEW key, NEW class, QueueJob(row, key, class)
  PROVE  Signalled
BY DEF QueueJob, AlreadyRequested, Promote, Signalled

LEMMA AskRowSignals ==
  ASSUME AskRow
  PROVE  Signalled
<1>1. PICK row, class : QueueFullFile(row, class) \/ QueueHunk(row, class)
  BY DEF AskRow
<1>2. CASE QueueFullFile(row, class)
  <2>1. QueueJob(row, Full(Rows[row].file), class) \/ UNCHANGED <<queue, worker>>
    BY <1>2 DEF QueueFullFile
  <2> QED  BY <2>1, QueueJobSignals DEF Signalled
<1>3. CASE QueueHunk(row, class)
  <2>1. \/ UNCHANGED <<queue, worker>>
        \/ AlreadyRequested(keyOf[row], class)
        \/ QueueJob(row, Full(Rows[row].file), class)
        \/ QueueJob(row, Hunk(row), class)
    BY <1>3, Zenon DEF QueueHunk, Skip
  <2>2. AlreadyRequested(keyOf[row], class) => Signalled
    BY DEF AlreadyRequested, Promote, Signalled
  <2> QED  BY <2>1, <2>2, QueueJobSignals DEF Signalled
<1> QED  BY <1>1, <1>2, <1>3

IInv == SomeoneIsAwake /\ DOMAIN worker = Workers

(* The condition variable loses no wake-up: queued work always has a worker  *)
(* that is not asleep, so the queue never stands still.                      *)
THEOREM QueueNeverStalls == Spec => []SomeoneIsAwake
<1>1. Init => IInv
  BY LimitsAssumption DEF Init, IInv, SomeoneIsAwake, Waiting
<1>2. ASSUME IInv, [Next]_vars
      PROVE  IInv'
  <2>1. ASSUME UNCHANGED <<queue, worker>>
        PROVE  IInv'
    BY <1>2, <2>1 DEF IInv, SomeoneIsAwake, Waiting, Depth
  <2>2. ASSUME NEW w \in Workers, NEW new, worker' = [worker EXCEPT ![w] = new],
               new.pc # "waiting"
        PROVE  IInv'
    <3>1. w \notin Waiting' /\ DOMAIN worker' = Workers
      BY <1>2, <2>2 DEF IInv, Waiting
    <3> QED  BY <3>1 DEF IInv, SomeoneIsAwake
  <2>3. CASE AskRow
    <3>1. DOMAIN worker' = Workers
      BY <1>2, <2>3, AskRowSignals DEF Signalled, NotifyOne, Wake, IInv
    <3> QED  BY <2>1, <2>3, <3>1, AskRowSignals, WakeOne DEF Signalled, IInv, SomeoneIsAwake
  <2>4. CASE Reload \/ DropQueue
    <3>1. worker' = Wake(Waiting)
      BY <2>4 DEF Reload, SetGeneration, DropQueue, CloseQueue
    <3>2. DOMAIN worker' = Workers
      BY <3>1 DEF Wake
    <3> QED  BY <3>1, <3>2, WakeEveryone DEF IInv, SomeoneIsAwake
  <2>5. CASE StartFrame \/ Paint \/ DrainResult \/ Scroll \/ DropStart \/ Joined \/ UNCHANGED vars
    BY <2>1, <2>5 DEF StartFrame, Paint, DrainResult, Scroll, DropStart, Joined, vars
  <2>6. ASSUME NEW w \in Workers, Pop(w)
        PROVE  IInv'
    <3>1. CASE PopEnds(w)
      <4>1. [pc |-> "exited"].pc # "waiting"
        OBVIOUS
      <4> QED  BY <2>2, <3>1, <4>1 DEF PopEnds
    <3>2. CASE PopWaits(w)
      <4>1. Depth(queue)' = 0
        <5>1. Depth(queue) = 0 /\ queue' = queue
          BY <3>2 DEF PopWaits
        <5> QED  BY <5>1 DEF Depth
      <4>2. DOMAIN worker' = Workers
        BY <1>2, <3>2 DEF PopWaits, IInv
      <4> QED  BY <4>1, <4>2 DEF IInv, SomeoneIsAwake
    <3>3. ASSUME NEW class, PopTakes(w, class)
          PROVE  IInv'
      <4> DEFINE new == [pc |-> "run", key |-> Head(queue[class]).key]
      <4>1. new.pc # "waiting"
        OBVIOUS
      <4>2. worker' = worker \/ worker' = [worker EXCEPT ![w] = new]
        BY <3>3 DEF PopTakes
      <4>3. CASE worker' = worker
        <5>1. w \notin Waiting /\ Waiting' = Waiting
          BY <2>6, <4>3 DEF Pop, Waiting
        <5> QED  BY <1>2, <4>3, <5>1 DEF IInv, SomeoneIsAwake
      <4> HIDE DEF new
      <4> QED  BY <2>2, <4>1, <4>2, <4>3
    <3> QED  BY <2>6, <3>1, <3>2, <3>3 DEF Pop
  <2>7. ASSUME NEW w \in Workers, Run(w) \/ Send(w)
        PROVE  IInv'
    <3>1. \E new : new.pc # "waiting" /\ worker' = [worker EXCEPT ![w] = new]
      BY <2>7 DEF Run, Send
    <3> QED  BY <2>2, <3>1
  <2> QED
    BY <1>2, <2>3, <2>4, <2>5, <2>6, <2>7 DEF Next, UiLoop, Dropping, WorkerStep
<1> QED  BY <1>1, <1>2, PTL DEF Spec, IInv

(* Every operation of the queue but set_generation keeps its generation.     *)
QueueFields == {"generation", "visible", "prefetch", "bytes", "closed"}
SameGeneration == queue'.generation = queue.generation /\ DOMAIN queue' = DOMAIN queue

(* What asking for a row adds to pending is of the current generation.       *)
AddsCurrent == \A key \in pending' : key \in pending \/ key.gen = generation

LEMMA QueueJobGeneration ==
  ASSUME DOMAIN queue = QueueFields, NEW row, NEW key, NEW class, key.gen = generation,
         QueueJob(row, key, class)
  PROVE  SameGeneration /\ AddsCurrent
<1>1. CASE AlreadyRequested(key, class)
  BY <1>1 DEF AlreadyRequested, Promote, SameGeneration, AddsCurrent, QueueFields
<1>2. ASSUME NEW job, queue' = Pushed(job, class), pending' = PendingAfterPush(key, Pushed(job, class))
      PROVE  SameGeneration /\ AddsCurrent
  <2>1. SameGeneration
    BY <1>2 DEF Pushed, SameGeneration, QueueFields
  <2>2. AddsCurrent
    BY <1>2 DEF PendingAfterPush, AddsCurrent
  <2> QED  BY <2>1, <2>2
<1>3. CASE UNCHANGED <<queue, pending>>
  BY <1>3 DEF SameGeneration, AddsCurrent
<1> QED  BY <1>1, <1>2, <1>3 DEF QueueJob

LEMMA AskRowGeneration ==
  ASSUME DOMAIN queue = QueueFields, AskRow
  PROVE  SameGeneration /\ AddsCurrent
<1>1. PICK row, class : QueueFullFile(row, class) \/ QueueHunk(row, class)
  BY DEF AskRow
<1>2. Full(Rows[row].file).gen = generation /\ Hunk(row).gen = generation
  BY DEF Full, Hunk
<1>3. \/ UNCHANGED <<queue, pending>>
      \/ AlreadyRequested(keyOf[row], class)
      \/ QueueJob(row, Full(Rows[row].file), class)
      \/ QueueJob(row, Hunk(row), class)
  BY <1>1 DEF QueueFullFile, QueueHunk, Skip
<1>4. CASE UNCHANGED <<queue, pending>>
  BY <1>4 DEF SameGeneration, AddsCurrent
<1>5. CASE AlreadyRequested(keyOf[row], class)
  BY <1>5 DEF AlreadyRequested, Promote, SameGeneration, AddsCurrent, QueueFields
<1> QED  BY <1>2, <1>3, <1>4, <1>5, QueueJobGeneration

(* No bookkeeping of a replaced diff survives into the next generation, so   *)
(* try_push never meets a stale job and a late result settles nothing.       *)
THEOREM GenerationsNeverMix == Spec => []OneGeneration
<1> DEFINE GInv == OneGeneration /\ DOMAIN queue = QueueFields
<1>1. Init => GInv
  BY DEF Init, OneGeneration, QueueFields
<1>2. ASSUME GInv, [Next]_vars
      PROVE  GInv'
  <2>1. ASSUME SameGeneration, AddsCurrent, generation' = generation
        PROVE  GInv'
    BY <1>2, <2>1 DEF SameGeneration, AddsCurrent, OneGeneration
  <2>2. CASE AskRow
    BY <1>2, <2>1, <2>2, AskRowGeneration DEF AskRow
  <2>3. CASE Reload
    BY <1>2, <2>3 DEF Reload, SetGeneration, OneGeneration, QueueFields
  <2>4. CASE DropQueue
    BY <1>2, <2>1, <2>4 DEF DropQueue, CloseQueue, asked, SameGeneration, AddsCurrent, QueueFields
  <2>5. CASE DrainResult
    BY <2>1, <2>5 DEF DrainResult, SameGeneration, AddsCurrent
  <2>6. CASE StartFrame \/ Paint \/ Scroll \/ DropStart \/ Joined \/ UNCHANGED vars
    BY <2>1, <2>6 DEF StartFrame, Paint, Scroll, DropStart, Joined, vars, asked,
                      SameGeneration, AddsCurrent
  <2>7. ASSUME NEW w \in Workers, WorkerStep(w)
        PROVE  GInv'
    <3>1. AddsCurrent /\ generation' = generation
      BY <2>7 DEF WorkerStep, Pop, Run, Send, asked, AddsCurrent
    <3>2. ASSUME NEW class \in {"visible", "prefetch"}, PopTakes(w, class)
          PROVE  SameGeneration
      BY <1>2, <3>2 DEF PopTakes, SameGeneration, QueueFields
    <3>3. SameGeneration
      BY <2>7, <3>2 DEF WorkerStep, Pop, PopEnds, PopWaits, Run, Send, SameGeneration
    <3> QED  BY <2>1, <3>1, <3>3
  <2> QED
    BY <1>2, <2>2, <2>3, <2>4, <2>5, <2>6, <2>7 DEF Next, UiLoop, Dropping
<1> QED  BY <1>1, <1>2, PTL DEF Spec

(* ----------------------- the books of queue and view -------------------- *)
(* The files and hunks of the view, and the keys and jobs that can name      *)
(* them.                                                                     *)
Files == {Rows[r].file : r \in RowIds}
Hunks == {Rows[r].hunk : r \in RowIds} \cup {0}
Key == [gen: Nat, file: Files, hunk: Hunks]
Job == [key: Key, bytes: Nat]

(* The jobs of a sequence of jobs. *)
LEMMA JobsOf ==
  ASSUME NEW q \in Seq(Job)
  PROVE  /\ Len(q) \in Nat /\ DOMAIN q = 1 .. Len(q)
         /\ \A k \in 1 .. Len(q) : q[k] \in Job /\ q[k].bytes \in Nat /\ q[k].key \in Key
<1>1. \A job \in Job : job.bytes \in Nat /\ job.key \in Key
  BY DEF Job
<1> QED  BY <1>1

(* A set of numbers has a least one. *)
LEMMA LeastNumber ==
  ASSUME NEW S \in SUBSET Nat, S # {}
  PROVE  \E k \in S : \A j \in S : k <= j
<1> DEFINE R == OpToRel(<, Nat)
<1>1. IsWellFoundedOn(R, Nat)
  BY NatLessThanWellFounded
<1>2. \A j, k \in Nat : j < k => <<j, k>> \in R
  BY SMT DEF OpToRel
<1> HIDE DEF R
<1>3. PICK k \in S : \A j \in S : ~(<<j, k>> \in R)
  BY <1>1, WFMin
<1>4. ASSUME NEW j \in S
      PROVE  k <= j
  <2>1. k \in Nat /\ j \in Nat
    OBVIOUS
  <2>2. ~(j < k)
    BY <1>2, <1>3, <2>1, Zenon
  <2> QED  BY <2>1, <2>2
<1> QED  BY <1>4

(* The sums of the bytes of the first jobs. *)
Sums(q, f, n) == f[0] = 0 /\ \A k \in 1 .. n : f[k] = f[k - 1] + q[k].bytes

(* They exist: with a least length for which they did not, the sums one      *)
(* shorter would be extended.                                                *)
LEMMA SumsExist ==
  ASSUME NEW q \in Seq(Job)
  PROVE  \E f \in [0 .. Len(q) -> Nat] : Sums(q, f, Len(q))
<1> DEFINE Bad == {n \in 0 .. Len(q) : ~ \E f \in [0 .. n -> Nat] : Sums(q, f, n)}
<1>1. Len(q) \in Nat /\ \A k \in 1 .. Len(q) : q[k].bytes \in Nat
  BY JobsOf
<1>2. Bad = {}
  <2> SUFFICES ASSUME Bad # {} PROVE FALSE
    OBVIOUS
  <2>1. Bad \in SUBSET Nat
    BY <1>1
  <2> HIDE DEF Bad
  <2>2. PICK n \in Bad : \A m \in Bad : n <= m
    BY <2>1, LeastNumber
  <2>3. n \in 0 .. Len(q) /\ ~ \E f \in [0 .. n -> Nat] : Sums(q, f, n)
    BY <2>2 DEF Bad
  <2>4. CASE n = 0
    <3> DEFINE f == [k \in 0 .. 0 |-> 0]
    <3>1. f \in [0 .. 0 -> Nat] /\ Sums(q, f, 0)
      BY DEF Sums
    <3> QED  BY <2>3, <2>4, <3>1
  <2>5. CASE n # 0
    <3>1. n - 1 \in 0 .. Len(q) /\ n \in 1 .. Len(q)
      BY <1>1, <2>3, <2>5
    <3>2. n - 1 \notin Bad
      BY <1>1, <2>2, <2>3
    <3>3. PICK f \in [0 .. (n - 1) -> Nat] : Sums(q, f, n - 1)
      BY <3>1, <3>2 DEF Bad
    <3> DEFINE g == [k \in 0 .. n |-> IF k = n THEN f[n - 1] + q[n].bytes ELSE f[k]]
    <3>4. \A k \in 0 .. n : k # n => k \in 0 .. (n - 1)
      BY <1>1, <2>3
    <3>5. g \in [0 .. n -> Nat]
      <4>1. f[n - 1] \in Nat /\ q[n].bytes \in Nat
        BY <1>1, <3>1
      <4> QED  BY <1>1, <3>4, <4>1
    <3>6. g[0] = 0
      BY <1>1, <2>3, <2>5, <3>3 DEF Sums
    <3>7. ASSUME NEW k \in 1 .. n
          PROVE  g[k] = g[k - 1] + q[k].bytes
      <4>1. g[k - 1] = f[k - 1]
        BY <1>1, <2>3
      <4> QED  BY <1>1, <2>3, <3>3, <4>1 DEF Sums
    <3> HIDE DEF g
    <3>8. Sums(q, g, n)
      BY <3>6, <3>7 DEF Sums
    <3> QED  BY <2>3, <3>5, <3>8
  <2> QED  BY <2>4, <2>5
<1> QED  BY <1>1, <1>2

(* Two ways to sum the same bytes agree: a least number at which they        *)
(* differed would have a predecessor at which they agree.                    *)
LEMMA SumsAgree ==
  ASSUME NEW q, NEW n \in Nat, NEW f, NEW g, Sums(q, f, n), Sums(q, g, n)
  PROVE  f[n] = g[n]
<1> DEFINE Bad == {k \in 0 .. n : f[k] # g[k]}
<1>1. Bad = {}
  <2> SUFFICES ASSUME Bad # {} PROVE FALSE
    OBVIOUS
  <2>1. Bad \in SUBSET Nat
    OBVIOUS
  <2> HIDE DEF Bad
  <2>2. PICK k \in Bad : \A m \in Bad : k <= m
    BY <2>1, LeastNumber
  <2>3. k \in 0 .. n /\ f[k] # g[k]
    BY <2>2 DEF Bad
  <2>4. k # 0
    BY <2>3 DEF Sums
  <2>5. k \in 1 .. n /\ k - 1 \in 0 .. n /\ k - 1 \notin Bad
    BY <2>2, <2>3, <2>4
  <2>6. f[k - 1] = g[k - 1]
    BY <2>5 DEF Bad
  <2> QED  BY <2>3, <2>5, <2>6 DEF Sums
<1> QED  BY <1>1

(* So any such sum is what the queue's Bytes computes.                       *)
LEMMA BytesAreSums ==
  ASSUME NEW q \in Seq(Job), NEW f, Sums(q, f, Len(q))
  PROVE  Bytes(q) = f[Len(q)] /\ Bytes(q) \in Nat
<1> DEFINE sum[n \in 0 .. Len(q)] == IF n = 0 THEN 0 ELSE sum[n - 1] + q[n].bytes
<1>1. Bytes(q) = sum[Len(q)]
  BY DEF Bytes
<1>2. PICK g \in [0 .. Len(q) -> Nat] : Sums(q, g, Len(q))
  BY SumsExist
<1>3. g = [n \in 0 .. Len(q) |-> IF n = 0 THEN 0 ELSE g[n - 1] + q[n].bytes]
  BY <1>2 DEF Sums
<1>4. sum = [n \in 0 .. Len(q) |-> IF n = 0 THEN 0 ELSE sum[n - 1] + q[n].bytes]
  BY <1>3
<1> HIDE DEF sum
<1>5. Sums(q, sum, Len(q))
  BY <1>4 DEF Sums
<1>6. Len(q) \in Nat
  OBVIOUS
<1> QED  BY <1>1, <1>2, <1>5, <1>6, SumsAgree

Without(q, i) == SubSeq(q, 1, i - 1) \o SubSeq(q, i + 1, Len(q))

(* Without one element, those after it move up by one. *)
LEMMA WithoutOne ==
  ASSUME NEW S, NEW q \in Seq(S), NEW i \in 1 .. Len(q)
  PROVE  /\ Without(q, i) \in Seq(S) /\ Len(Without(q, i)) = Len(q) - 1
         /\ \A k \in 1 .. Len(q) - 1 : Without(q, i)[k] = IF k < i THEN q[k] ELSE q[k + 1]
<1> DEFINE n == Len(q)
           a == SubSeq(q, 1, i - 1)
           b == SubSeq(q, i + 1, n)
<1>1. n \in Nat /\ i \in 1 .. n
  OBVIOUS
<1>2. a \in Seq(S) /\ Len(a) = i - 1 /\ \A k \in 1 .. i - 1 : a[k] = q[k]
  OBVIOUS
<1>3. b \in Seq(S) /\ Len(b) = n - i /\ \A k \in 1 .. n - i : b[k] = q[i + k]
  OBVIOUS
<1> HIDE DEF a, b
<1>4. a \o b \in Seq(S) /\ Len(a \o b) = n - 1
  <2>1. a \in Seq(S) /\ b \in Seq(S)
    BY <1>2, <1>3
  <2>2. a \o b \in Seq(S) /\ Len(a \o b) = Len(a) + Len(b)
    BY <2>1
  <2>3. (i - 1) + (n - i) = n - 1
    BY <1>1
  <2> QED  BY <1>2, <1>3, <2>2, <2>3
<1>5. ASSUME NEW k \in 1 .. n - 1
      PROVE  (a \o b)[k] = IF k < i THEN q[k] ELSE q[k + 1]
  BY <1>1, <1>2, <1>3
<1> QED  BY <1>4, <1>5 DEF Without, a, b

(* Bytes of no job, of one more, and of one less. *)
LEMMA BytesOfNothing == Bytes(<<>>) = 0
<1>1. <<>> \in Seq(Job) /\ Len(<<>>) = 0
  OBVIOUS
<1>2. PICK f \in [0 .. 0 -> Nat] : Sums(<<>>, f, 0)
  BY <1>1, SumsExist
<1> QED  BY <1>1, <1>2, BytesAreSums DEF Sums

(* One job more.                                                             *)
LEMMA BytesOfMore ==
  ASSUME NEW q \in Seq(Job), NEW job \in Job
  PROVE  /\ Append(q, job) \in Seq(Job) /\ Len(Append(q, job)) = Len(q) + 1
         /\ Bytes(Append(q, job)) = Bytes(q) + job.bytes
<1> DEFINE p == Append(q, job)
           n == Len(q)
<1>1. n \in Nat /\ p \in Seq(Job) /\ Len(p) = n + 1
  OBVIOUS
<1>2. p[n + 1] = job /\ \A k \in 1 .. n : p[k] = q[k]
  OBVIOUS
<1> HIDE DEF p
<1>3. PICK f \in [0 .. (n + 1) -> Nat] : Sums(p, f, n + 1)
  BY <1>1, SumsExist
<1>4. Sums(q, f, n)
  BY <1>1, <1>2, <1>3 DEF Sums
<1>5. Bytes(q) = f[n] /\ Bytes(p) = f[n + 1]
  BY <1>1, <1>3, <1>4, BytesAreSums
<1>6. f[n + 1] = f[n] + job.bytes
  BY <1>1, <1>2, <1>3 DEF Sums
<1> QED  BY <1>1, <1>5, <1>6 DEF p

(* One job less, wherever it stood: eviction, promotion and pop.             *)
LEMMA BytesOfLess ==
  ASSUME NEW q \in Seq(Job), NEW i \in 1 .. Len(q)
  PROVE  /\ Without(q, i) \in Seq(Job) /\ Len(Without(q, i)) = Len(q) - 1
         /\ \A k \in 1 .. Len(q) - 1 : Without(q, i)[k] = IF k < i THEN q[k] ELSE q[k + 1]
         /\ Bytes(Without(q, i)) = Bytes(q) - q[i].bytes
<1> DEFINE p == Without(q, i)
           n == Len(q)
<1>1. n \in Nat /\ i \in 1 .. n
  OBVIOUS
<1>2. /\ p \in Seq(Job) /\ Len(p) = n - 1
      /\ \A k \in 1 .. n - 1 : p[k] = IF k < i THEN q[k] ELSE q[k + 1]
  BY WithoutOne
<1> HIDE DEF p
<1>3. PICK f \in [0 .. n -> Nat] : Sums(q, f, n)
  BY SumsExist
<1> DEFINE g == [k \in 0 .. n - 1 |-> IF k < i THEN f[k] ELSE f[k + 1] - q[i].bytes]
<1>4. q[i].bytes \in Nat /\ f[i] = f[i - 1] + q[i].bytes /\ f[0] = 0
  BY <1>3, JobsOf DEF Sums
<1>5. g[0] = 0
  BY <1>1, <1>3, <1>4
<1>6. ASSUME NEW k \in 1 .. n - 1
      PROVE  g[k] = g[k - 1] + p[k].bytes
  <2>1. /\ k \in 0 .. n - 1 /\ k - 1 \in 0 .. n - 1 /\ k \in 1 .. n /\ k + 1 \in 1 .. n
        /\ k \in 0 .. n /\ k - 1 \in 0 .. n /\ k + 1 \in 0 .. n
    BY <1>1
  <2>2. f[k] = f[k - 1] + q[k].bytes /\ f[k + 1] = f[k] + q[k + 1].bytes
    BY <1>3, <2>1 DEF Sums
  <2>3. f[k] \in Nat /\ f[k - 1] \in Nat /\ f[k + 1] \in Nat
    BY <1>3, <2>1
  <2>4. q[k].bytes \in Nat /\ q[k + 1].bytes \in Nat
    BY <2>1, JobsOf
  <2>5. g[k] = (IF k < i THEN f[k] ELSE f[k + 1] - q[i].bytes)
        /\ g[k - 1] = (IF k - 1 < i THEN f[k - 1] ELSE f[k] - q[i].bytes)
    BY <2>1
  <2> HIDE DEF g
  <2>6. CASE k < i
    BY <1>1, <1>2, <2>1, <2>2, <2>5, <2>6
  <2>7. CASE k = i
    <3>1. ~(k < i) /\ k - 1 < i
      BY <1>1, <2>1, <2>7
    <3>2. p[k] = q[k + 1] /\ g[k] = f[k + 1] - q[i].bytes /\ g[k - 1] = f[k - 1]
      BY <1>2, <2>5, <3>1
    <3>3. p[k].bytes = q[k + 1].bytes
      BY <3>2
    <3> DEFINE u == f[k + 1]
               v == f[k]
               t == f[k - 1]
               x == q[k + 1].bytes
               y == q[i].bytes
    <3>4. u = v + x /\ v = t + y
      BY <2>2, <2>7
    <3>5. t \in Nat /\ x \in Nat /\ y \in Nat
      BY <1>4, <2>3, <2>4
    <3> HIDE DEF t, u, v, x, y
    <3>6. u - y = t + x
      BY <3>4, <3>5
    <3> QED  BY <3>2, <3>3, <3>6 DEF t, u, v, x, y
  <2>8. CASE k > i
    <3>1. ~(k < i) /\ ~(k - 1 < i)
      BY <1>1, <2>1, <2>8
    <3>2. p[k] = q[k + 1] /\ g[k] = f[k + 1] - q[i].bytes /\ g[k - 1] = f[k] - q[i].bytes
      BY <1>2, <2>5, <3>1
    <3>3. p[k].bytes = q[k + 1].bytes
      BY <3>2
    <3> DEFINE u == f[k + 1]
               v == f[k]
               x == q[k + 1].bytes
               y == q[i].bytes
    <3>4. u = v + x /\ u \in Nat /\ v \in Nat /\ x \in Nat /\ y \in Nat
      BY <1>4, <2>2, <2>3, <2>4
    <3> HIDE DEF u, v, x, y
    <3>5. u - y = (v - y) + x
      BY <3>4
    <3> QED  BY <3>2, <3>3, <3>5 DEF u, v, x, y
  <2> QED  BY <1>1, <2>6, <2>7, <2>8
<1>7. g[n - 1] = f[n] - q[i].bytes
  BY <1>1, <1>3, <1>4
<1> HIDE DEF g
<1>8. Sums(p, g, n - 1)
  BY <1>5, <1>6 DEF Sums
<1>9. Bytes(p) = g[n - 1] /\ Bytes(q) = f[n]
  BY <1>2, <1>3, <1>8, BytesAreSums
<1> QED  BY <1>2, <1>7, <1>9 DEF p

(* A queue of one generation holds nothing of the next: set_generation       *)
(* empties it.                                                               *)
LEMMA NothingOfGeneration ==
  ASSUME NEW q \in Seq(Job), NEW gen, \A k \in 1 .. Len(q) : q[k].key.gen # gen
  PROVE  OfGeneration(q, gen) = <<>>
<1> DEFINE kept[n \in 0 .. Len(q)] ==
              IF n = 0 THEN <<>>
              ELSE IF q[n].key.gen = gen THEN Append(kept[n - 1], q[n]) ELSE kept[n - 1]
           none == [n \in 0 .. Len(q) |-> <<>>]
<1>1. OfGeneration(q, gen) = kept[Len(q)]
  BY DEF OfGeneration
<1>2. Len(q) \in Nat
  OBVIOUS
<1>3. none = [n \in 0 .. Len(q) |->
                IF n = 0 THEN <<>>
                ELSE IF q[n].key.gen = gen THEN Append(none[n - 1], q[n]) ELSE none[n - 1]]
  BY <1>2
<1>4. kept = [n \in 0 .. Len(q) |->
                IF n = 0 THEN <<>>
                ELSE IF q[n].key.gen = gen THEN Append(kept[n - 1], q[n]) ELSE kept[n - 1]]
  BY <1>3
<1> HIDE DEF kept, none
<1> DEFINE Bad == {n \in 0 .. Len(q) : kept[n] # <<>>}
<1>5. Bad = {}
  <2> SUFFICES ASSUME Bad # {} PROVE FALSE
    OBVIOUS
  <2>1. Bad \in SUBSET Nat
    BY <1>2
  <2> HIDE DEF Bad
  <2>2. PICK n \in Bad : \A m \in Bad : n <= m
    BY <2>1, LeastNumber
  <2>3. n \in 0 .. Len(q) /\ kept[n] # <<>>
    BY <2>2 DEF Bad
  <2>4. n # 0
    BY <1>4, <2>3
  <2>5. n \in 1 .. Len(q) /\ n - 1 \in 0 .. Len(q) /\ n - 1 \notin Bad
    BY <1>2, <2>2, <2>3, <2>4
  <2>6. kept[n - 1] = <<>>
    BY <2>5 DEF Bad
  <2> QED  BY <1>4, <2>3, <2>4, <2>5, <2>6
<1> QED  BY <1>1, <1>2, <1>5

---------------------------------------------------------------------------
(* The workers with a job in hand, the keys each place holds, and a queue in *)
(* which no key stands twice.                                                *)
Busy == {w \in Workers : worker[w].pc \in {"run", "send"}}
BusyKeys == {worker[w].key : w \in Busy}
KeysIn(q) == {q[k].key : k \in DOMAIN q}
Held == KeysOf(queue) \cup BusyKeys \cup KeysIn(results)

Apart(q) == \A j, k \in DOMAIN q : q[j].key = q[k].key => j = k
Sorted(q) == Apart(q.visible) /\ Apart(q.prefetch) /\ KeysIn(q.visible) \cap KeysIn(q.prefetch) = {}

Outcome == UNION {Outcomes(key.file, key.hunk) : key \in [file: Files, hunk: Hunks]}
Result == [key: Key, outcome: Outcome]
Queues == [generation: Nat, visible: Seq(Job), prefetch: Seq(Job), bytes: Nat, closed: BOOLEAN]

ViewTypes ==
    /\ generation \in Nat /\ open \in BOOLEAN /\ (open <=> ui \in {"idle", "asking"})
    /\ top \in 1 .. (Len(Rows) - VisibleRows + 1)
    /\ todo \in Seq(RowIds \X {"visible", "prefetch"})
QueueTypes == queue \in Queues /\ queue.generation = generation
WorkerTypes ==
    /\ DOMAIN worker = Workers
    /\ \A w \in Busy : worker[w].key \in Key /\ (worker[w].pc = "send" => worker[w].outcome \in Outcome)

(* A key is in one place, once, and it is pending if it is of the present    *)
(* generation; what is queued is.                                            *)
Books ==
    /\ Sorted(queue) /\ Apart(results)
    /\ \A v, w \in Busy : worker[v].key = worker[w].key => v = w
    /\ KeysOf(queue) \cap BusyKeys = {} /\ KeysOf(queue) \cap KeysIn(results) = {}
    /\ BusyKeys \cap KeysIn(results) = {}
    /\ \A key \in Held : key.gen \in 0 .. generation
    /\ \A key \in KeysOf(queue) : key.gen = generation
    /\ pending = {key \in Held : key.gen = generation}

BooksInv ==
    /\ ViewTypes /\ QueueTypes /\ WorkerTypes /\ results \in Seq(Result)
    /\ QueueWithinBudget /\ (open => Books)

(* The keys of one more, of one less, and of the first few. *)
LEMMA KeysOfMore ==
  ASSUME NEW S, NEW q \in Seq(S), NEW e \in S
  PROVE  /\ KeysIn(Append(q, e)) = KeysIn(q) \cup {e.key}
         /\ Apart(q) /\ e.key \notin KeysIn(q) => Apart(Append(q, e))
<1> DEFINE p == Append(q, e)
           n == Len(q)
<1>1. n \in Nat /\ DOMAIN q = 1 .. n /\ DOMAIN p = 1 .. (n + 1)
  OBVIOUS
<1>2. p[n + 1] = e /\ \A k \in 1 .. n : p[k] = q[k]
  OBVIOUS
<1> HIDE DEF p, n
<1>3. 1 .. (n + 1) = (1 .. n) \cup {n + 1} /\ n + 1 \notin 1 .. n
  BY <1>1
<1> QED  BY <1>1, <1>2, <1>3 DEF KeysIn, Apart, p

(* The first few hold no other keys.                                         *)
LEMMA KeysOfPart ==
  ASSUME NEW S, NEW q \in Seq(S), NEW n \in 0 .. Len(q)
  PROVE  LET p == SubSeq(q, 1, n)
         IN  /\ p \in Seq(S) /\ Len(p) = n
             /\ KeysIn(p) \subseteq KeysIn(q) /\ (Apart(q) => Apart(p))
<1> DEFINE p == SubSeq(q, 1, n)
<1>1. p \in Seq(S) /\ Len(p) = n /\ DOMAIN p = 1 .. n /\ DOMAIN q = 1 .. Len(q) /\ Len(q) \in Nat
  OBVIOUS
<1>2. \A k \in 1 .. n : p[k] = q[k] /\ k \in 1 .. Len(q)
  OBVIOUS
<1> HIDE DEF p
<1> QED  BY <1>1, <1>2 DEF KeysIn, Apart, p

(* One less: its key is gone, since no other has it.                         *)
LEMMA KeysOfLess ==
  ASSUME NEW S, NEW q \in Seq(S), NEW i \in 1 .. Len(q)
  PROVE  Apart(q) => /\ KeysIn(Without(q, i)) = KeysIn(q) \ {q[i].key}
                     /\ Apart(Without(q, i))
<1> DEFINE p == Without(q, i)
           n == Len(q)
<1>1. /\ p \in Seq(S) /\ Len(p) = n - 1
      /\ \A k \in 1 .. n - 1 : p[k] = IF k < i THEN q[k] ELSE q[k + 1]
  BY WithoutOne
<1> HIDE DEF p
<1>2. DOMAIN p = 1 .. n - 1 /\ DOMAIN q = 1 .. n /\ n \in Nat /\ i \in 1 .. n
  BY <1>1
<1>3. ASSUME NEW k \in 1 .. n - 1
      PROVE  \E j \in 1 .. n : j # i /\ p[k] = q[j] /\ j = (IF k < i THEN k ELSE k + 1)
  BY <1>1, <1>2
<1>4. ASSUME NEW j \in 1 .. n, j # i
      PROVE  \E k \in 1 .. n - 1 : p[k] = q[j]
  <2>1. CASE j < i
    <3>1. j \in 1 .. n - 1
      BY <1>2, <2>1
    <3> QED  BY <1>1, <2>1, <3>1
  <2>2. CASE j > i
    <3>1. j - 1 \in 1 .. n - 1 /\ ~(j - 1 < i) /\ (j - 1) + 1 = j
      BY <1>2, <2>2
    <3> QED  BY <1>1, <3>1
  <2> QED  BY <1>2, <1>4, <2>1, <2>2
<1> SUFFICES ASSUME Apart(q) PROVE KeysIn(p) = KeysIn(q) \ {q[i].key} /\ Apart(p)
  BY DEF p
<1>5. \A j, k \in 1 .. n : q[j].key = q[k].key => j = k
  BY <1>2 DEF Apart
<1>6. KeysIn(p) = KeysIn(q) \ {q[i].key}
  <2>1. KeysIn(p) = {p[k].key : k \in 1 .. n - 1} /\ KeysIn(q) = {q[k].key : k \in 1 .. n}
    BY <1>2 DEF KeysIn
  <2>2. \A k \in 1 .. n - 1 : p[k].key \in KeysIn(q) /\ p[k].key # q[i].key
    BY <1>2, <1>3, <1>5, <2>1
  <2>3. \A key \in KeysIn(q) : key # q[i].key => key \in KeysIn(p)
    BY <1>4, <2>1
  <2> QED  BY <2>1, <2>2, <2>3
<1>7. ASSUME NEW j \in 1 .. n - 1, NEW k \in 1 .. n - 1, p[j].key = p[k].key
      PROVE  j = k
  <2>1. PICK u \in 1 .. n : p[j] = q[u] /\ u = (IF j < i THEN j ELSE j + 1)
    BY <1>3
  <2>2. PICK v \in 1 .. n : p[k] = q[v] /\ v = (IF k < i THEN k ELSE k + 1)
    BY <1>3
  <2>3. u = v
    BY <1>5, <1>7, <2>1, <2>2
  <2> QED  BY <1>2, <2>1, <2>2, <2>3
<1> QED  BY <1>2, <1>6, <1>7 DEF Apart

(* The tail is what is left without the first. *)
LEMMA TailIsLess ==
  ASSUME NEW S, NEW q \in Seq(S), q # <<>>
  PROVE  /\ 1 \in 1 .. Len(q) /\ Head(q) = q[1]
         /\ Tail(q) = Without(q, 1)
<1>1. Len(q) \in Nat /\ Len(q) # 0 /\ 1 \in 1 .. Len(q) /\ Head(q) = q[1]
  OBVIOUS
<1>2. Tail(q) \in Seq(S) /\ Len(Tail(q)) = Len(q) - 1 /\ \A k \in 1 .. Len(q) - 1 : Tail(q)[k] = q[k + 1]
  OBVIOUS
<1>3. Without(q, 1) \in Seq(S) /\ Len(Without(q, 1)) = Len(q) - 1
      /\ \A k \in 1 .. Len(q) - 1 : Without(q, 1)[k] = q[k + 1]
  <2>1. \A k \in 1 .. Len(q) - 1 : ~(k < 1)
    OBVIOUS
  <2> QED  BY <1>1, <2>1, WithoutOne
<1> DEFINE t == Tail(q)
           w == Without(q, 1)
<1>4. t \in Seq(S) /\ w \in Seq(S) /\ Len(t) = Len(w) /\ \A k \in 1 .. Len(t) : t[k] = w[k]
  BY <1>2, <1>3
<1> HIDE DEF t, w
<1>5. t = w
  BY <1>4
<1> QED  BY <1>1, <1>5 DEF t, w

(* A finite set of numbers has a greatest one. *)
LEMMA GreatestNumber ==
  ASSUME NEW n \in Nat, NEW S \in SUBSET (-1 .. n), S # {}
  PROVE  Max(S) \in S
<1> DEFINE D == {n - k : k \in S}
<1>1. D \in SUBSET Nat /\ D # {}
  <2>1. \A k \in S : k \in -1 .. n
    OBVIOUS
  <2>2. \A k \in -1 .. n : n - k \in Nat
    OBVIOUS
  <2> QED  BY <2>1, <2>2
<1>2. PICK d \in D : \A e \in D : d <= e
  BY <1>1, LeastNumber
<1>3. PICK k \in S : d = n - k
  BY <1>2
<1>4. ASSUME NEW j \in S
      PROVE  k >= j
  <2>1. n - k <= n - j
    BY <1>2, <1>3
  <2> QED  BY <2>1
<1> QED  BY <1>4 DEF Max

(* A queue within both limits, whose count of bytes is right. *)
Budget(q) ==
    /\ q.bytes = Bytes(q.visible) + Bytes(q.prefetch)
    /\ Len(q.visible) + Len(q.prefetch) <= QueueEntries /\ q.bytes <= QueueBytes

(* Arithmetic of the two limits, stated of plain numbers.                    *)
LEMMA RoomFor ==
  ASSUME NEW a \in Nat, NEW b \in Nat, NEW m \in Nat
  PROVE  /\ a + b < m => a + (b + 1) <= m
         /\ a + b <= m => (a - 1) + b <= m /\ a + (b - 1) <= m /\ (a + 1) + (b - 1) <= m
OBVIOUS

(* What the type of a queue says of its parts.                               *)
LEMMA QueueFacts ==
  ASSUME NEW q \in Queues
  PROVE  /\ q.visible \in Seq(Job) /\ q.prefetch \in Seq(Job) /\ q.bytes \in Nat
         /\ q.generation \in Nat /\ q.closed \in BOOLEAN
         /\ Len(q.visible) \in Nat /\ Len(q.prefetch) \in Nat
         /\ Bytes(q.visible) \in Nat /\ Bytes(q.prefetch) \in Nat
<1>1. q.visible \in Seq(Job) /\ q.prefetch \in Seq(Job)
  BY DEF Queues
<1>2. \A s \in Seq(Job) : Len(s) \in Nat /\ Bytes(s) \in Nat
  BY SumsExist, BytesAreSums
<1> QED  BY <1>1, <1>2 DEF Queues

(* When a visible job is admitted, KeepPrefetch is a number of prefetch jobs *)
(* that leaves room for it.                                                  *)
LEMMA SomePrefetchIsKept ==
  ASSUME queue \in Queues, NEW bytes \in Nat, KeepPrefetch(bytes) # -1
  PROVE  LET n == KeepPrefetch(bytes)
         IN  /\ n \in 0 .. Len(queue.prefetch)
             /\ Len(queue.visible) + n < QueueEntries
             /\ Bytes(queue.visible) + Bytes(SubSeq(queue.prefetch, 1, n)) + bytes <= QueueBytes
<1> DEFINE Fit(n) == LET kept == SubSeq(queue.prefetch, 1, n)
                     IN  /\ Len(queue.visible) + n < QueueEntries
                         /\ Bytes(queue.visible) + Bytes(kept) + bytes <= QueueBytes
           S == {n \in 0 .. Len(queue.prefetch) : Fit(n)} \cup {-1}
<1>1. KeepPrefetch(bytes) = Max(S)
  BY DEF KeepPrefetch
<1>2. Len(queue.prefetch) \in Nat
  BY QueueFacts
<1> HIDE DEF Fit
<1>3. S \in SUBSET (-1 .. Len(queue.prefetch)) /\ S # {}
  BY <1>2
<1>4. Max(S) \in S
  BY <1>2, <1>3, GreatestNumber
<1>5. KeepPrefetch(bytes) \in 0 .. Len(queue.prefetch) /\ Fit(KeepPrefetch(bytes))
  BY <1>1, <1>4
<1> QED  BY <1>5 DEF Fit

(* What a push, a promotion and a pop make of a queue whose keys are apart. *)
LEMMA KeysOfQueue ==
  \A q : KeysOf(q) = KeysIn(q.visible) \cup KeysIn(q.prefetch)
BY DEF KeysOf, KeysIn

LEMMA PushedIsGood ==
  ASSUME queue \in Queues, Budget(queue), Sorted(queue), NEW job \in Job, NEW class,
         job.key \notin KeysOf(queue), Admits(job, class)
  PROVE  LET q == Pushed(job, class)
         IN  /\ q \in Queues /\ q.generation = queue.generation /\ q.closed = queue.closed
             /\ Budget(q) /\ Sorted(q)
             /\ job.key \in KeysOf(q) /\ KeysOf(q) \subseteq KeysOf(queue) \cup {job.key}
<1> DEFINE v == queue.visible
           p == queue.prefetch
           q == Pushed(job, class)
<1>1. /\ v \in Seq(Job) /\ p \in Seq(Job) /\ Len(v) \in Nat /\ Len(p) \in Nat
      /\ Bytes(v) \in Nat /\ Bytes(p) \in Nat /\ queue.bytes \in Nat
      /\ queue.bytes = Bytes(v) + Bytes(p) /\ Len(v) + Len(p) <= QueueEntries
  BY QueueFacts DEF Budget
<1>2. job.bytes \in Nat /\ QueueEntries \in Nat /\ QueueBytes \in Nat
  BY LimitsAssumption DEF Job
<1>3. CASE class = "visible"
  <2> DEFINE n == KeepPrefetch(job.bytes)
             kept == SubSeq(p, 1, n)
             more == Append(v, job)
  <2>1. /\ n \in 0 .. Len(p) /\ Len(v) + n < QueueEntries
        /\ Bytes(v) + Bytes(kept) + job.bytes <= QueueBytes
    BY <1>2, <1>3, SomePrefetchIsKept DEF Admits
  <2>2. q = [queue EXCEPT !.visible = more, !.prefetch = kept,
                          !.bytes = queue.bytes - Bytes(p) + Bytes(kept) + job.bytes]
    BY <1>3 DEF Pushed
  <2> HIDE DEF n
  <2>3. /\ kept \in Seq(Job) /\ Len(kept) = n /\ KeysIn(kept) \subseteq KeysIn(p) /\ Apart(kept)
    BY <1>1, <2>1, KeysOfPart DEF Sorted
  <2>4. Bytes(kept) \in Nat
    BY <2>3, SumsExist, BytesAreSums
  <2>5. more \in Seq(Job) /\ Len(more) = Len(v) + 1 /\ Bytes(more) = Bytes(v) + job.bytes
    BY <1>1, BytesOfMore
  <2>6. KeysIn(more) = KeysIn(v) \cup {job.key} /\ Apart(more)
    BY <1>1, KeysOfMore, KeysOfQueue DEF Sorted
  <2> HIDE DEF kept, more, q
  <2>7. queue.bytes - Bytes(p) + Bytes(kept) + job.bytes = Bytes(more) + Bytes(kept)
    BY <1>1, <1>2, <2>4, <2>5
  <2>8. Bytes(more) + Bytes(kept) \in Nat
    BY <1>1, <1>2, <2>4, <2>5
  <2>9. /\ q \in Queues /\ q.generation = queue.generation /\ q.closed = queue.closed
        /\ q.visible = more /\ q.prefetch = kept /\ q.bytes = Bytes(more) + Bytes(kept)
    BY <2>2, <2>3, <2>5, <2>7, <2>8 DEF Queues
  <2>10. Budget(q)
    <3>1. Bytes(more) + Bytes(kept) <= QueueBytes
      BY <1>1, <1>2, <2>1, <2>4, <2>5
    <3>2. Len(more) + Len(kept) <= QueueEntries
      BY <1>1, <1>2, <2>1, <2>3, <2>5
    <3> QED  BY <2>9, <3>1, <3>2 DEF Budget
  <2>11. Sorted(q)
    BY <2>3, <2>6, <2>9, KeysOfQueue DEF Sorted
  <2>12. job.key \in KeysOf(q) /\ KeysOf(q) \subseteq KeysOf(queue) \cup {job.key}
    BY <2>3, <2>6, <2>9, KeysOfQueue
  <2> QED  BY <2>9, <2>10, <2>11, <2>12 DEF q
<1>4. CASE class # "visible"
  <2> DEFINE more == Append(p, job)
  <2>1. Len(v) + Len(p) < QueueEntries /\ queue.bytes + job.bytes <= QueueBytes
    BY <1>4 DEF Admits, Fits, Depth
  <2>2. q = [queue EXCEPT !.prefetch = more, !.bytes = queue.bytes + job.bytes]
    BY <1>4 DEF Pushed
  <2>3. more \in Seq(Job) /\ Len(more) = Len(p) + 1 /\ Bytes(more) = Bytes(p) + job.bytes
    BY <1>1, BytesOfMore
  <2>4. KeysIn(more) = KeysIn(p) \cup {job.key} /\ Apart(more)
    BY <1>1, KeysOfMore, KeysOfQueue DEF Sorted
  <2> HIDE DEF more, q
  <2>5. /\ q \in Queues /\ q.generation = queue.generation /\ q.closed = queue.closed
        /\ q.visible = v /\ q.prefetch = more /\ q.bytes = queue.bytes + job.bytes
    <3>1. queue.bytes + job.bytes \in Nat
      BY <1>1, <1>2
    <3> QED  BY <2>2, <2>3, <3>1 DEF Queues
  <2>6. Budget(q)
    <3>1. queue.bytes + job.bytes = Bytes(v) + Bytes(more)
      BY <1>1, <1>2, <2>3
    <3>2. Len(v) + Len(more) <= QueueEntries
      BY <1>1, <1>2, <2>1, <2>3, RoomFor, Zenon
    <3> QED  BY <2>1, <2>5, <3>1, <3>2 DEF Budget
  <2>7. Sorted(q)
    BY <2>4, <2>5, KeysOfQueue DEF Sorted
  <2>8. job.key \in KeysOf(q) /\ KeysOf(q) \subseteq KeysOf(queue) \cup {job.key}
    BY <2>4, <2>5, KeysOfQueue
  <2> QED  BY <2>5, <2>6, <2>7, <2>8 DEF q
<1> QED  BY <1>3, <1>4

(* Promoting moves a key from one class to the other.                        *)
LEMMA PromotedIsGood ==
  ASSUME queue \in Queues, Budget(queue), Sorted(queue), NEW i \in 1 .. Len(queue.prefetch)
  PROVE  LET job == queue.prefetch[i]
             q == [queue EXCEPT !.visible = Append(@, job), !.prefetch = RemoveAt(@, i)]
         IN  /\ q \in Queues /\ q.generation = queue.generation /\ q.closed = queue.closed
             /\ Budget(q) /\ Sorted(q) /\ KeysOf(q) = KeysOf(queue)
<1> DEFINE v == queue.visible
           p == queue.prefetch
           job == p[i]
           more == Append(v, job)
           less == Without(p, i)
           q == [queue EXCEPT !.visible = more, !.prefetch = less]
<1>1. /\ v \in Seq(Job) /\ p \in Seq(Job) /\ Len(v) \in Nat /\ Len(p) \in Nat
      /\ Bytes(v) \in Nat /\ Bytes(p) \in Nat /\ queue.bytes \in Nat
      /\ queue.bytes = Bytes(v) + Bytes(p) /\ Len(v) + Len(p) <= QueueEntries
      /\ queue.bytes <= QueueBytes
  BY QueueFacts DEF Budget
<1>2. job \in Job /\ job.bytes \in Nat /\ job.key \in KeysIn(p)
  BY <1>1, JobsOf DEF KeysIn
<1>3. RemoveAt(p, i) = less
  BY DEF RemoveAt, Without
<1>4. more \in Seq(Job) /\ Len(more) = Len(v) + 1 /\ Bytes(more) = Bytes(v) + job.bytes
  BY <1>1, <1>2, BytesOfMore
<1>5. KeysIn(more) = KeysIn(v) \cup {job.key} /\ Apart(more)
  BY <1>1, <1>2, KeysOfMore DEF Sorted
<1>6. less \in Seq(Job) /\ Len(less) = Len(p) - 1 /\ Bytes(less) = Bytes(p) - job.bytes
  BY <1>1, BytesOfLess
<1>7. KeysIn(less) = KeysIn(p) \ {job.key} /\ Apart(less)
  BY <1>1, KeysOfLess DEF Sorted
<1> HIDE DEF more, less
<1>8. /\ q \in Queues /\ q.generation = queue.generation /\ q.closed = queue.closed
      /\ q.visible = more /\ q.prefetch = less /\ q.bytes = queue.bytes
  BY <1>4, <1>6 DEF Queues
<1> HIDE DEF q, job
<1>9. Budget(q)
  <2>1. Bytes(more) + Bytes(less) = queue.bytes
    <3> DEFINE a == Bytes(v)
               b == Bytes(p)
               c == job.bytes
    <3>1. a \in Nat /\ b \in Nat /\ c \in Nat
      BY <1>1, <1>2
    <3>2. Bytes(more) = a + c /\ Bytes(less) = b - c /\ queue.bytes = a + b
      BY <1>1, <1>4, <1>6
    <3> HIDE DEF a, b, c
    <3>3. (a + c) + (b - c) = a + b
      BY <3>1
    <3> QED  BY <3>2, <3>3
  <2>2. Len(more) + Len(less) <= QueueEntries
    <3>1. QueueEntries \in Nat
      BY LimitsAssumption
    <3> QED  BY <1>1, <1>4, <1>6, <3>1, RoomFor, Zenon
  <2> QED  BY <1>1, <1>8, <2>1, <2>2 DEF Budget
<1>10. Sorted(q)
  BY <1>2, <1>5, <1>7, <1>8 DEF Sorted
<1>11. KeysOf(q) = KeysOf(queue)
  BY <1>2, <1>5, <1>7, <1>8, KeysOfQueue
<1> QED  BY <1>3, <1>8, <1>9, <1>10, <1>11 DEF q, job, more

(* A pop takes one key out, and its bytes.                                   *)
LEMMA PoppedIsGood ==
  ASSUME queue \in Queues, Budget(queue), NEW class \in {"visible", "prefetch"}, queue[class] # <<>>
  PROVE  LET job == Head(queue[class])
             q == [queue EXCEPT ![class] = Tail(@), !.bytes = @ - job.bytes]
         IN  /\ q \in Queues /\ q.generation = queue.generation /\ Budget(q)
             /\ job \in Job /\ job.key \in KeysOf(queue)
             /\ Sorted(queue) => Sorted(q) /\ KeysOf(q) = KeysOf(queue) \ {job.key}
<1> DEFINE v == queue.visible
           p == queue.prefetch
           old == queue[class]
           job == Head(old)
           less == Tail(old)
           q == [queue EXCEPT ![class] = less, !.bytes = queue.bytes - job.bytes]
<1>1. /\ v \in Seq(Job) /\ p \in Seq(Job) /\ Len(v) \in Nat /\ Len(p) \in Nat
      /\ Bytes(v) \in Nat /\ Bytes(p) \in Nat /\ queue.bytes \in Nat
      /\ queue.bytes = Bytes(v) + Bytes(p) /\ Len(v) + Len(p) <= QueueEntries
      /\ queue.bytes <= QueueBytes
  BY QueueFacts DEF Budget
<1>2. QueueEntries \in Nat /\ QueueBytes \in Nat
  BY LimitsAssumption
<1>3. old \in Seq(Job) /\ old # <<>>
  BY <1>1
<1>4. 1 \in 1 .. Len(old) /\ job = old[1] /\ less = Without(old, 1)
  BY <1>3, TailIsLess
<1>5. job \in Job /\ job.bytes \in Nat /\ job.key \in KeysIn(old)
  BY <1>3, <1>4, JobsOf DEF KeysIn
<1>6. less \in Seq(Job) /\ Len(less) = Len(old) - 1 /\ Bytes(less) = Bytes(old) - job.bytes
  BY <1>3, <1>4, BytesOfLess
<1>7. Apart(old) => KeysIn(less) = KeysIn(old) \ {job.key} /\ Apart(less)
  BY <1>3, <1>4, KeysOfLess
<1>8. Bytes(less) \in Nat
  BY <1>6, SumsExist, BytesAreSums
<1> HIDE DEF less, job
<1>9. CASE class = "visible"
  <2>1. /\ queue.bytes - job.bytes = Bytes(less) + Bytes(p) /\ queue.bytes - job.bytes \in Nat
        /\ queue.bytes - job.bytes <= QueueBytes
    <3> DEFINE a == Bytes(old)
               b == Bytes(p)
               c == job.bytes
               d == Bytes(less)
               x == queue.bytes
    <3>1. a \in Nat /\ b \in Nat /\ c \in Nat /\ d \in Nat /\ QueueBytes \in Nat
      BY <1>1, <1>2, <1>5, <1>8, <1>9
    <3>2. x = a + b /\ d = a - c /\ x <= QueueBytes
      BY <1>1, <1>6, <1>9
    <3> HIDE DEF a, b, c, d, x
    <3>3. x - c = d + b /\ x - c \in Nat /\ x - c <= QueueBytes
      BY <3>1, <3>2
    <3> QED  BY <3>3 DEF a, b, c, d, x
  <2>2. /\ q \in Queues /\ q.generation = queue.generation
        /\ q.visible = less /\ q.prefetch = p /\ q.bytes = queue.bytes - job.bytes
    BY <1>6, <1>9, <2>1 DEF Queues
  <2> HIDE DEF q
  <2>3. Budget(q)
    <3>1. Len(less) + Len(p) <= QueueEntries
      BY <1>1, <1>2, <1>6, <1>9, RoomFor, Zenon
    <3> QED  BY <2>1, <2>2, <3>1 DEF Budget
  <2>4. Sorted(queue) => Sorted(q) /\ KeysOf(q) = KeysOf(queue) \ {job.key}
    BY <1>5, <1>7, <1>9, <2>2, KeysOfQueue DEF Sorted
  <2> QED  BY <1>5, <1>9, <2>2, <2>3, <2>4, KeysOfQueue DEF q, job, less
<1>10. CASE class = "prefetch"
  <2>1. /\ queue.bytes - job.bytes = Bytes(v) + Bytes(less) /\ queue.bytes - job.bytes \in Nat
        /\ queue.bytes - job.bytes <= QueueBytes
    <3> DEFINE a == Bytes(old)
               b == Bytes(v)
               c == job.bytes
               d == Bytes(less)
               x == queue.bytes
    <3>1. a \in Nat /\ b \in Nat /\ c \in Nat /\ d \in Nat /\ QueueBytes \in Nat
      BY <1>1, <1>2, <1>5, <1>8, <1>10
    <3>2. x = a + b /\ d = a - c /\ x <= QueueBytes
      BY <1>1, <1>6, <1>10
    <3> HIDE DEF a, b, c, d, x
    <3>3. x - c = b + d /\ x - c \in Nat /\ x - c <= QueueBytes
      BY <3>1, <3>2
    <3> QED  BY <3>3 DEF a, b, c, d, x
  <2>2. /\ q \in Queues /\ q.generation = queue.generation
        /\ q.visible = v /\ q.prefetch = less /\ q.bytes = queue.bytes - job.bytes
    BY <1>6, <1>10, <2>1 DEF Queues
  <2> HIDE DEF q
  <2>3. Budget(q)
    <3>1. Len(v) + Len(less) <= QueueEntries
      BY <1>1, <1>2, <1>6, <1>10, RoomFor, Zenon
    <3> QED  BY <2>1, <2>2, <3>1 DEF Budget
  <2>4. Sorted(queue) => Sorted(q) /\ KeysOf(q) = KeysOf(queue) \ {job.key}
    BY <1>5, <1>7, <1>10, <2>2, KeysOfQueue DEF Sorted
  <2> QED  BY <1>5, <1>10, <2>2, <2>3, <2>4, KeysOfQueue DEF q, job, less
<1> QED  BY <1>9, <1>10

(* Waking leaves those with a job alone. *)
LEMMA WakingIsHarmless ==
  ASSUME WorkerTypes, NotifyOne \/ worker' = worker \/ worker' = Wake(Waiting)
  PROVE  WorkerTypes' /\ BusyKeys' = BusyKeys /\ Busy' = Busy
         /\ \A w \in Busy : worker'[w] = worker[w]
<1>1. PICK S \in SUBSET Waiting : worker' = worker \/ worker' = Wake(S)
  BY DEF NotifyOne
<1>2. CASE worker' = worker
  BY <1>2 DEF WorkerTypes, BusyKeys, Busy
<1>3. CASE worker' = Wake(S)
  <2>1. DOMAIN worker' = Workers
        /\ \A w \in Workers : worker'[w] = IF w \in S THEN [pc |-> "pop"] ELSE worker[w]
    BY <1>3 DEF Wake
  <2>2. \A w \in S : worker'[w].pc = "pop" /\ worker[w].pc = "waiting"
    BY <2>1 DEF Waiting
  <2>3. Busy' = Busy /\ \A w \in Busy : worker'[w] = worker[w]
    BY <2>1, <2>2 DEF Busy
  <2>4. BusyKeys' = BusyKeys
    BY <2>3 DEF BusyKeys
  <2> QED  BY <2>1, <2>3, <2>4 DEF WorkerTypes
<1> QED  BY <1>1, <1>2, <1>3

(* The books after a step that leaves the workers' jobs and the channel      *)
(* alone.                                                                    *)
LEMMA BooksBesideTheQueue ==
  ASSUME BooksInv, WorkerTypes', UNCHANGED <<generation, open, results>>,
         BusyKeys' = BusyKeys, Busy' = Busy, \A w \in Busy : worker'[w] = worker[w],
         ViewTypes', queue' \in Queues, queue'.generation = generation, Budget(queue'),
         open => /\ Sorted(queue')
                 /\ \A key \in KeysOf(queue') : key.gen = generation
                 /\ KeysOf(queue') \cap (BusyKeys \cup KeysIn(results)) = {}
                 /\ pending' = {key \in KeysOf(queue') \cup BusyKeys \cup KeysIn(results) :
                                  key.gen = generation}
  PROVE  BooksInv'
<1>1. QueueTypes' /\ (results \in Seq(Result))'
  BY DEF BooksInv, QueueTypes
<1>2. QueueWithinBudget'
  BY DEF QueueWithinBudget, Budget, Depth
<1>3. ASSUME open
      PROVE  Books'
  <2> DEFINE others == BusyKeys \cup KeysIn(results)
  <2>1. Books /\ generation \in Nat
    BY <1>3 DEF BooksInv, ViewTypes
  <2>2. KeysIn(results)' = KeysIn(results) /\ KeysOf(queue)' = KeysOf(queue') /\ Apart(results)'
    BY <2>1 DEF KeysIn, KeysOf, Apart, Books
  <2>3. Held' = KeysOf(queue') \cup others
    BY <2>2 DEF Held
  <2>4. Sorted(queue)'
    BY <1>3 DEF Sorted, KeysIn, Apart
  <2>5. \A key \in others : key.gen \in 0 .. generation
    BY <2>1 DEF Books, Held
  <2>6. \A key \in Held' : key.gen \in 0 .. generation
    BY <1>3, <2>1, <2>3, <2>5
  <2>7. (\A v, w \in Busy : worker[v].key = worker[w].key => v = w)'
    BY <2>1 DEF Books
  <2>8. BusyKeys \cap KeysIn(results) = {}
    BY <2>1 DEF Books
  <2>9. pending' = {key \in Held' : key.gen = generation'}
    BY <1>3, <2>3
  <2> QED  BY <1>3, <2>2, <2>4, <2>6, <2>7, <2>8, <2>9 DEF Books
<1> QED  BY <1>1, <1>2, <1>3 DEF BooksInv

(* The invariant as the steps of an open runtime use it.                     *)
LEMMA InTheBooks ==
  ASSUME BooksInv, open
  PROVE  /\ Sorted(queue) /\ Budget(queue) /\ queue \in Queues /\ queue.generation = generation
         /\ \A key \in KeysOf(queue) : key.gen = generation
         /\ KeysOf(queue) \cap (BusyKeys \cup KeysIn(results)) = {}
         /\ pending = {key \in KeysOf(queue) \cup BusyKeys \cup KeysIn(results) : key.gen = generation}
BY DEF BooksInv, Books, Held, QueueTypes, QueueWithinBudget, Budget, Depth

(* Asking for what was asked for may move it forward in the queue. *)
LEMMA AskingAgainIsGood ==
  ASSUME BooksInv, open, ViewTypes', UNCHANGED <<generation, open, results>>,
         NEW key, NEW class, AlreadyRequested(key, class)
  PROVE  BooksInv'
<1>1. pending' = pending
  BY DEF AlreadyRequested
<1>2. WorkerTypes
  BY DEF BooksInv
<1>3. CASE UNCHANGED <<queue, worker>>
  <2>1. WorkerTypes' /\ BusyKeys' = BusyKeys /\ Busy' = Busy /\ \A w \in Busy : worker'[w] = worker[w]
    BY <1>2, <1>3, WakingIsHarmless
  <2> QED  BY <1>1, <1>3, <2>1, InTheBooks, BooksBesideTheQueue
<1>4. CASE ~UNCHANGED <<queue, worker>>
  <2> DEFINE S == {n \in DOMAIN queue.prefetch : queue.prefetch[n].key = key}
             i == Min(S)
             job == queue.prefetch[i]
             q == [queue EXCEPT !.visible = Append(@, job), !.prefetch = RemoveAt(@, i)]
  <2>1. S # {} /\ queue' = q /\ NotifyOne
    BY <1>4 DEF AlreadyRequested, Promote
  <2>2. i \in 1 .. Len(queue.prefetch)
    <3>1. queue.prefetch \in Seq(Job)
      BY InTheBooks, QueueFacts
    <3>2. S \in SUBSET Nat /\ S \subseteq 1 .. Len(queue.prefetch)
      BY <3>1
    <3> HIDE DEF S
    <3>3. PICK k \in S : \A j \in S : k <= j
      BY <2>1, <3>2, LeastNumber
    <3>4. Min(S) \in S
      BY <3>3 DEF Min
    <3> QED  BY <3>2, <3>4
  <2> HIDE DEF i
  <2>3. /\ q \in Queues /\ q.generation = queue.generation /\ Budget(q) /\ Sorted(q)
        /\ KeysOf(q) = KeysOf(queue)
    BY <2>2, InTheBooks, PromotedIsGood
  <2>4. WorkerTypes' /\ BusyKeys' = BusyKeys /\ Busy' = Busy /\ \A w \in Busy : worker'[w] = worker[w]
    BY <1>2, <2>1, WakingIsHarmless
  <2> HIDE DEF q
  <2> QED  BY <1>1, <2>1, <2>3, <2>4, InTheBooks, BooksBesideTheQueue
<1> QED  BY <1>3, <1>4

(* A job is queued for a key that nothing has. *)
LEMMA QueueingIsGood ==
  ASSUME BooksInv, open, ViewTypes', UNCHANGED <<generation, open, results>>,
         NEW row \in RowIds, NEW key \in Key, key.gen = generation, NEW class,
         QueueJob(row, key, class)
  PROVE  BooksInv'
<1> DEFINE job == [key |-> key, bytes |-> IF IsFull(key) THEN 0 ELSE HunkBytes[row]]
           q == Pushed(job, class)
<1>1. WorkerTypes
  BY DEF BooksInv
<1>2. job \in Job /\ job.key = key
  <2>1. HunkBytes[row] \in Nat
    BY LimitsAssumption DEF RowIds
  <2> QED  BY <2>1 DEF Job
<1> HIDE DEF job
<1>3. \/ AlreadyRequested(key, class)
      \/ UNCHANGED <<queue, worker, pending>>
      \/ /\ key \notin pending /\ Admits(job, class) /\ queue' = q
         /\ pending' = PendingAfterPush(key, q) /\ NotifyOne
  BY DEF QueueJob, job
<1>4. CASE UNCHANGED <<queue, worker, pending>>
  <2>1. WorkerTypes' /\ BusyKeys' = BusyKeys /\ Busy' = Busy /\ \A w \in Busy : worker'[w] = worker[w]
    BY <1>1, <1>4, WakingIsHarmless
  <2> QED  BY <1>4, <2>1, InTheBooks, BooksBesideTheQueue
<1>5. CASE /\ key \notin pending /\ Admits(job, class) /\ queue' = q
           /\ pending' = PendingAfterPush(key, q) /\ NotifyOne
  <2>1. key \notin KeysOf(queue) \cup BusyKeys \cup KeysIn(results)
    BY <1>5, InTheBooks
  <2>2. /\ q \in Queues /\ q.generation = queue.generation /\ Budget(q) /\ Sorted(q)
        /\ key \in KeysOf(q) /\ KeysOf(q) \subseteq KeysOf(queue) \cup {key}
    BY <1>2, <1>5, <2>1, InTheBooks, PushedIsGood
  <2>3. WorkerTypes' /\ BusyKeys' = BusyKeys /\ Busy' = Busy /\ \A w \in Busy : worker'[w] = worker[w]
    BY <1>1, <1>5, WakingIsHarmless
  <2> DEFINE others == BusyKeys \cup KeysIn(results)
  <2>4. pending' = (pending \ (KeysOf(queue) \ KeysOf(q))) \cup {key}
    BY <1>5 DEF PendingAfterPush
  <2> HIDE DEF q, others
  <2>5. /\ pending = {k \in KeysOf(queue) \cup others : k.gen = generation}
        /\ KeysOf(queue) \cap others = {} /\ key \notin others
        /\ \A k \in KeysOf(queue) : k.gen = generation
    BY <2>1, InTheBooks DEF others
  <2>6. \A k \in KeysOf(q) : k.gen = generation
    BY <2>2, <2>5
  <2>7. KeysOf(q) \cap others = {}
    BY <2>2, <2>5
  <2>8. pending' = {k \in KeysOf(q) \cup others : k.gen = generation}
    BY <2>2, <2>4, <2>5, <2>6
  <2> QED  BY <1>5, <2>2, <2>3, <2>6, <2>7, <2>8, InTheBooks, BooksBesideTheQueue DEF others
<1> QED  BY <1>3, <1>4, <1>5, AskingAgainIsGood

(* A frame asks for rows of the view. *)
LEMMA RequestsAreRows ==
  ASSUME NEW first \in Nat \ {0}, NEW last \in Int, last <= Len(Rows),
         NEW class \in {"visible", "prefetch"}
  PROVE  Requests(first, last, class) \in Seq(RowIds \X {"visible", "prefetch"})
<1> DEFINE n == last - first + 1
           Ask == RowIds \X {"visible", "prefetch"}
           s == [i \in 1 .. n |-> <<first + i - 1, class>>]
<1>1. n \in Int /\ Len(Rows) \in Nat
  BY LimitsAssumption
<1>2. \A i \in 1 .. n : first + i - 1 \in 1 .. Len(Rows)
  BY <1>1
<1>3. \A i \in 1 .. n : <<first + i - 1, class>> \in Ask
  BY <1>2 DEF RowIds
<1> DEFINE m == IF n \in Nat THEN n ELSE 0
<1>4. m \in Nat /\ 1 .. n = 1 .. m
  BY <1>1
<1> HIDE DEF n, Ask, m
<1>5. s \in [1 .. m -> Ask]
  BY <1>3, <1>4
<1> HIDE DEF s
<1>6. s \in Seq(Ask)
  BY <1>4, <1>5
<1> QED  BY <1>6 DEF Requests, s, n, Ask

(* The rows a frame asks for, visible, ahead and behind, are rows of the     *)
(* view.                                                                     *)
LEMMA FramesAskForRows ==
  ASSUME BooksInv, StartFrame
  PROVE  todo' \in Seq(RowIds \X {"visible", "prefetch"})
<1> DEFINE Ask == RowIds \X {"visible", "prefetch"}
           a == Requests(top, top + VisibleRows - 1, "visible")
<1>1. /\ Len(Rows) \in Nat /\ VisibleRows \in 1 .. Len(Rows) /\ PrefetchRows \in Nat
      /\ top \in 1 .. (Len(Rows) - VisibleRows + 1)
  BY LimitsAssumption DEF BooksInv, ViewTypes
<1>2. a \in Seq(Ask)
  <2>1. top \in Nat \ {0} /\ top + VisibleRows - 1 \in Int /\ top + VisibleRows - 1 <= Len(Rows)
    BY <1>1
  <2> QED  BY <2>1, RequestsAreRows
<1>3. Ahead \in Seq(Ask)
  <2> DEFINE last == top + VisibleRows - 1 + PrefetchRows
             end == IF last < Len(Rows) THEN last ELSE Len(Rows)
  <2>1. top + VisibleRows \in Nat \ {0} /\ end \in Int /\ end <= Len(Rows)
    BY <1>1
  <2>2. Ahead = Requests(top + VisibleRows, end, "prefetch")
    BY DEF Ahead
  <2> HIDE DEF end
  <2> QED  BY <2>1, <2>2, RequestsAreRows
<1>4. Behind \in Seq(Ask)
  <2> DEFINE start == IF PrefetchRows < top THEN top - PrefetchRows ELSE 1
  <2>1. start \in Nat \ {0} /\ top - 1 \in Int /\ top - 1 <= Len(Rows)
    BY <1>1
  <2>2. Behind = Requests(start, top - 1, "prefetch")
    BY DEF Behind
  <2> HIDE DEF start
  <2> QED  BY <2>1, <2>2, RequestsAreRows
<1>5. todo' = a \o Ahead \o Behind
  BY DEF StartFrame
<1> HIDE DEF Ask, a
<1>6. a \o Ahead \in Seq(Ask)
  BY <1>2, <1>3
<1> DEFINE b == a \o Ahead
<1> HIDE DEF b
<1>7. b \o Behind \in Seq(Ask)
  BY <1>4, <1>6 DEF b
<1> QED  BY <1>5, <1>7 DEF Ask, b

(* Asking for a row. *)
LEMMA AskingIsGood ==
  ASSUME BooksInv, AskRow
  PROVE  BooksInv'
<1> DEFINE row == Head(todo)[1]
           class == Head(todo)[2]
<1>1. /\ todo \in Seq(RowIds \X {"visible", "prefetch"}) /\ todo # <<>>
      /\ todo' = Tail(todo) /\ open /\ generation \in Nat
      /\ UNCHANGED <<generation, top, ui, results, open>>
  BY DEF BooksInv, ViewTypes, AskRow
<1>2. row \in RowIds
  <2>1. Head(todo) \in RowIds \X {"visible", "prefetch"}
    BY <1>1
  <2> QED  BY <2>1
<1>3. ViewTypes'
  <2>1. Tail(todo) \in Seq(RowIds \X {"visible", "prefetch"})
    BY <1>1
  <2> QED  BY <1>1, <2>1 DEF BooksInv, ViewTypes
<1>4. QueueFullFile(row, class) \/ QueueHunk(row, class)
  BY DEF AskRow
<1> HIDE DEF row, class
<1>5. Full(Rows[row].file) \in Key /\ Hunk(row) \in Key
  BY <1>1, <1>2 DEF Full, Hunk, Key, Files, Hunks
<1>6. Full(Rows[row].file).gen = generation /\ Hunk(row).gen = generation
  BY DEF Full, Hunk
<1>7. \/ UNCHANGED <<queue, worker, pending>>
      \/ \E key : AlreadyRequested(key, class)
      \/ QueueJob(row, Full(Rows[row].file), class)
      \/ QueueJob(row, Hunk(row), class)
  <2>1. CASE QueueFullFile(row, class)
    BY <2>1 DEF QueueFullFile
  <2>2. CASE QueueHunk(row, class)
    BY <2>2, Zenon DEF QueueHunk, Skip
  <2> QED  BY <1>4, <2>1, <2>2
<1>8. CASE UNCHANGED <<queue, worker, pending>>
  <2>1. WorkerTypes' /\ BusyKeys' = BusyKeys /\ Busy' = Busy /\ \A w \in Busy : worker'[w] = worker[w]
    BY <1>8, WakingIsHarmless DEF BooksInv
  <2> QED  BY <1>1, <1>3, <1>8, <2>1, InTheBooks, BooksBesideTheQueue
<1>9. CASE \E key : AlreadyRequested(key, class)
  BY <1>1, <1>3, <1>9, AskingAgainIsGood
<1>10. CASE QueueJob(row, Full(Rows[row].file), class)
  BY <1>1, <1>2, <1>3, <1>5, <1>6, <1>10, QueueingIsGood
<1>11. CASE QueueJob(row, Hunk(row), class)
  BY <1>1, <1>2, <1>3, <1>5, <1>6, <1>11, QueueingIsGood
<1> QED  BY <1>7, <1>8, <1>9, <1>10, <1>11

(* Steps that leave queue, threads and channel alone. *)
LEMMA BooksUnread ==
  ASSUME BooksInv, ViewTypes', UNCHANGED <<generation, queue, pending, worker, results, open>>
  PROVE  BooksInv'
<1>1. WorkerTypes' /\ BusyKeys' = BusyKeys /\ Busy' = Busy /\ \A w \in Busy : worker'[w] = worker[w]
  BY WakingIsHarmless DEF BooksInv
<1>2. open => /\ Sorted(queue) /\ (\A key \in KeysOf(queue) : key.gen = generation)
              /\ KeysOf(queue) \cap (BusyKeys \cup KeysIn(results)) = {}
              /\ pending = {key \in KeysOf(queue) \cup BusyKeys \cup KeysIn(results) :
                              key.gen = generation}
  BY InTheBooks
<1>3. queue \in Queues /\ queue.generation = generation /\ Budget(queue)
  BY DEF BooksInv, QueueTypes, QueueWithinBudget, Budget, Depth
<1> QED  BY <1>1, <1>2, <1>3, BooksBesideTheQueue

(* A result is taken from the channel. *)
LEMMA DrainingIsGood ==
  ASSUME BooksInv, DrainResult
  PROVE  BooksInv'
<1> DEFINE key == Head(results).key
           rest == Tail(results)
<1>1. /\ results \in Seq(Result) /\ results # <<>> /\ results' = rest /\ pending' = pending \ {key}
      /\ UNCHANGED <<generation, top, todo, ui, queue, worker, open>> /\ open
  BY DEF BooksInv, ViewTypes, DrainResult
<1>2. Books /\ QueueTypes /\ WorkerTypes /\ ViewTypes /\ QueueWithinBudget
  BY <1>1 DEF BooksInv
<1>3. Apart(results)
  BY <1>2 DEF Books
<1>4. KeysIn(rest) = KeysIn(results) \ {key} /\ Apart(rest) /\ key \in KeysIn(results)
  <2>1. 1 \in 1 .. Len(results) /\ Head(results) = results[1] /\ rest = Without(results, 1)
    BY <1>1, TailIsLess
  <2>2. KeysIn(rest) = KeysIn(results) \ {key} /\ Apart(rest)
    BY <1>1, <1>3, <2>1, KeysOfLess
  <2>3. 1 \in DOMAIN results /\ key = results[1].key
    BY <1>1, <2>1
  <2>4. key \in KeysIn(results)
    BY <2>3 DEF KeysIn
  <2> QED  BY <2>2, <2>4
<1>5. rest \in Seq(Result)
  BY <1>1
<1> HIDE DEF key, rest
<1>6. (QueueTypes /\ WorkerTypes /\ ViewTypes /\ QueueWithinBudget)'
  BY <1>1, <1>2 DEF QueueTypes, WorkerTypes, ViewTypes, QueueWithinBudget, Busy, Depth
<1>7. KeysOf(queue)' = KeysOf(queue) /\ BusyKeys' = BusyKeys /\ KeysIn(results)' = KeysIn(rest)
      /\ Sorted(queue)' = Sorted(queue) /\ Apart(results)' = Apart(rest) /\ Busy' = Busy
  BY <1>1 DEF KeysOf, BusyKeys, Busy, KeysIn, Sorted, Apart
<1>8. Held' = KeysOf(queue) \cup BusyKeys \cup (KeysIn(results) \ {key})
  BY <1>4, <1>7 DEF Held
<1>9. Held' = Held \ {key}
  <2>1. key \notin KeysOf(queue) /\ key \notin BusyKeys
    BY <1>2, <1>4 DEF Books
  <2> QED  BY <1>8, <2>1 DEF Held
<1>10. pending' = {k \in Held' : k.gen = generation'}
  <2>1. pending = {k \in Held : k.gen = generation}
    BY <1>2 DEF Books
  <2> QED  BY <1>1, <1>9, <2>1
<1>11. /\ KeysOf(queue) \cap BusyKeys = {} /\ KeysOf(queue) \cap KeysIn(rest) = {}
       /\ BusyKeys \cap KeysIn(rest) = {}
  BY <1>2, <1>4 DEF Books
<1>12. (\A k \in Held : k.gen \in 0 .. generation)' /\ (\A k \in KeysOf(queue) : k.gen = generation)'
  BY <1>1, <1>2, <1>7, <1>9 DEF Books
<1>13. (\A v, w \in Busy : worker[v].key = worker[w].key => v = w)'
  BY <1>1, <1>2, <1>7 DEF Books
<1>14. Books'
  BY <1>2, <1>4, <1>7, <1>10, <1>11, <1>12, <1>13 DEF Books
<1> QED  BY <1>1, <1>5, <1>6, <1>14 DEF BooksInv

(* The diff is replaced: nothing queued survives, nothing held is current.   *)
LEMMA ReloadingIsGood ==
  ASSUME BooksInv, Reload
  PROVE  BooksInv'
<1> DEFINE q == [queue EXCEPT !.generation = generation + 1, !.visible = <<>>,
                              !.prefetch = <<>>, !.bytes = 0]
<1>1. /\ open /\ generation \in Nat /\ generation' = generation + 1 /\ pending' = {}
      /\ UNCHANGED <<top, todo, ui, results, open>> /\ worker' = Wake(Waiting)
      /\ SetGeneration(generation + 1)
  BY DEF BooksInv, ViewTypes, Reload, SetGeneration
<1>2. Books /\ queue \in Queues /\ WorkerTypes /\ ViewTypes /\ results \in Seq(Result)
  BY <1>1 DEF BooksInv, QueueTypes
<1>3. queue.visible \in Seq(Job) /\ queue.prefetch \in Seq(Job)
  BY <1>2, QueueFacts
<1>4. OfGeneration(queue.visible, generation + 1) = <<>>
  <2>1. ASSUME NEW k \in 1 .. Len(queue.visible)
        PROVE  queue.visible[k].key.gen # generation + 1
    <3>1. queue.visible[k].key \in KeysOf(queue)
      BY <1>3 DEF KeysOf
    <3>2. queue.visible[k].key.gen = generation
      BY <1>2, <3>1 DEF Books
    <3> QED  BY <1>1, <3>2
  <2> QED  BY <1>3, <2>1, NothingOfGeneration
<1>5. OfGeneration(queue.prefetch, generation + 1) = <<>>
  <2>1. ASSUME NEW k \in 1 .. Len(queue.prefetch)
        PROVE  queue.prefetch[k].key.gen # generation + 1
    <3>1. queue.prefetch[k].key \in KeysOf(queue)
      BY <1>3 DEF KeysOf
    <3>2. queue.prefetch[k].key.gen = generation
      BY <1>2, <3>1 DEF Books
    <3> QED  BY <1>1, <3>2
  <2> QED  BY <1>3, <2>1, NothingOfGeneration
<1>6. queue' = q
  <2>1. Bytes(<<>>) + Bytes(<<>>) = 0
    BY BytesOfNothing
  <2> QED  BY <1>1, <1>4, <1>5, <2>1 DEF SetGeneration
<1>7. /\ q \in Queues /\ q.generation = generation + 1 /\ q.visible = <<>> /\ q.prefetch = <<>>
      /\ q.bytes = 0
  <2>1. generation + 1 \in Nat /\ <<>> \in Seq(Job)
    BY <1>1
  <2> QED  BY <1>2, <2>1 DEF Queues
<1> HIDE DEF q
<1>8. QueueTypes' /\ ViewTypes'
  BY <1>1, <1>2, <1>6, <1>7 DEF QueueTypes, ViewTypes
<1>9. WorkerTypes' /\ BusyKeys' = BusyKeys /\ Busy' = Busy /\ \A w \in Busy : worker'[w] = worker[w]
  BY <1>1, <1>2, WakingIsHarmless
<1>10. QueueWithinBudget'
  BY <1>6, <1>7, BytesOfNothing, LimitsAssumption DEF QueueWithinBudget, Depth
<1>11. KeysOf(queue)' = {} /\ KeysIn(results)' = KeysIn(results) /\ Apart(results)' /\ Sorted(queue)'
  BY <1>1, <1>2, <1>6, <1>7 DEF KeysOf, KeysIn, Apart, Sorted, Books
<1>12. Held' = BusyKeys \cup KeysIn(results)
  BY <1>9, <1>11 DEF Held
<1>13. \A key \in Held' : key.gen \in 0 .. generation
  BY <1>2, <1>12 DEF Books, Held
<1>14. (\A key \in Held : key.gen \in 0 .. generation)'
  BY <1>1, <1>13
<1>15. (pending = {key \in Held : key.gen = generation})'
  BY <1>1, <1>13
<1>16. (\A v, w \in Busy : worker[v].key = worker[w].key => v = w)'
  BY <1>2, <1>9 DEF Books
<1>17. BusyKeys' \cap KeysIn(results)' = {}
  BY <1>2, <1>9, <1>11 DEF Books
<1>18. Books'
  BY <1>11, <1>14, <1>15, <1>16, <1>17 DEF Books
<1> QED  BY <1>1, <1>2, <1>8, <1>9, <1>10, <1>18 DEF BooksInv

(* The runtime is dropped: from then on only the limits matter.              *)
LEMMA DroppingIsGood ==
  ASSUME BooksInv, DropStart \/ DropQueue \/ Joined
  PROVE  BooksInv'
<1>1. CASE DropStart
  <2>1. /\ UNCHANGED <<generation, top, todo, queue, pending, worker>>
        /\ ui' = "dropping" /\ open' = FALSE /\ results' = <<>>
    BY <1>1 DEF DropStart, asked
  <2>2. ViewTypes'
    BY <2>1 DEF BooksInv, ViewTypes
  <2>3. QueueTypes' /\ WorkerTypes' /\ QueueWithinBudget'
    BY <2>1 DEF BooksInv, QueueTypes, WorkerTypes, Busy, QueueWithinBudget, Depth
  <2>4. results' \in Seq(Result)
    BY <2>1
  <2> QED  BY <2>1, <2>2, <2>3, <2>4 DEF BooksInv
<1>2. CASE Joined
  <2>1. ViewTypes'
    BY <1>2 DEF Joined, BooksInv, ViewTypes
  <2> QED  BY <1>2, <2>1, BooksUnread DEF Joined, asked
<1>3. CASE DropQueue
  <2> DEFINE q == [queue EXCEPT !.closed = TRUE, !.visible = <<>>, !.prefetch = <<>>, !.bytes = 0]
  <2>1. /\ queue' = q /\ worker' = Wake(Waiting)
        /\ UNCHANGED <<generation, top, todo, results, open, pending>>
        /\ ui = "dropping" /\ ui' = "joining" /\ ~open
    BY <1>3 DEF DropQueue, CloseQueue, asked, BooksInv, ViewTypes
  <2>2. /\ queue \in Queues /\ queue.generation = generation /\ WorkerTypes /\ ViewTypes
        /\ results \in Seq(Result)
    BY DEF BooksInv, QueueTypes
  <2>3. /\ q \in Queues /\ q.generation = queue.generation /\ q.visible = <<>> /\ q.prefetch = <<>>
        /\ q.bytes = 0
    <3>1. <<>> \in Seq(Job)
      OBVIOUS
    <3> QED  BY <2>2, <3>1 DEF Queues
  <2> HIDE DEF q
  <2>4. Budget(q)
    BY <2>3, BytesOfNothing, LimitsAssumption DEF Budget
  <2>5. WorkerTypes' /\ BusyKeys' = BusyKeys /\ Busy' = Busy /\ \A w \in Busy : worker'[w] = worker[w]
    BY <2>1, <2>2, WakingIsHarmless
  <2>6. ViewTypes'
    BY <2>1, <2>2 DEF ViewTypes
  <2>7. KeysOf(q) = {} /\ Sorted(q)
    BY <2>3 DEF KeysOf, Sorted, Apart, KeysIn
  <2>8. QueueTypes' /\ QueueWithinBudget' /\ (results \in Seq(Result))'
    BY <2>1, <2>2, <2>3, <2>4 DEF QueueTypes, QueueWithinBudget, Budget, Depth
  <2> QED  BY <1>3, <2>1, <2>5, <2>6, <2>8 DEF BooksInv
<1> QED  BY <1>1, <1>2, <1>3

(* A worker asks the queue for work. *)
LEMMA PoppingIsGood ==
  ASSUME BooksInv, NEW w \in Workers, Pop(w)
  PROVE  BooksInv'
<1>1. /\ worker[w].pc = "pop"
      /\ UNCHANGED <<generation, top, todo, ui, pending, results, open>>
  BY DEF Pop, asked
<1>2. QueueTypes /\ WorkerTypes /\ ViewTypes /\ QueueWithinBudget /\ results \in Seq(Result)
  BY DEF BooksInv
<1>3. w \notin Busy
  BY <1>1 DEF Busy
<1>4. ViewTypes' /\ (results \in Seq(Result))'
  BY <1>1, <1>2 DEF ViewTypes
<1>5. CASE PopEnds(w) \/ PopWaits(w)
  <2>1. PICK next \in {[pc |-> "exited"], [pc |-> "waiting"]} :
           UNCHANGED queue /\ worker' = [worker EXCEPT ![w] = next]
    BY <1>5 DEF PopEnds, PopWaits
  <2>2. DOMAIN worker' = Workers /\ worker'[w] = next
        /\ \A v \in Workers \ {w} : worker'[v] = worker[v]
    BY <1>2, <2>1 DEF WorkerTypes
  <2>3. next.pc \notin {"run", "send"}
    OBVIOUS
  <2>4. Busy' = Busy /\ \A v \in Busy : worker'[v] = worker[v]
    BY <1>3, <2>2, <2>3 DEF Busy
  <2>5. BusyKeys' = BusyKeys /\ WorkerTypes'
    BY <1>2, <2>2, <2>4 DEF BusyKeys, WorkerTypes
  <2>6. Budget(queue) /\ queue \in Queues /\ queue.generation = generation
    BY <1>2 DEF QueueTypes, QueueWithinBudget, Budget, Depth
  <2>7. open => /\ Sorted(queue) /\ (\A key \in KeysOf(queue) : key.gen = generation)
                /\ KeysOf(queue) \cap (BusyKeys \cup KeysIn(results)) = {}
                /\ pending = {key \in KeysOf(queue) \cup BusyKeys \cup KeysIn(results) :
                                key.gen = generation}
    BY InTheBooks
  <2> QED  BY <1>1, <1>4, <2>1, <2>4, <2>5, <2>6, <2>7, BooksBesideTheQueue
<1>6. ASSUME NEW class \in {"visible", "prefetch"}, PopTakes(w, class)
      PROVE  BooksInv'
  <2> DEFINE job == Head(queue[class])
             q == [queue EXCEPT ![class] = Tail(@), !.bytes = @ - job.bytes]
  <2>1. /\ queue[class] # <<>> /\ queue' = q
        /\ worker' = IF job.key.gen # queue.generation THEN worker
                     ELSE [worker EXCEPT ![w] = [pc |-> "run", key |-> job.key]]
    BY <1>6 DEF PopTakes
  <2>2. queue \in Queues /\ Budget(queue) /\ queue.generation = generation
    BY <1>2 DEF QueueTypes, QueueWithinBudget, Budget, Depth
  <2>3. /\ q \in Queues /\ q.generation = queue.generation /\ Budget(q)
        /\ job \in Job /\ job.key \in KeysOf(queue)
        /\ Sorted(queue) => Sorted(q) /\ KeysOf(q) = KeysOf(queue) \ {job.key}
    BY <2>1, <2>2, PoppedIsGood
  <2>4. job.key \in Key
    BY <2>3 DEF Job
  <2> HIDE DEF job, q
  <2>5. QueueTypes' /\ QueueWithinBudget'
    BY <1>1, <2>1, <2>2, <2>3 DEF QueueTypes, QueueWithinBudget, Budget, Depth
  <2>6. DOMAIN worker' = Workers /\ \A v \in Workers \ {w} : worker'[v] = worker[v]
    BY <1>2, <2>1 DEF WorkerTypes
  <2>7. CASE job.key.gen # queue.generation
    <3>1. worker' = worker
      BY <2>1, <2>7
    <3>2. WorkerTypes'
      BY <1>2, <3>1 DEF WorkerTypes, Busy
    <3>3. ~open
      <4>1. open => \A key \in KeysOf(queue) : key.gen = generation
        BY InTheBooks
      <4> QED  BY <2>2, <2>3, <2>7, <4>1
    <3> QED  BY <1>1, <1>4, <2>5, <3>2, <3>3 DEF BooksInv
  <2>8. CASE job.key.gen = queue.generation
    <3>1. worker'[w] = [pc |-> "run", key |-> job.key]
      BY <1>2, <2>1, <2>8 DEF WorkerTypes
    <3>2. Busy' = Busy \cup {w}
      BY <2>6, <3>1 DEF Busy
    <3>3. worker'[w].key = job.key /\ worker'[w].pc = "run" /\ \A v \in Busy : worker'[v] = worker[v]
      BY <1>3, <2>6, <3>1 DEF Busy
    <3>4. BusyKeys' = BusyKeys \cup {job.key}
      BY <3>2, <3>3 DEF BusyKeys
    <3>5. WorkerTypes'
      BY <1>2, <2>4, <2>6, <3>2, <3>3 DEF WorkerTypes
    <3>6. ASSUME open
          PROVE  Books'
      <4>1. Books /\ Sorted(queue)
        BY <3>6 DEF BooksInv, Books
      <4>2. KeysOf(queue)' = KeysOf(queue) \ {job.key} /\ Sorted(queue)'
        <5>1. KeysOf(queue)' = KeysOf(q)
          BY <2>1 DEF KeysOf
        <5>2. KeysIn(queue.visible)' = KeysIn(q.visible) /\ KeysIn(queue.prefetch)' = KeysIn(q.prefetch)
          BY <2>1 DEF KeysIn
        <5>3. Sorted(q)
          BY <2>3, <4>1
        <5>4. Apart(queue.visible)' /\ Apart(queue.prefetch)'
          BY <2>1, <5>3 DEF Sorted, Apart
        <5> QED  BY <2>3, <4>1, <5>1, <5>2, <5>3, <5>4 DEF Sorted
      <4>3. KeysIn(results)' = KeysIn(results) /\ Apart(results)'
        BY <1>1, <4>1 DEF KeysIn, Apart, Books
      <4>4. Held' = Held
        BY <2>3, <3>4, <4>2, <4>3 DEF Held
      <4>5. job.key \notin BusyKeys /\ job.key \notin KeysIn(results)
        BY <2>3, <4>1 DEF Books
      <4>6. (\A u, v \in Busy : worker[u].key = worker[v].key => u = v)'
        <5>1. \A v \in Busy : worker'[v].key = worker[v].key /\ worker[v].key # job.key
          BY <3>3, <4>5 DEF BusyKeys
        <5>2. \A u, v \in Busy : worker[u].key = worker[v].key => u = v
          BY <4>1 DEF Books
        <5> QED  BY <3>2, <3>3, <5>1, <5>2
      <4>7. /\ KeysOf(queue)' \cap BusyKeys' = {} /\ KeysOf(queue)' \cap KeysIn(results)' = {}
            /\ BusyKeys' \cap KeysIn(results)' = {}
        BY <3>4, <4>1, <4>2, <4>3, <4>5 DEF Books
      <4>8. /\ (\A key \in Held : key.gen \in 0 .. generation)'
            /\ (\A key \in KeysOf(queue) : key.gen = generation)'
            /\ (pending = {key \in Held : key.gen = generation})'
        BY <1>1, <4>1, <4>2, <4>4 DEF Books
      <4> QED  BY <4>2, <4>3, <4>6, <4>7, <4>8 DEF Books
    <3> QED  BY <1>1, <1>4, <2>5, <3>5, <3>6 DEF BooksInv
  <2> QED  BY <2>7, <2>8
<1> QED  BY <1>5, <1>6 DEF Pop

(* A queue left alone keeps its order.                                       *)
LEMMA SortedStays ==
  ASSUME Sorted(queue), UNCHANGED queue
  PROVE  Sorted(queue)'
<1>1. Apart(queue.visible)' /\ Apart(queue.prefetch)'
  BY DEF Sorted, Apart
<1>2. KeysIn(queue.visible)' = KeysIn(queue.visible)
  BY DEF KeysIn
<1>3. KeysIn(queue.prefetch)' = KeysIn(queue.prefetch)
  BY DEF KeysIn
<1> QED  BY <1>1, <1>2, <1>3 DEF Sorted

(* A worker does its job. *)
LEMMA RunningIsGood ==
  ASSUME BooksInv, NEW w \in Workers, Run(w)
  PROVE  BooksInv'
<1>1. PICK outcome \in Outcomes(worker[w].key.file, worker[w].key.hunk) :
         worker' = [worker EXCEPT ![w] = [pc |-> "send", key |-> worker[w].key, outcome |-> outcome]]
  BY DEF Run
<1>2. /\ worker[w].pc = "run"
      /\ UNCHANGED <<generation, top, todo, ui, queue, pending, results, open>>
  BY DEF Run, asked
<1>3. QueueTypes /\ WorkerTypes /\ ViewTypes /\ QueueWithinBudget /\ results \in Seq(Result)
  BY DEF BooksInv
<1>4. worker[w].key \in Key
  BY <1>2, <1>3 DEF WorkerTypes, Busy
<1>5. outcome \in Outcome
  <2>1. worker[w].key.file \in Files /\ worker[w].key.hunk \in Hunks
    BY <1>4 DEF Key
  <2> DEFINE key == [file |-> worker[w].key.file, hunk |-> worker[w].key.hunk]
  <2>2. key \in [file: Files, hunk: Hunks] /\ outcome \in Outcomes(key.file, key.hunk)
    BY <1>1, <2>1
  <2> HIDE DEF key
  <2> QED  BY <2>2 DEF Outcome
<1> DEFINE next == [pc |-> "send", key |-> worker[w].key, outcome |-> outcome]
<1>6. next.pc = "send" /\ next.key = worker[w].key /\ next.outcome = outcome
  OBVIOUS
<1>7. DOMAIN worker' = Workers /\ worker'[w] = next /\ \A v \in Workers \ {w} : worker'[v] = worker[v]
  BY <1>1, <1>3 DEF WorkerTypes
<1> HIDE DEF next
<1>8. Busy' = Busy
  BY <1>2, <1>6, <1>7 DEF Busy
<1>9. \A v \in Busy : worker'[v].key = worker[v].key
  BY <1>6, <1>7 DEF Busy
<1>10. BusyKeys' = BusyKeys
  BY <1>8, <1>9 DEF BusyKeys
<1>11. WorkerTypes'
  <2>1. ASSUME NEW v \in Busy
        PROVE  worker'[v].key \in Key /\ (worker'[v].pc = "send" => worker'[v].outcome \in Outcome)
    BY <1>3, <1>4, <1>5, <1>6, <1>7 DEF WorkerTypes, Busy
  <2> QED  BY <1>7, <1>8, <2>1 DEF WorkerTypes
<1>12. QueueTypes' /\ ViewTypes' /\ QueueWithinBudget' /\ (results \in Seq(Result))'
  BY <1>2, <1>3 DEF QueueTypes, ViewTypes, QueueWithinBudget, Depth
<1>13. ASSUME open
       PROVE  Books'
  <2>1. Books
    BY <1>13 DEF BooksInv
  <2>2. /\ KeysOf(queue)' = KeysOf(queue) /\ KeysIn(results)' = KeysIn(results)
        /\ Sorted(queue)' /\ Apart(results)'
    <3>1. KeysOf(queue)' = KeysOf(queue)
      BY <1>2 DEF KeysOf
    <3>2. KeysIn(results)' = KeysIn(results)
      BY <1>2 DEF KeysIn
    <3>3. Apart(results)'
      BY <1>2, <2>1 DEF Apart, Books
    <3>4. Sorted(queue)'
      BY <1>2, <2>1, SortedStays DEF Books
    <3> QED  BY <3>1, <3>2, <3>3, <3>4
  <2>3. Held' = Held
    BY <1>10, <2>2 DEF Held
  <2>4. (\A u, v \in Busy : worker[u].key = worker[v].key => u = v)'
    BY <1>8, <1>9, <2>1 DEF Books
  <2> QED  BY <1>2, <1>10, <2>1, <2>2, <2>3, <2>4 DEF Books
<1> QED  BY <1>2, <1>11, <1>12, <1>13 DEF BooksInv

(* A worker hands its result in, or finds the channel closed. *)
LEMMA SendingIsGood ==
  ASSUME BooksInv, NEW w \in Workers, Send(w)
  PROVE  BooksInv'
<1> DEFINE key == worker[w].key
           result == [key |-> key, outcome |-> worker[w].outcome]
<1>1. /\ worker[w].pc = "send"
      /\ UNCHANGED <<generation, top, todo, ui, queue, pending, open>>
  BY DEF Send, asked
<1>2. QueueTypes /\ WorkerTypes /\ ViewTypes /\ QueueWithinBudget /\ results \in Seq(Result)
  BY DEF BooksInv
<1>3. w \in Busy /\ key \in Key /\ worker[w].outcome \in Outcome
  BY <1>1, <1>2 DEF WorkerTypes, Busy
<1>4. result \in Result /\ result.key = key
  BY <1>3 DEF Result
<1> HIDE DEF result
<1>5. PICK next \in {[pc |-> "pop"], [pc |-> "exited"]} :
         /\ worker' = [worker EXCEPT ![w] = next]
         /\ IF open THEN results' = Append(results, result) ELSE UNCHANGED results
  BY DEF Send, result
<1>6. DOMAIN worker' = Workers /\ worker'[w] = next /\ \A v \in Workers \ {w} : worker'[v] = worker[v]
  BY <1>2, <1>5 DEF WorkerTypes
<1>7. next.pc \notin {"run", "send"}
  OBVIOUS
<1>8. Busy' = Busy \ {w} /\ \A v \in Busy' : worker'[v] = worker[v]
  BY <1>6, <1>7 DEF Busy
<1>9. WorkerTypes'
  BY <1>2, <1>6, <1>8 DEF WorkerTypes
<1>10. QueueTypes' /\ ViewTypes' /\ QueueWithinBudget'
  BY <1>1, <1>2 DEF QueueTypes, ViewTypes, QueueWithinBudget, Depth
<1>11. results' \in Seq(Result)
  <2>1. Append(results, result) \in Seq(Result)
    BY <1>2, <1>4
  <2> QED  BY <1>2, <1>5, <2>1
<1>12. ASSUME open
       PROVE  Books'
  <2>1. Books
    BY <1>12 DEF BooksInv
  <2>2. key \in BusyKeys /\ key \notin KeysIn(results) /\ key \notin KeysOf(queue)
    BY <1>3, <2>1 DEF BusyKeys, Books
  <2>3. BusyKeys' = BusyKeys \ {key}
    <3>1. \A v \in Busy \ {w} : worker[v].key # key
      BY <1>3, <2>1 DEF Books
    <3> QED  BY <1>8, <3>1 DEF BusyKeys
  <2>4. KeysIn(results') = KeysIn(results) \cup {key} /\ Apart(results')
    <3>1. Apart(results)
      BY <2>1 DEF Books
    <3>2. KeysIn(Append(results, result)) = KeysIn(results) \cup {result.key}
          /\ (Apart(results) /\ result.key \notin KeysIn(results) => Apart(Append(results, result)))
      BY <1>2, <1>4, KeysOfMore
    <3> QED  BY <1>4, <1>5, <1>12, <2>2, <3>1, <3>2
  <2>5. /\ KeysIn(results)' = KeysIn(results) \cup {key} /\ Apart(results)'
        /\ KeysOf(queue)' = KeysOf(queue) /\ Sorted(queue)'
    <3>1. KeysOf(queue)' = KeysOf(queue)
      BY <1>1 DEF KeysOf
    <3>2. KeysIn(results)' = KeysIn(results')
      BY DEF KeysIn
    <3>3. Apart(results)'
      BY <2>4 DEF Apart
    <3>4. Sorted(queue)'
      BY <1>1, <2>1, SortedStays DEF Books
    <3> QED  BY <2>4, <3>1, <3>2, <3>3, <3>4
  <2>6. Held' = Held
    BY <2>2, <2>3, <2>5 DEF Held
  <2>7. (\A u, v \in Busy : worker[u].key = worker[v].key => u = v)'
    BY <1>8, <2>1 DEF Books
  <2>8. /\ KeysOf(queue)' \cap BusyKeys' = {} /\ KeysOf(queue)' \cap KeysIn(results)' = {}
        /\ BusyKeys' \cap KeysIn(results)' = {}
    BY <2>1, <2>2, <2>3, <2>5 DEF Books
  <2>9. /\ (\A k \in Held : k.gen \in 0 .. generation)'
        /\ (\A k \in KeysOf(queue) : k.gen = generation)'
        /\ (pending = {k \in Held : k.gen = generation})'
    BY <1>1, <2>1, <2>5, <2>6 DEF Books
  <2> QED  BY <2>5, <2>7, <2>8, <2>9 DEF Books
<1> QED  BY <1>1, <1>9, <1>10, <1>11, <1>12 DEF BooksInv

(* What is in one place only is worked on once. *)
LEMMA PlacesOfAKey ==
  ASSUME NEW S, NEW q \in Seq(S), Apart(q), NEW key
  PROVE  LET places == {k \in DOMAIN q : q[k].key = key}
         IN  Cardinality(places) = IF key \in KeysIn(q) THEN 1 ELSE 0
<1> DEFINE places == {k \in DOMAIN q : q[k].key = key}
<1>1. CASE key \in KeysIn(q)
  <2>1. PICK i \in DOMAIN q : q[i].key = key
    BY <1>1 DEF KeysIn
  <2>2. places = {i}
    BY <2>1 DEF Apart
  <2> QED  BY <1>1, <2>2, FS_Singleton
<1>2. CASE key \notin KeysIn(q)
  <2>1. places = {}
    BY <1>2 DEF KeysIn
  <2> QED  BY <1>2, <2>1, FS_EmptySet
<1> QED  BY <1>1, <1>2

(* The invariant gives the property: a pending key is in exactly one of the  *)
(* four places, so the work behind it counts one.                            *)
LEMMA EachIsWorkedOnOnce ==
  ASSUME BooksInv
  PROVE  PendingIsWork
<1> SUFFICES ASSUME open
             PROVE  /\ \A key \in pending : WorkOfKey(key) = 1
                    /\ \A key \in KeysOf(queue) : key \in pending
  BY DEF PendingIsWork
<1>1. Books /\ queue \in Queues /\ results \in Seq(Result)
  BY DEF BooksInv, QueueTypes
<1>2. \A key \in KeysOf(queue) : key \in pending
  BY <1>1 DEF Books, Held
<1>3. ASSUME NEW key \in pending
      PROVE  WorkOfKey(key) = 1
  <2> DEFINE visible == {i \in DOMAIN queue.visible : queue.visible[i].key = key}
             prefetch == {i \in DOMAIN queue.prefetch : queue.prefetch[i].key = key}
             busy == {w \in Workers : worker[w].pc \in {"run", "send"} /\ worker[w].key = key}
             done == {i \in DOMAIN results : results[i].key = key}
  <2>1. /\ queue.visible \in Seq(Job) /\ queue.prefetch \in Seq(Job)
        /\ Apart(queue.visible) /\ Apart(queue.prefetch) /\ Apart(results)
        /\ KeysIn(queue.visible) \cap KeysIn(queue.prefetch) = {}
    BY <1>1, QueueFacts DEF Books, Sorted
  <2>2. Cardinality(visible) = IF key \in KeysIn(queue.visible) THEN 1 ELSE 0
    BY <2>1, PlacesOfAKey
  <2>3. Cardinality(prefetch) = IF key \in KeysIn(queue.prefetch) THEN 1 ELSE 0
    BY <2>1, PlacesOfAKey
  <2>4. Cardinality(done) = IF key \in KeysIn(results) THEN 1 ELSE 0
    BY <1>1, <2>1, PlacesOfAKey
  <2>5. Cardinality(busy) = IF key \in BusyKeys THEN 1 ELSE 0
    <3>1. busy = {w \in Busy : worker[w].key = key}
      BY DEF Busy
    <3> HIDE DEF busy
    <3>2. CASE key \in BusyKeys
      <4>1. PICK w \in Busy : worker[w].key = key
        BY <3>2 DEF BusyKeys
      <4>2. busy = {w}
        BY <1>1, <3>1, <4>1 DEF Books
      <4> QED  BY <3>2, <4>2, FS_Singleton
    <3>3. CASE key \notin BusyKeys
      <4>1. busy = {}
        BY <3>1, <3>3 DEF BusyKeys
      <4> QED  BY <3>3, <4>1, FS_EmptySet
    <3> QED  BY <3>2, <3>3
  <2>6. key \in KeysIn(queue.visible) \cup KeysIn(queue.prefetch) \cup BusyKeys \cup KeysIn(results)
    BY <1>1, KeysOfQueue DEF Books, Held
  <2>7. /\ (KeysIn(queue.visible) \cup KeysIn(queue.prefetch)) \cap BusyKeys = {}
        /\ (KeysIn(queue.visible) \cup KeysIn(queue.prefetch)) \cap KeysIn(results) = {}
        /\ BusyKeys \cap KeysIn(results) = {}
    BY <1>1, KeysOfQueue DEF Books
  <2>8. WorkOfKey(key) = Cardinality(visible) + Cardinality(prefetch) + Cardinality(busy) + Cardinality(done)
    BY DEF WorkOfKey
  <2> HIDE DEF visible, prefetch, busy, done
  <2> QED  BY <2>1, <2>2, <2>3, <2>4, <2>5, <2>6, <2>7, <2>8
<1> QED  BY <1>2, <1>3

(* The queue's byte count is that of what it holds, both limits are          *)
(* respected, and what the UI thread believes is under way is exactly what   *)
(* is queued, in a worker's hands or in the channel, each key once: through  *)
(* every push, eviction, promotion, pop, result, reload and drop             *)
(* (syntax/queue.rs, source.rs, runtime.rs).                                 *)
THEOREM BooksStayExact == Spec => []BooksAreExact
<1>1. Init => BooksInv
  <2> SUFFICES ASSUME Init PROVE BooksInv
    OBVIOUS
  <2>1. /\ generation = 0 /\ top = 1 /\ todo = <<>> /\ ui = "idle" /\ open = TRUE /\ results = <<>>
        /\ pending = {} /\ worker = [w \in Workers |-> [pc |-> "pop"]]
        /\ queue = [generation |-> 0, visible |-> <<>>, prefetch |-> <<>>, bytes |-> 0,
                    closed |-> FALSE]
    BY DEF Init
  <2>2. ViewTypes
    <3>1. 1 \in 1 .. (Len(Rows) - VisibleRows + 1)
      BY LimitsAssumption
    <3>2. <<>> \in Seq(RowIds \X {"visible", "prefetch"})
      OBVIOUS
    <3> QED  BY <2>1, <3>1, <3>2 DEF ViewTypes
  <2>3. QueueTypes
    <3>1. <<>> \in Seq(Job)
      OBVIOUS
    <3> QED  BY <2>1, <3>1 DEF QueueTypes, Queues
  <2>4. Busy = {} /\ WorkerTypes
    BY <2>1 DEF Busy, WorkerTypes
  <2>5. QueueWithinBudget
    BY <2>1, BytesOfNothing, LimitsAssumption DEF QueueWithinBudget, Depth
  <2>6. KeysOf(queue) = {} /\ BusyKeys = {} /\ KeysIn(results) = {}
    BY <2>1, <2>4 DEF KeysOf, BusyKeys, KeysIn
  <2>7. Apart(results) /\ Sorted(queue)
    BY <2>1 DEF Apart, Sorted, KeysIn
  <2>8. Books
    BY <2>1, <2>4, <2>6, <2>7 DEF Books, Held
  <2>9. results \in Seq(Result)
    BY <2>1
  <2> QED  BY <2>2, <2>3, <2>4, <2>5, <2>8, <2>9 DEF BooksInv
<1>2. BooksInv /\ [Next]_vars => BooksInv'
  <2> SUFFICES ASSUME BooksInv, [Next]_vars PROVE BooksInv'
    OBVIOUS
  <2>1. CASE StartFrame
    <3>1. todo' \in Seq(RowIds \X {"visible", "prefetch"})
      BY <2>1, FramesAskForRows
    <3>2. /\ ui = "idle" /\ ui' = "asking"
          /\ UNCHANGED <<generation, top, queue, pending, worker, results, open>>
      BY <2>1 DEF StartFrame, asked
    <3>3. ViewTypes'
      BY <3>1, <3>2 DEF BooksInv, ViewTypes
    <3> QED  BY <3>2, <3>3, BooksUnread
  <2>2. CASE Paint
    <3>1. /\ ui = "asking" /\ ui' = "idle"
          /\ UNCHANGED <<generation, top, todo, queue, pending, worker, results, open>>
      BY <2>2 DEF Paint
    <3>2. ViewTypes'
      BY <3>1 DEF BooksInv, ViewTypes
    <3> QED  BY <3>1, <3>2, BooksUnread
  <2>3. CASE Scroll
    <3>1. /\ top' \in 1 .. (Len(Rows) - VisibleRows + 1)
          /\ UNCHANGED <<generation, todo, ui, queue, pending, worker, results, open>>
      BY <2>3 DEF Scroll, asked
    <3>2. ViewTypes'
      BY <3>1 DEF BooksInv, ViewTypes
    <3> QED  BY <3>1, <3>2, BooksUnread
  <2>4. CASE UNCHANGED vars
    <3>1. UNCHANGED <<generation, top, todo, ui, queue, pending, worker, results, open>>
      BY <2>4 DEF vars, asked
    <3>2. ViewTypes'
      BY <3>1 DEF BooksInv, ViewTypes
    <3> QED  BY <3>1, <3>2, BooksUnread
  <2> QED  BY <2>1, <2>2, <2>3, <2>4, AskingIsGood, DrainingIsGood, ReloadingIsGood, DroppingIsGood,
              PoppingIsGood, RunningIsGood, SendingIsGood DEF Next, UiLoop, Dropping, WorkerStep
<1>3. BooksInv => BooksAreExact
  BY EachIsWorkedOnOnce DEF BooksAreExact, BooksInv
<1> QED  BY <1>1, <1>2, <1>3, PTL DEF Spec

---------------------------------------------------------------------------
(* The terminal. *)
ModeNames == {"raw", "screen", "mouse"}

Moments == {"raw", "enter", "start", "loop", "stop", "close", "join", "suspend mouse",
            "suspend screen", "suspend raw", "editor", "flush", "resume raw", "resume screen",
            "restart", "mouse off", "screen off", "raw off", "left"}

Marks == [kind : {T!Scroll}, n : Nat]
Inputs == [kind : T!Kinds \cup {T!Scroll}, n : Nat]
Sendable == Inputs \cup {T!Error}

Terminals == [modes : [ModeNames -> BOOLEAN],
              queue : Seq(Inputs), air : Seq(Marks)]
Readers == [at : {"gone", "poll", "read", "send", "drain"}, hand : Sendable \cup {T!Nothing},
            shutdown : BOOLEAN]
Channels == [events : Seq(Sendable), closed : BOOLEAN]
Uis == [at : Moments, then : {"", "mouse off", "suspend mouse"}, paused : BOOLEAN,
        tries : Int, ignoring : BOOLEAN, result : {"ok", "error"}]
Fences == [last : Nat, fenced : BOOLEAN, layer : {0, 1}]
Histories == [keys : Nat, scrolls : Nat, gesture : Nat, mine : SUBSET Nat,
              theirs : SUBSET Nat, handled : SUBSET Nat, shared : BOOLEAN,
              layers : SUBSET (Nat \X {0, 1}), late : BOOLEAN]
Calls == {"raw on", "enter", "start", "read", "effect", "suspend", "flush", "resume", "restart",
          "mouse off", "screen off", "raw off"}
Failures == [times : Nat, calls : SUBSET Calls, of : Scenarios]

TerminalTypes ==
    /\ tty \in Terminals /\ reader \in Readers /\ channel \in Channels
    /\ uiThread \in Uis /\ fence \in Fences /\ seen \in Histories /\ failures \in Failures
    /\ reader.at \in {"read", "send"} => reader.hand \in Sendable
    /\ uiThread.at \in {"stop", "close", "join"} => uiThread.then # ""

(* What the terminal is like at each moment.  "mouse off" failing leaves the  *)
(* reports on, and nothing can be said of them then.                         *)
GoneOr(mode) == tty.modes[mode] => T!GivenBackBy[mode] \in failures.calls

Place ==
    /\ uiThread.at = "raw" => T!NoScrolls(tty) /\ \A mode \in ModeNames : ~tty.modes[mode]
    /\ uiThread.at = "enter" => tty.modes.raw
    /\ uiThread.at \in {"suspend screen", "suspend raw", "editor"} => ~tty.modes.mouse /\ T!NoScrolls(tty)
    /\ uiThread.at \in {"suspend raw", "editor"} => ~tty.modes.screen
    /\ uiThread.at = "editor" => ~tty.modes.raw
    /\ uiThread.at \in {"screen off", "raw off", "left"} =>
          /\ GoneOr("mouse")
          /\ "mouse off" \notin failures.calls => T!NoScrolls(tty)
    /\ uiThread.at \in {"raw off", "left"} => GoneOr("screen")
    /\ uiThread.at = "left" => GoneOr("raw")
    /\ "resume" \notin failures.calls =>
          /\ uiThread.at = "resume screen" => tty.modes.raw
          /\ uiThread.at \in {"restart", "loop"} =>
                      \A mode \in ModeNames : tty.modes[mode]
    /\ uiThread.at = "start" => \A mode \in ModeNames : tty.modes[mode]

(* Where a key is between the terminal and the view. *)
Pipe == T!Keys(tty.queue) \cup T!Keys(<<reader.hand>>) \cup T!Keys(channel.events)

Away == {"suspend mouse", "suspend screen", "suspend raw", "editor", "flush", "resume raw",
         "resume screen", "restart"}

Alive == reader.at \in {"poll", "read", "send"} /\ ~reader.shutdown /\ ~channel.closed

(* Keys have been typed, and the reader holds one from a poll to a send.      *)
KeysTyped == Pipe \cup seen.theirs \cup seen.handled \subseteq 1..seen.keys
HandHeld == reader.at \notin {"read", "send"} => reader.hand = T!Nothing

(* The reader is gone while an editor that paused it has the terminal.        *)
PausedIsGone == ~seen.shared /\ uiThread.at \in Away => reader.at = "gone" /\ channel.events = <<>>
PauseKnown == uiThread.at \in {"stop", "close", "join"} /\ uiThread.then = "suspend mouse" => uiThread.paused

(* Keys typed for an editor are left in the queue until it is flushed.        *)
EditorsKeys ==
    ~seen.shared /\ "flush" \notin failures.calls =>
        /\ seen.theirs \cap seen.handled = {}
        /\ uiThread.at \notin {"editor", "flush"} => seen.theirs \cap Pipe = {}

(* In the loop, and while an editor that did not pause it runs, it reads on.  *)
Listening ==
    "read" \notin failures.calls =>
        /\ reader.hand # T!Error
        /\ (uiThread.at = "loop" \/ (uiThread.at \in Away /\ ~uiThread.paused)) => Alive

ViewsKeys ==
    "read" \notin failures.calls /\ uiThread.at = "loop" => seen.mine \subseteq seen.handled \cup Pipe

KeyInv == /\ KeysTyped /\ HandHeld /\ PausedIsGone /\ PauseKnown
          /\ EditorsKeys /\ Listening /\ ViewsKeys

Coming == T!Gestures(tty.air) \cup T!Gestures(tty.queue) \cup T!Gestures(<<reader.hand>>)
              \cup T!Gestures(channel.events)

Ordered(s) ==
    \A i, j \in T!Scrolls(s) : i <= j => s[i].n <= s[j].n

UpTo(A, B) == \A a \in A, b \in B : a <= b

(* Reports of the wheel keep their order on their way to the view, none is   *)
(* older than the last it came to, and none newer than the gesture made.     *)
OrderInv ==
    /\ Ordered(tty.air) /\ Ordered(tty.queue) /\ Ordered(channel.events)
    /\ UpTo(T!Gestures(tty.queue), T!Gestures(tty.air))
    /\ UpTo(T!Gestures(<<reader.hand>>), T!Gestures(tty.air) \cup T!Gestures(tty.queue))
    /\ UpTo(T!Gestures(channel.events),
            T!Gestures(tty.air) \cup T!Gestures(tty.queue) \cup T!Gestures(<<reader.hand>>))
    /\ Coming \subseteq fence.last..seen.gesture
    /\ fence.last <= seen.gesture
    /\ 0 \notin Coming
    /\ \A a \in seen.layers : a[1] \in 1..fence.last

(* While the view comes to reports in time, a gesture scrolls one layer: that *)
(* the fence remembers as long as the gesture may go on, unless it is fenced. *)
Scrolled ==
    ~seen.late =>
        /\ \A a, b \in seen.layers : a[1] = b[1] => a[2] = b[2]
        /\ (fence.last \in Coming \cup {seen.gesture}) =>
              \A a \in seen.layers : a[1] = fence.last => (a[2] = fence.layer \/ fence.fenced)

---------------------------------------------------------------------------
(* The types, and what a call that turns modes on or off does to them. *)

(* What may be in the channel is a key, a report of the wheel or an         *)
(* error.                                                                   *)
LEMMA InputIs ==
  ASSUME NEW e \in Sendable
  PROVE  e.n \in Nat /\ e.kind \in T!Kinds \cup {T!Scroll, "error"}
  BY DEF Sendable, Inputs, T!Error, T!Event

(* Turning modes on or off turns those, no other, and touches no input. *)
LEMMA TurnedIs ==
  ASSUME tty \in Terminals, NEW on \in BOOLEAN, NEW modes
  PROVE  /\ T!Turned(on, modes) \in Terminals
         /\ T!Turned(on, modes).queue = tty.queue /\ T!Turned(on, modes).air = tty.air
         /\ \A m \in ModeNames \cap modes : T!Turned(on, modes).modes[m] = on
         /\ \A m \in ModeNames \ modes : T!Turned(on, modes).modes[m] = tty.modes[m]
<1> DEFINE new == [m \in ModeNames |-> IF m \in modes THEN on ELSE tty.modes[m]]
<1>1. tty.modes \in [ModeNames -> BOOLEAN]
  BY DEF Terminals
<1>2. new \in [ModeNames -> BOOLEAN]
  BY <1>1
<1>3. T!Turned(on, modes) = [tty EXCEPT !.modes = new]
  BY <1>1 DEF T!Turned, Terminals
<1>4. \A m \in ModeNames : new[m] = IF m \in modes THEN on ELSE tty.modes[m]
  OBVIOUS
<1> HIDE DEF new
<1> QED  BY <1>2, <1>3, <1>4 DEF Terminals

(* Discarding input changes no mode. *)
LEMMA QuietIs ==
  ASSUME NEW t \in Terminals
  PROVE  /\ T!Settled(t) \in Terminals /\ T!Settled(t).modes = t.modes
         /\ T!Settled(t).queue = <<>> /\ T!Settled(t).air = <<>>
         /\ T!Flushed(t) \in Terminals /\ T!Flushed(t).modes = t.modes
         /\ T!Flushed(t).queue = <<>> /\ T!Flushed(t).air = t.air
<1>1. <<>> \in Seq(Inputs) /\ <<>> \in Seq(Marks)
  OBVIOUS
<1>2. \A q \in Seq(Inputs), a \in Seq(Marks) :
         /\ [t EXCEPT !.queue = q, !.air = a] \in Terminals
         /\ [t EXCEPT !.queue = q, !.air = a].modes = t.modes
         /\ [t EXCEPT !.queue = q, !.air = a].queue = q
         /\ [t EXCEPT !.queue = q, !.air = a].air = a
         /\ [t EXCEPT !.queue = q] \in Terminals /\ [t EXCEPT !.queue = q].modes = t.modes
         /\ [t EXCEPT !.queue = q].queue = q /\ [t EXCEPT !.queue = q].air = t.air
  BY DEF Terminals
<1> QED  BY <1>1, <1>2 DEF T!Settled, T!Flushed

(* A call that fails is remembered. *)
LEMMA FailsIs ==
  ASSUME failures \in Failures, NEW call \in Calls, T!Fails(call)
  PROVE  failures' \in Failures /\ failures'.calls = failures.calls \cup {call}
<1> DEFINE times == failures.times + 1
           calls == failures.calls \cup {call}
<1>1. times \in Nat /\ calls \in SUBSET Calls
  BY DEF Failures
<1>2. failures' = [failures EXCEPT !.times = times, !.calls = calls]
  BY DEF T!Fails
<1> HIDE DEF times
<1>3. failures' \in Failures /\ failures'.calls = calls
  <2> HIDE DEF calls
  <2> QED  BY <1>1, <1>2 DEF Failures
<1> QED  BY <1>3

(* A call that turns modes on or off: all of them, or it fails after some.   *)
SwitchTo(on, modes, call, next, onError) ==
    /\ tty' \in Terminals /\ tty'.queue = tty.queue /\ tty'.air = tty.air
    /\ \A m \in ModeNames \ modes : tty'.modes[m] = tty.modes[m]
    /\ \A m \in ModeNames \cap modes : tty'.modes[m] \in {tty.modes[m], on}
    /\ failures' \in Failures
    /\ \/ /\ failures' = failures /\ uiThread' = next
          /\ \A m \in ModeNames \cap modes : tty'.modes[m] = on
       \/ /\ failures'.calls = failures.calls \cup {call} /\ uiThread' = onError
          /\ \E m \in modes : tty'.modes[m] = tty.modes[m]

(* What a call that switches modes does, whether it fails or not. *)
LEMMA Switches ==
  ASSUME TerminalTypes, NEW on \in BOOLEAN, NEW modes \in SUBSET ModeNames, NEW call \in Calls,
         NEW next, NEW onError,
         \/ tty' = T!Turned(on, modes) /\ failures' = failures /\ uiThread' = next
         \/ /\ T!Fails(call) /\ uiThread' = onError
            /\ \E partly \in SUBSET modes : partly # modes /\ tty' = T!Turned(on, partly)
  PROVE  SwitchTo(on, modes, call, next, onError)
<1>1. tty \in Terminals /\ failures \in Failures
  BY DEF TerminalTypes
<1>2. CASE tty' = T!Turned(on, modes) /\ failures' = failures /\ uiThread' = next
  BY <1>1, <1>2, TurnedIs DEF SwitchTo
<1>3. CASE /\ T!Fails(call) /\ uiThread' = onError
           /\ \E partly \in SUBSET modes : partly # modes /\ tty' = T!Turned(on, partly)
  <2>1. PICK partly \in SUBSET modes : partly # modes /\ tty' = T!Turned(on, partly)
    BY <1>3
  <2>2. PICK m \in modes : m \notin partly
    BY <2>1
  <2>3. /\ tty' \in Terminals /\ tty'.queue = tty.queue /\ tty'.air = tty.air
        /\ \A x \in ModeNames \cap partly : tty'.modes[x] = on
        /\ \A x \in ModeNames \ partly : tty'.modes[x] = tty.modes[x]
    BY <1>1, <2>1, TurnedIs
  <2>4. \A x \in ModeNames \cap modes : tty'.modes[x] \in {tty.modes[x], on}
    BY <2>3
  <2>5. failures' \in Failures /\ failures'.calls = failures.calls \cup {call}
    BY <1>1, <1>3, FailsIs
  <2> QED  BY <1>3, <2>1, <2>2, <2>3, <2>4, <2>5 DEF SwitchTo
<1> QED  BY <1>2, <1>3

(* The UI thread moves on, with or without an error. *)
LEMMA UiMoves ==
  ASSUME uiThread \in Uis, NEW at \in Moments
  PROVE  /\ [uiThread EXCEPT !.at = at] \in Uis /\ [uiThread EXCEPT !.at = at].at = at
         /\ [uiThread EXCEPT !.at = at].paused = uiThread.paused
         /\ [uiThread EXCEPT !.at = at, !.result = "error"] \in Uis
         /\ [uiThread EXCEPT !.at = at, !.result = "error"].at = at
  BY DEF Uis

(* So it does with a number of tries left. *)
LEMMA UiTries ==
  ASSUME uiThread \in Uis, NEW at \in Moments, NEW tries \in Int
  PROVE  /\ [uiThread EXCEPT !.at = at, !.tries = tries] \in Uis
         /\ [uiThread EXCEPT !.at = at, !.tries = tries].at = at
         /\ [uiThread EXCEPT !.at = at, !.tries = tries].paused = uiThread.paused
  BY DEF Uis

(* What the other steps need of a step that fixes the terminal. *)
Frame ==
    /\ UNCHANGED <<reader, channel, fence, seen>>
    /\ tty'.queue \in {tty.queue, <<>>} /\ tty'.air \in {tty.air, <<>>}
    /\ failures.calls \subseteq failures'.calls
    /\ uiThread'.at \notin {"loop", "stop", "close", "join"}
    /\ uiThread'.at \in Away => uiThread.at \in Away /\ uiThread'.paused = uiThread.paused
    /\ uiThread.at \in {"editor", "flush"} /\ uiThread'.at \notin {"editor", "flush"}
         /\ "flush" \notin failures'.calls => tty'.queue = <<>>

(* A call that switches modes keeps the types and leaves the threads        *)
(* alone.                                                                   *)
LEMMA SwitchKeeps ==
  ASSUME TerminalTypes, NEW on, NEW modes, NEW call, NEW next \in Uis, NEW onError \in Uis,
         SwitchTo(on, modes, call, next, onError), UNCHANGED <<reader, channel, fence, seen>>,
         uiThread.at \notin {"editor", "flush"},
         \A x \in {next, onError} :
            /\ x.at \notin {"loop", "stop", "close", "join"}
            /\ x.at \in Away => uiThread.at \in Away /\ x.paused = uiThread.paused
  PROVE  TerminalTypes' /\ Frame
<1>1. uiThread' \in {next, onError} /\ failures.calls \subseteq failures'.calls
  BY DEF SwitchTo
<1>2. TerminalTypes'
  BY <1>1 DEF SwitchTo, TerminalTypes
<1>3. Frame
  BY <1>1 DEF SwitchTo, Frame
<1> QED  BY <1>2, <1>3

---------------------------------------------------------------------------
(* The steps that change modes or wait for an editor, one by one.            *)

(* The modes a terminal has. *)
LEMMA AllModes == "raw" \in ModeNames /\ "screen" \in ModeNames /\ "mouse" \in ModeNames
  BY DEF ModeNames

(* Raw mode is entered before anything else, from a terminal as a shell     *)
(* leaves it.                                                               *)
LEMMA EnterRawKeeps ==
  ASSUME TerminalTypes, Place, T!EnterRaw
  PROVE  TerminalTypes' /\ Place' /\ Frame
<1> DEFINE next == [uiThread EXCEPT !.at = "enter"]
           onError == [uiThread EXCEPT !.at = "left", !.result = "error"]
<1>1. /\ uiThread.at = "raw" /\ UNCHANGED <<reader, channel, fence, seen>> /\ uiThread \in Uis
      /\ "enter" \in Moments /\ "left" \in Moments /\ "raw on" \in Calls
      /\ {"raw"} \in SUBSET ModeNames /\ TRUE \in BOOLEAN
  BY DEF T!EnterRaw, T!Turn, T!UiOnly, TerminalTypes, Moments, Calls, ModeNames
<1>2. next \in Uis /\ next.at = "enter" /\ onError \in Uis /\ onError.at = "left"
  BY <1>1, UiMoves
<1>3. SwitchTo(TRUE, {"raw"}, "raw on", next, onError)
  <2>1. \/ tty' = T!Turned(TRUE, {"raw"}) /\ failures' = failures /\ uiThread' = next
        \/ /\ T!Fails("raw on") /\ uiThread' = onError
           /\ \E partly \in SUBSET {"raw"} : partly # {"raw"} /\ tty' = T!Turned(TRUE, partly)
    BY DEF T!EnterRaw, T!Switch, T!Go, T!GoFailing, T!Works
  <2> HIDE DEF next, onError
  <2> QED  BY <1>1, <2>1, Switches
<1> HIDE DEF next, onError
<1>4. TerminalTypes' /\ Frame
  BY <1>1, <1>2, <1>3, SwitchKeeps DEF Away
<1>5. CASE uiThread' = next /\ tty'.modes["raw"] = TRUE
  BY <1>2, <1>4, <1>5 DEF Place
<1>6. CASE uiThread' = onError /\ tty'.modes["raw"] = tty.modes["raw"]
  <2>1. \A m \in ModeNames : ~tty'.modes[m]
    BY <1>1, <1>3, <1>6 DEF Place, SwitchTo
  <2>2. T!NoScrolls(tty')
    BY <1>1, <1>3 DEF Place, T!NoScrolls, SwitchTo
  <2> QED  BY <1>2, <1>4, <1>6, <2>1, <2>2, AllModes DEF Place, GoneOr
<1>7. (uiThread' = next /\ tty'.modes["raw"] = TRUE) \/ (uiThread' = onError /\ tty'.modes["raw"] = tty.modes["raw"])
  BY <1>3, AllModes DEF SwitchTo
<1> QED  BY <1>4, <1>5, <1>6, <1>7

(* The screen and the mouse follow; of a call that fails, some may be on. *)
LEMMA EnterScreenKeeps ==
  ASSUME TerminalTypes, Place, T!EnterScreen
  PROVE  TerminalTypes' /\ Place' /\ Frame
<1> DEFINE next == [uiThread EXCEPT !.at = "start"]
           onError == [uiThread EXCEPT !.at = "mouse off", !.result = "error"]
<1>1. /\ uiThread.at = "enter" /\ UNCHANGED <<reader, channel, fence, seen>> /\ uiThread \in Uis
      /\ "start" \in Moments /\ "mouse off" \in Moments /\ "enter" \in Calls
      /\ {"screen", "mouse"} \in SUBSET ModeNames /\ TRUE \in BOOLEAN
  BY DEF T!EnterScreen, T!Turn, T!UiOnly, TerminalTypes, Moments, Calls, ModeNames
<1>2. next \in Uis /\ next.at = "start" /\ onError \in Uis /\ onError.at = "mouse off"
  BY <1>1, UiMoves
<1>3. SwitchTo(TRUE, {"screen", "mouse"}, "enter", next, onError)
  <2>1. \/ tty' = T!Turned(TRUE, {"screen", "mouse"}) /\ failures' = failures /\ uiThread' = next
        \/ /\ T!Fails("enter") /\ uiThread' = onError
           /\ \E partly \in SUBSET {"screen", "mouse"} :
                 partly # {"screen", "mouse"} /\ tty' = T!Turned(TRUE, partly)
    BY DEF T!EnterScreen, T!Switch, T!Go, T!GoFailing, T!Works
  <2> HIDE DEF next, onError
  <2> QED  BY <1>1, <2>1, Switches
<1> HIDE DEF next, onError
<1>4. TerminalTypes' /\ Frame
  BY <1>1, <1>2, <1>3, SwitchKeeps DEF Away
<1>5. CASE uiThread' = onError
  BY <1>2, <1>4, <1>5 DEF Place
<1>6. CASE uiThread' = next /\ \A m \in {"screen", "mouse"} : tty'.modes[m] = TRUE
  <2>1. tty'.modes["raw"] = tty.modes["raw"] /\ tty.modes["raw"]
    BY <1>1, <1>3, AllModes DEF Place, SwitchTo
  <2>2. \A m \in ModeNames : tty'.modes[m]
    BY <1>6, <2>1 DEF ModeNames
  <2> QED  BY <1>2, <1>4, <1>6, <2>2 DEF Place
<1>7. uiThread' = onError \/ (uiThread' = next /\ \A m \in {"screen", "mouse"} : tty'.modes[m] = TRUE)
  BY <1>3, AllModes DEF SwitchTo
<1> QED  BY <1>4, <1>5, <1>6, <1>7

(* disable_mouse_capture_and_discard_reports: the reports are off and nothing *)
(* is left of them, or the call failed.                                      *)
MouseOffTo(call, next, onError) ==
    /\ tty' \in Terminals /\ failures' \in Failures
    /\ tty'.queue \in {tty.queue, <<>>} /\ tty'.air \in {tty.air, <<>>}
    /\ \A m \in ModeNames \ {"mouse"} : tty'.modes[m] = tty.modes[m]
    /\ \/ /\ failures' = failures /\ uiThread' = next /\ T!NoScrolls(tty') /\ tty'.modes["mouse"] = FALSE
       \/ failures'.calls = failures.calls \cup {call} /\ uiThread' = onError

(* Turning the mouse off discards its reports, those under way too, or      *)
(* fails.                                                                   *)
LEMMA MouseGoesOff ==
  ASSUME TerminalTypes, NEW call \in Calls, NEW next, NEW onError,
         \/ tty' = T!Settled(T!Turned(FALSE, {"mouse"})) /\ failures' = failures /\ uiThread' = next
         \/ tty' \in {tty, T!Turned(FALSE, {"mouse"})} /\ T!Fails(call) /\ uiThread' = onError
  PROVE  MouseOffTo(call, next, onError)
<1> DEFINE t == T!Turned(FALSE, {"mouse"})
<1>1. tty \in Terminals /\ failures \in Failures /\ FALSE \in BOOLEAN
  BY DEF TerminalTypes
<1>2. /\ t \in Terminals /\ t.queue = tty.queue /\ t.air = tty.air /\ t.modes["mouse"] = FALSE
      /\ \A m \in ModeNames \ {"mouse"} : t.modes[m] = tty.modes[m]
  BY <1>1, TurnedIs, AllModes
<1> HIDE DEF t
<1>3. CASE tty' = T!Settled(t) /\ failures' = failures /\ uiThread' = next
  <2>1. /\ tty' \in Terminals /\ tty'.modes = t.modes /\ tty'.queue = <<>> /\ tty'.air = <<>>
    BY <1>2, <1>3, QuietIs
  <2>2. T!NoScrolls(tty')
    BY <2>1 DEF T!NoScrolls, T!Scrolls
  <2> QED  BY <1>1, <1>2, <1>3, <2>1, <2>2 DEF MouseOffTo
<1>4. CASE tty' \in {tty, t} /\ T!Fails(call) /\ uiThread' = onError
  <2>1. failures' \in Failures /\ failures'.calls = failures.calls \cup {call}
    BY <1>1, <1>4, FailsIs
  <2> QED  BY <1>1, <1>2, <1>4, <2>1 DEF MouseOffTo
<1> QED  BY <1>3, <1>4 DEF t

(* Turning the mouse off keeps the types and leaves the threads alone. *)
LEMMA MouseKeeps ==
  ASSUME TerminalTypes, NEW call, NEW next \in Uis, NEW onError \in Uis,
         MouseOffTo(call, next, onError), UNCHANGED <<reader, channel, fence, seen>>,
         uiThread.at \notin {"editor", "flush"},
         \A x \in {next, onError} :
            /\ x.at \notin {"loop", "stop", "close", "join"}
            /\ x.at \in Away => uiThread.at \in Away /\ x.paused = uiThread.paused
  PROVE  TerminalTypes' /\ Frame
<1>1. uiThread' \in {next, onError} /\ failures.calls \subseteq failures'.calls
  BY DEF MouseOffTo
<1>2. TerminalTypes'
  BY <1>1 DEF MouseOffTo, TerminalTypes
<1>3. Frame
  BY <1>1 DEF MouseOffTo, Frame
<1> QED  BY <1>2, <1>3

(* Where the UI thread goes on or gives up when it suspends or resumes. *)
LEMMA NextUis ==
  ASSUME uiThread \in Uis
  PROVE  /\ [uiThread EXCEPT !.at = "flush", !.tries = 1] \in Uis
         /\ [uiThread EXCEPT !.at = "flush", !.tries = 1].at = "flush"
         /\ [uiThread EXCEPT !.at = "flush", !.tries = 1].paused = uiThread.paused
         /\ \A x \in {"flush", "restart"} :
               /\ [uiThread EXCEPT !.at = x, !.tries = @ - 1] \in Uis
               /\ [uiThread EXCEPT !.at = x, !.tries = @ - 1].at = x
               /\ [uiThread EXCEPT !.at = x, !.tries = @ - 1].paused = uiThread.paused
<1>1. "flush" \in Moments /\ "restart" \in Moments
  BY DEF Moments
<1>2. \A x : [uiThread EXCEPT !.at = x, !.tries = @ - 1] = [uiThread EXCEPT !.at = x, !.tries = uiThread.tries - 1]
  BY DEF Uis
<1> DEFINE fewer == uiThread.tries - 1
<1> HIDE DEF fewer
<1>3. fewer \in Int /\ 1 \in Int
  <2>1. uiThread.tries \in Int
    BY DEF Uis
  <2> QED  BY <2>1 DEF fewer
<1>4. \A x \in {"flush", "restart"} :
         /\ [uiThread EXCEPT !.at = x, !.tries = fewer] \in Uis
         /\ [uiThread EXCEPT !.at = x, !.tries = fewer].at = x
         /\ [uiThread EXCEPT !.at = x, !.tries = fewer].paused = uiThread.paused
  BY <1>1, <1>3, UiTries
<1>5. \A x : [uiThread EXCEPT !.at = x, !.tries = @ - 1] = [uiThread EXCEPT !.at = x, !.tries = fewer]
  BY <1>2 DEF fewer
<1>6. /\ [uiThread EXCEPT !.at = "flush", !.tries = 1] \in Uis
      /\ [uiThread EXCEPT !.at = "flush", !.tries = 1].at = "flush"
      /\ [uiThread EXCEPT !.at = "flush", !.tries = 1].paused = uiThread.paused
  BY <1>1, <1>3, UiTries
<1> QED  BY <1>4, <1>5, <1>6

---------------------------------------------------------------------------
(* An editor: the modes are given up, and taken again. *)

(* The mouse goes off first when the terminal is suspended, with its        *)
(* reports.                                                                 *)
LEMMA SuspendMouseKeeps ==
  ASSUME TerminalTypes, Place, uiThread.at = "suspend mouse", T!Suspend
  PROVE  TerminalTypes' /\ Place' /\ Frame
<1> DEFINE next == [uiThread EXCEPT !.at = "suspend screen"]
           onError == [uiThread EXCEPT !.at = "flush", !.tries = 1]
<1>1. /\ UNCHANGED <<reader, channel, fence, seen>> /\ uiThread \in Uis
      /\ "suspend screen" \in Moments /\ "flush" \in Moments /\ "suspend" \in Calls
  BY DEF T!Suspend, T!Turn, T!Rest, T!UiOnly, TerminalTypes, Moments, Calls, ModeNames
<1>2. next \in Uis /\ next.at = "suspend screen" /\ next.paused = uiThread.paused
  BY <1>1, UiMoves
<1>3. onError \in Uis /\ onError.at = "flush" /\ onError.paused = uiThread.paused
  BY <1>1, NextUis
<1>4. MouseOffTo("suspend", next, onError)
  <2>1. \/ tty' = T!Settled(T!Turned(FALSE, {"mouse"})) /\ failures' = failures /\ uiThread' = next
        \/ tty' \in {tty, T!Turned(FALSE, {"mouse"})} /\ T!Fails("suspend") /\ uiThread' = onError
    BY DEF T!Suspend, T!MouseOff, T!Go, T!Works, T!Turn, T!SuspendFailed
  <2> HIDE DEF next, onError
  <2> QED  BY <1>1, <2>1, MouseGoesOff
<1> HIDE DEF next, onError
<1>5. TerminalTypes' /\ Frame
  <2>1. uiThread.at \notin {"editor", "flush"}
    OBVIOUS
  <2>2. \A x \in {next, onError} :
           /\ x.at \notin {"loop", "stop", "close", "join"}
           /\ x.at \in Away => uiThread.at \in Away /\ x.paused = uiThread.paused
    BY <1>2, <1>3 DEF Away
  <2> QED  BY <1>1, <1>2, <1>3, <1>4, <2>1, <2>2, MouseKeeps
<1>6. Place'
  <2>1. uiThread' = onError \/ (uiThread' = next /\ T!NoScrolls(tty') /\ tty'.modes["mouse"] = FALSE)
    BY <1>4, AllModes DEF MouseOffTo
  <2>2. failures.calls \subseteq failures'.calls
    BY <1>5 DEF Frame
  <2> QED  BY <1>2, <1>3, <2>1, <2>2, AllModes DEF Place, Away
<1> QED  BY <1>5, <1>6

(* Then the screen is left. *)
LEMMA SuspendScreenKeeps ==
  ASSUME TerminalTypes, Place, uiThread.at = "suspend screen", T!Suspend
  PROVE  TerminalTypes' /\ Place' /\ Frame
<1> DEFINE next == [uiThread EXCEPT !.at = "suspend raw"]
           onError == [uiThread EXCEPT !.at = "flush", !.tries = 1]
<1>1. /\ UNCHANGED <<reader, channel, fence, seen>> /\ uiThread \in Uis
      /\ "suspend raw" \in Moments /\ "flush" \in Moments /\ "suspend" \in Calls
      /\ {"screen"} \in SUBSET ModeNames /\ FALSE \in BOOLEAN
  BY DEF T!Suspend, T!Turn, T!Rest, T!UiOnly, TerminalTypes, Moments, Calls, ModeNames
<1>2. next \in Uis /\ next.at = "suspend raw" /\ next.paused = uiThread.paused
  BY <1>1, UiMoves
<1>3. onError \in Uis /\ onError.at = "flush" /\ onError.paused = uiThread.paused
  BY <1>1, NextUis
<1>4. SwitchTo(FALSE, {"screen"}, "suspend", next, onError)
  <2>1. \/ tty' = T!Turned(FALSE, {"screen"}) /\ failures' = failures /\ uiThread' = next
        \/ /\ T!Fails("suspend") /\ uiThread' = onError
           /\ \E partly \in SUBSET {"screen"} :
                 partly # {"screen"} /\ tty' = T!Turned(FALSE, partly)
    BY DEF T!Suspend, T!Switch, T!Go, T!Works, T!Turn, T!SuspendFailed
  <2> HIDE DEF next, onError
  <2> QED  BY <1>1, <2>1, Switches
<1> HIDE DEF next, onError
<1>5. TerminalTypes' /\ Frame
  <2>1. uiThread.at \notin {"editor", "flush"}
    OBVIOUS
  <2>2. \A x \in {next, onError} :
           /\ x.at \notin {"loop", "stop", "close", "join"}
           /\ x.at \in Away => uiThread.at \in Away /\ x.paused = uiThread.paused
    BY <1>2, <1>3 DEF Away
  <2> QED  BY <1>1, <1>2, <1>3, <1>4, <2>1, <2>2, SwitchKeeps
<1>6. Place'
  <2>1. \/ uiThread' = onError
        \/ /\ uiThread' = next /\ tty'.modes["screen"] = FALSE /\ tty'.modes["mouse"] = tty.modes["mouse"]
           /\ tty'.queue = tty.queue /\ tty'.air = tty.air
    BY <1>4, AllModes DEF SwitchTo
  <2>2. failures.calls \subseteq failures'.calls
    BY <1>5 DEF Frame
  <2> QED  BY <1>2, <1>3, <2>1, <2>2, AllModes DEF Place, T!NoScrolls
<1> QED  BY <1>5, <1>6

(* Then raw mode, and the editor has a terminal as a shell leaves it. *)
LEMMA SuspendRawKeeps ==
  ASSUME TerminalTypes, Place, uiThread.at = "suspend raw", T!Suspend
  PROVE  TerminalTypes' /\ Place' /\ Frame
<1> DEFINE next == [uiThread EXCEPT !.at = "editor"]
           onError == [uiThread EXCEPT !.at = "flush", !.tries = 1]
<1>1. /\ UNCHANGED <<reader, channel, fence, seen>> /\ uiThread \in Uis
      /\ "editor" \in Moments /\ "flush" \in Moments /\ "suspend" \in Calls
      /\ {"raw"} \in SUBSET ModeNames /\ FALSE \in BOOLEAN
  BY DEF T!Suspend, T!Turn, T!Rest, T!UiOnly, TerminalTypes, Moments, Calls, ModeNames
<1>2. next \in Uis /\ next.at = "editor" /\ next.paused = uiThread.paused
  BY <1>1, UiMoves
<1>3. onError \in Uis /\ onError.at = "flush" /\ onError.paused = uiThread.paused
  BY <1>1, NextUis
<1>4. SwitchTo(FALSE, {"raw"}, "suspend", next, onError)
  <2>1. \/ tty' = T!Turned(FALSE, {"raw"}) /\ failures' = failures /\ uiThread' = next
        \/ /\ T!Fails("suspend") /\ uiThread' = onError
           /\ \E partly \in SUBSET {"raw"} :
                 partly # {"raw"} /\ tty' = T!Turned(FALSE, partly)
    BY DEF T!Suspend, T!Switch, T!Go, T!Works, T!Turn, T!SuspendFailed
  <2> HIDE DEF next, onError
  <2> QED  BY <1>1, <2>1, Switches
<1> HIDE DEF next, onError
<1>5. TerminalTypes' /\ Frame
  <2>1. uiThread.at \notin {"editor", "flush"}
    OBVIOUS
  <2>2. \A x \in {next, onError} :
           /\ x.at \notin {"loop", "stop", "close", "join"}
           /\ x.at \in Away => uiThread.at \in Away /\ x.paused = uiThread.paused
    BY <1>2, <1>3 DEF Away
  <2> QED  BY <1>1, <1>2, <1>3, <1>4, <2>1, <2>2, SwitchKeeps
<1>6. Place'
  <2>1. \/ uiThread' = onError
        \/ /\ uiThread' = next /\ tty'.modes["raw"] = FALSE
           /\ tty'.modes["mouse"] = tty.modes["mouse"] /\ tty'.modes["screen"] = tty.modes["screen"]
           /\ tty'.queue = tty.queue /\ tty'.air = tty.air
    BY <1>4, AllModes DEF SwitchTo
  <2>2. failures.calls \subseteq failures'.calls
    BY <1>5 DEF Frame
  <2> QED  BY <1>2, <1>3, <2>1, <2>2, AllModes DEF Place, T!NoScrolls
<1> QED  BY <1>5, <1>6

(* Raw mode comes back first when the terminal is resumed, or it is tried   *)
(* again.                                                                   *)
LEMMA ResumeRawKeeps ==
  ASSUME TerminalTypes, Place, uiThread.at = "resume raw", T!Resume
  PROVE  TerminalTypes' /\ Place' /\ Frame
<1> DEFINE next == [uiThread EXCEPT !.at = "resume screen"]
           onError == [uiThread EXCEPT !.at = IF uiThread.tries > 1 THEN "flush" ELSE "restart", !.tries = @ - 1]
<1>1. /\ UNCHANGED <<reader, channel, fence, seen>> /\ uiThread \in Uis
      /\ "resume screen" \in Moments /\ "resume" \in Calls
      /\ {"raw"} \in SUBSET ModeNames /\ TRUE \in BOOLEAN
  BY DEF T!Resume, T!Turn, T!Rest, T!UiOnly, TerminalTypes, Moments, Calls, ModeNames
<1>2. next \in Uis /\ next.at = "resume screen" /\ next.paused = uiThread.paused
  BY <1>1, UiMoves
<1>3. onError \in Uis /\ onError.at \in {"flush", "restart"} /\ onError.paused = uiThread.paused
  BY <1>1, NextUis
<1>4. SwitchTo(TRUE, {"raw"}, "resume", next, onError)
  <2>1. \/ tty' = T!Turned(TRUE, {"raw"}) /\ failures' = failures /\ uiThread' = next
        \/ /\ T!Fails("resume") /\ uiThread' = onError
           /\ \E partly \in SUBSET {"raw"} :
                 partly # {"raw"} /\ tty' = T!Turned(TRUE, partly)
    BY DEF T!Resume, T!Switch, T!Go, T!Works, T!Turn, T!ResumeFailed
  <2> HIDE DEF next, onError
  <2> QED  BY <1>1, <2>1, Switches
<1> HIDE DEF next, onError
<1>5. TerminalTypes' /\ Frame
  <2>1. uiThread.at \notin {"editor", "flush"}
    OBVIOUS
  <2>2. \A x \in {next, onError} :
           /\ x.at \notin {"loop", "stop", "close", "join"}
           /\ x.at \in Away => uiThread.at \in Away /\ x.paused = uiThread.paused
    BY <1>2, <1>3 DEF Away
  <2> QED  BY <1>1, <1>2, <1>3, <1>4, <2>1, <2>2, SwitchKeeps
<1>6. Place'
  <2>1. \/ uiThread' = onError /\ "resume" \in failures'.calls
        \/ uiThread' = next /\ tty'.modes["raw"] = TRUE
    BY <1>4, AllModes DEF SwitchTo
  <2>2. failures.calls \subseteq failures'.calls
    BY <1>5 DEF Frame
  <2> QED  BY <1>2, <1>3, <2>1, <2>2, AllModes DEF Place
<1> QED  BY <1>5, <1>6

(* Then the screen and the mouse, and unless that failed the terminal is    *)
(* the view's own.                                                          *)
LEMMA ResumeScreenKeeps ==
  ASSUME TerminalTypes, Place, uiThread.at = "resume screen", T!Resume
  PROVE  TerminalTypes' /\ Place' /\ Frame
<1> DEFINE next == [uiThread EXCEPT !.at = "restart"]
           onError == [uiThread EXCEPT !.at = IF uiThread.tries > 1 THEN "flush" ELSE "restart", !.tries = @ - 1]
<1>1. /\ UNCHANGED <<reader, channel, fence, seen>> /\ uiThread \in Uis
      /\ "restart" \in Moments /\ "resume" \in Calls
      /\ {"screen", "mouse"} \in SUBSET ModeNames /\ TRUE \in BOOLEAN
  BY DEF T!Resume, T!Turn, T!Rest, T!UiOnly, TerminalTypes, Moments, Calls, ModeNames
<1>2. next \in Uis /\ next.at = "restart" /\ next.paused = uiThread.paused
  BY <1>1, UiMoves
<1>3. onError \in Uis /\ onError.at \in {"flush", "restart"} /\ onError.paused = uiThread.paused
  BY <1>1, NextUis
<1>4. SwitchTo(TRUE, {"screen", "mouse"}, "resume", next, onError)
  <2>1. \/ tty' = T!Turned(TRUE, {"screen", "mouse"}) /\ failures' = failures /\ uiThread' = next
        \/ /\ T!Fails("resume") /\ uiThread' = onError
           /\ \E partly \in SUBSET {"screen", "mouse"} :
                 partly # {"screen", "mouse"} /\ tty' = T!Turned(TRUE, partly)
    BY DEF T!Resume, T!Switch, T!Go, T!Works, T!Turn, T!ResumeFailed
  <2> HIDE DEF next, onError
  <2> QED  BY <1>1, <2>1, Switches
<1> HIDE DEF next, onError
<1>5. TerminalTypes' /\ Frame
  <2>1. uiThread.at \notin {"editor", "flush"}
    OBVIOUS
  <2>2. \A x \in {next, onError} :
           /\ x.at \notin {"loop", "stop", "close", "join"}
           /\ x.at \in Away => uiThread.at \in Away /\ x.paused = uiThread.paused
    BY <1>2, <1>3 DEF Away
  <2> QED  BY <1>1, <1>2, <1>3, <1>4, <2>1, <2>2, SwitchKeeps
<1>6. Place'
  <2>1. \/ uiThread' = onError /\ "resume" \in failures'.calls
        \/ /\ uiThread' = next /\ tty'.modes["screen"] = TRUE /\ tty'.modes["mouse"] = TRUE
           /\ tty'.modes["raw"] = tty.modes["raw"]
    BY <1>4, AllModes DEF SwitchTo
  <2>2. failures.calls \subseteq failures'.calls
    BY <1>5 DEF Frame
  <2> QED  BY <1>2, <1>3, <2>1, <2>2, AllModes DEF Place, ModeNames
<1> QED  BY <1>5, <1>6

---------------------------------------------------------------------------
(* The end: every mode is given back, whatever failed before. *)

(* The mouse goes off first at the end, or it is remembered that it could   *)
(* not.                                                                     *)
LEMMA MouseOffKeeps ==
  ASSUME TerminalTypes, Place, uiThread.at = "mouse off", T!Cleanup
  PROVE  TerminalTypes' /\ Place' /\ Frame
<1> DEFINE next == [uiThread EXCEPT !.at = "screen off"]
           onError == [uiThread EXCEPT !.at = "screen off", !.result = "error"]
<1>1. /\ UNCHANGED <<reader, channel, fence, seen>> /\ uiThread \in Uis
      /\ "screen off" \in Moments /\ "mouse off" \in Calls
  BY DEF T!Cleanup, T!Turn, T!Rest, T!UiOnly, TerminalTypes, Moments, Calls, ModeNames
<1>2. next \in Uis /\ next.at = "screen off" /\ next.paused = uiThread.paused
  BY <1>1, UiMoves
<1>3. onError \in Uis /\ onError.at = "screen off"
  BY <1>1, UiMoves
<1>4. MouseOffTo("mouse off", next, onError)
  <2>1. \/ tty' = T!Settled(T!Turned(FALSE, {"mouse"})) /\ failures' = failures /\ uiThread' = next
        \/ tty' \in {tty, T!Turned(FALSE, {"mouse"})} /\ T!Fails("mouse off") /\ uiThread' = onError
    BY DEF T!Cleanup, T!MouseOff, T!Go, T!Works, T!Turn, T!GoFailing
  <2> HIDE DEF next, onError
  <2> QED  BY <1>1, <2>1, MouseGoesOff
<1> HIDE DEF next, onError
<1>5. TerminalTypes' /\ Frame
  <2>1. uiThread.at \notin {"editor", "flush"}
    OBVIOUS
  <2>2. \A x \in {next, onError} :
           /\ x.at \notin {"loop", "stop", "close", "join"}
           /\ x.at \in Away => uiThread.at \in Away /\ x.paused = uiThread.paused
    BY <1>2, <1>3 DEF Away
  <2> QED  BY <1>1, <1>2, <1>3, <1>4, <2>1, <2>2, MouseKeeps
<1>6. Place'
  <2>3. uiThread' \in {next, onError}
    BY <1>4 DEF MouseOffTo
  <2>1. \/ "mouse off" \in failures'.calls
        \/ T!NoScrolls(tty') /\ tty'.modes["mouse"] = FALSE
    BY <1>4, AllModes DEF MouseOffTo
  <2>2. failures.calls \subseteq failures'.calls
    BY <1>5 DEF Frame
  <2> QED  BY <1>2, <1>3, <2>1, <2>2, AllModes, <2>3 DEF Place, GoneOr, T!GivenBackBy
<1> QED  BY <1>5, <1>6

(* Then the screen is left, or it is remembered that it could not. *)
LEMMA ScreenOffKeeps ==
  ASSUME TerminalTypes, Place, uiThread.at = "screen off", T!Cleanup
  PROVE  TerminalTypes' /\ Place' /\ Frame
<1> DEFINE next == [uiThread EXCEPT !.at = "raw off"]
           onError == [uiThread EXCEPT !.at = "raw off", !.result = "error"]
<1>1. /\ UNCHANGED <<reader, channel, fence, seen>> /\ uiThread \in Uis
      /\ "raw off" \in Moments /\ "screen off" \in Calls
      /\ {"screen"} \in SUBSET ModeNames /\ FALSE \in BOOLEAN
  BY DEF T!Cleanup, T!Turn, T!Rest, T!UiOnly, TerminalTypes, Moments, Calls, ModeNames
<1>2. next \in Uis /\ next.at = "raw off" /\ next.paused = uiThread.paused
  BY <1>1, UiMoves
<1>3. onError \in Uis /\ onError.at = "raw off"
  BY <1>1, UiMoves
<1>4. SwitchTo(FALSE, {"screen"}, "screen off", next, onError)
  <2>1. \/ tty' = T!Turned(FALSE, {"screen"}) /\ failures' = failures /\ uiThread' = next
        \/ /\ T!Fails("screen off") /\ uiThread' = onError
           /\ \E partly \in SUBSET {"screen"} :
                 partly # {"screen"} /\ tty' = T!Turned(FALSE, partly)
    BY DEF T!Cleanup, T!Switch, T!Go, T!Works, T!Turn, T!GoFailing
  <2> HIDE DEF next, onError
  <2> QED  BY <1>1, <2>1, Switches
<1> HIDE DEF next, onError
<1>5. TerminalTypes' /\ Frame
  <2>1. uiThread.at \notin {"editor", "flush"}
    OBVIOUS
  <2>2. \A x \in {next, onError} :
           /\ x.at \notin {"loop", "stop", "close", "join"}
           /\ x.at \in Away => uiThread.at \in Away /\ x.paused = uiThread.paused
    BY <1>2, <1>3 DEF Away
  <2> QED  BY <1>1, <1>2, <1>3, <1>4, <2>1, <2>2, SwitchKeeps
<1>6. Place'
  <2>1. /\ uiThread' \in {next, onError} /\ tty'.modes["mouse"] = tty.modes["mouse"]
        /\ tty'.queue = tty.queue /\ tty'.air = tty.air
        /\ "screen off" \in failures'.calls \/ tty'.modes["screen"] = FALSE
    BY <1>4, AllModes DEF SwitchTo
  <2>2. failures.calls \subseteq failures'.calls
    BY <1>5 DEF Frame
  <2> QED  BY <1>2, <1>3, <2>1, <2>2, AllModes DEF Place, GoneOr, T!GivenBackBy, T!NoScrolls
<1> QED  BY <1>5, <1>6

(* Then raw mode, and what is still on could not be given back. *)
LEMMA RawOffKeeps ==
  ASSUME TerminalTypes, Place, uiThread.at = "raw off", T!Cleanup
  PROVE  TerminalTypes' /\ Place' /\ Frame
<1> DEFINE next == [uiThread EXCEPT !.at = "left"]
           onError == [uiThread EXCEPT !.at = "left", !.result = "error"]
<1>1. /\ UNCHANGED <<reader, channel, fence, seen>> /\ uiThread \in Uis
      /\ "left" \in Moments /\ "raw off" \in Calls
      /\ {"raw"} \in SUBSET ModeNames /\ FALSE \in BOOLEAN
  BY DEF T!Cleanup, T!Turn, T!Rest, T!UiOnly, TerminalTypes, Moments, Calls, ModeNames
<1>2. next \in Uis /\ next.at = "left" /\ next.paused = uiThread.paused
  BY <1>1, UiMoves
<1>3. onError \in Uis /\ onError.at = "left"
  BY <1>1, UiMoves
<1>4. SwitchTo(FALSE, {"raw"}, "raw off", next, onError)
  <2>1. \/ tty' = T!Turned(FALSE, {"raw"}) /\ failures' = failures /\ uiThread' = next
        \/ /\ T!Fails("raw off") /\ uiThread' = onError
           /\ \E partly \in SUBSET {"raw"} :
                 partly # {"raw"} /\ tty' = T!Turned(FALSE, partly)
    BY DEF T!Cleanup, T!Switch, T!Go, T!Works, T!Turn, T!GoFailing
  <2> HIDE DEF next, onError
  <2> QED  BY <1>1, <2>1, Switches
<1> HIDE DEF next, onError
<1>5. TerminalTypes' /\ Frame
  <2>1. uiThread.at \notin {"editor", "flush"}
    OBVIOUS
  <2>2. \A x \in {next, onError} :
           /\ x.at \notin {"loop", "stop", "close", "join"}
           /\ x.at \in Away => uiThread.at \in Away /\ x.paused = uiThread.paused
    BY <1>2, <1>3 DEF Away
  <2> QED  BY <1>1, <1>2, <1>3, <1>4, <2>1, <2>2, SwitchKeeps
<1>6. Place'
  <2>1. /\ uiThread' \in {next, onError} /\ tty'.modes["mouse"] = tty.modes["mouse"]
        /\ tty'.modes["screen"] = tty.modes["screen"]
        /\ tty'.queue = tty.queue /\ tty'.air = tty.air
        /\ "raw off" \in failures'.calls \/ tty'.modes["raw"] = FALSE
    BY <1>4, AllModes DEF SwitchTo
  <2>2. failures.calls \subseteq failures'.calls
    BY <1>5 DEF Frame
  <2> QED  BY <1>2, <1>3, <2>1, <2>2, AllModes DEF Place, GoneOr, T!GivenBackBy, T!NoScrolls
<1> QED  BY <1>5, <1>6

(* An editor's input is discarded before raw mode comes back. *)
LEMMA FlushKeeps ==
  ASSUME TerminalTypes, Place, uiThread.at = "flush", T!Resume
  PROVE  TerminalTypes' /\ Place' /\ Frame
<1>1. /\ UNCHANGED <<reader, channel, fence, seen>> /\ uiThread \in Uis /\ tty \in Terminals
      /\ failures \in Failures /\ "resume raw" \in Moments /\ "flush" \in Calls
  BY DEF T!Resume, T!Turn, T!Rest, T!UiOnly, TerminalTypes, Moments, Calls
<1>2. uiThread' = [uiThread EXCEPT !.at = "resume raw"]
  BY DEF T!Resume, T!Turn, T!Go
<1>3. uiThread' \in Uis /\ uiThread'.at = "resume raw" /\ uiThread'.paused = uiThread.paused
  BY <1>1, <1>2, UiMoves
<1>4. (tty' = T!Flushed(tty) /\ failures' = failures) \/ (tty' = tty /\ T!Fails("flush"))
  BY DEF T!Resume, T!Turn, T!Works
<1>5. /\ tty' \in Terminals /\ tty'.queue \in {tty.queue, <<>>} /\ tty'.air = tty.air
      /\ failures' \in Failures /\ failures.calls \subseteq failures'.calls
      /\ tty'.queue = <<>> \/ "flush" \in failures'.calls
  <2>1. CASE tty' = T!Flushed(tty) /\ failures' = failures
    BY <1>1, <2>1, QuietIs
  <2>2. CASE tty' = tty /\ T!Fails("flush")
    BY <1>1, <2>2, FailsIs
  <2> QED  BY <1>4, <2>1, <2>2
<1>6. TerminalTypes'
  BY <1>1, <1>3, <1>5 DEF TerminalTypes
<1>7. Frame
  BY <1>1, <1>3, <1>5 DEF Frame, Away
<1>8. Place'
  BY <1>3 DEF Place
<1> QED  BY <1>6, <1>7, <1>8

(* An editor that ends changes nothing of the terminal. *)
LEMMA EditorEndsKeeps ==
  ASSUME TerminalTypes, Place, T!EditorEnds
  PROVE  TerminalTypes' /\ Place' /\ Frame
<1>1. /\ UNCHANGED <<tty, failures, reader, channel, fence, seen>> /\ uiThread \in Uis
      /\ uiThread.at = "editor" /\ uiThread' = [uiThread EXCEPT !.at = "flush", !.tries = 2]
  BY DEF T!EditorEnds, T!Turn, T!Rest, T!UiOnly, TerminalTypes
<1>2. "flush" \in Moments /\ 2 \in Int
  BY DEF Moments
<1>3. uiThread' \in Uis /\ uiThread'.at = "flush" /\ uiThread'.paused = uiThread.paused
  BY <1>1, <1>2, UiTries
<1>4. TerminalTypes'
  BY <1>1, <1>3 DEF TerminalTypes
<1>5. Frame
  BY <1>1, <1>3 DEF Frame, Away
<1>6. Place'
  BY <1>3 DEF Place
<1> QED  BY <1>4, <1>5, <1>6

(* The steps that change modes or wait for an editor.                        *)
Fixing == T!EnterRaw \/ T!EnterScreen \/ T!Suspend \/ T!EditorEnds \/ T!Resume \/ T!Cleanup

(* Every step that changes modes keeps the terminal in its place. *)
LEMMA FixingKeeps ==
  ASSUME TerminalTypes, Place, Fixing
  PROVE  TerminalTypes' /\ Place' /\ Frame
<1>1. CASE T!EnterRaw
  BY <1>1, EnterRawKeeps
<1>2. CASE T!EnterScreen
  BY <1>2, EnterScreenKeeps
<1>3. CASE T!Suspend
  <2>1. uiThread.at \in {"suspend mouse", "suspend screen", "suspend raw"}
    BY <1>3 DEF T!Suspend, T!Turn
  <2> QED  BY <1>3, <2>1, SuspendMouseKeeps, SuspendScreenKeeps, SuspendRawKeeps
<1>4. CASE T!EditorEnds
  BY <1>4, EditorEndsKeeps
<1>5. CASE T!Resume
  <2>1. uiThread.at \in {"flush", "resume raw", "resume screen"}
    BY <1>5 DEF T!Resume, T!Turn
  <2> QED  BY <1>5, <2>1, FlushKeeps, ResumeRawKeeps, ResumeScreenKeeps
<1>6. CASE T!Cleanup
  <2>1. uiThread.at \in {"mouse off", "screen off", "raw off"}
    BY <1>6 DEF T!Cleanup, T!Turn
  <2> QED  BY <1>6, <2>1, MouseOffKeeps, ScreenOffKeeps, RawOffKeeps
<1> QED  BY <1>1, <1>2, <1>3, <1>4, <1>5, <1>6 DEF Fixing

---------------------------------------------------------------------------
(* What the steps of the person, the reader and the loop leave of the types   *)
(* and of the terminal's place: none of them touches the modes.              *)

(* A step that leaves the modes and the UI thread alone, and brings no      *)
(* report where there may be none, keeps the terminal in its place.         *)
LEMMA PlaceStays ==
  ASSUME TerminalTypes, Place, tty'.modes = tty.modes, failures.calls \subseteq failures'.calls,
         uiThread' = uiThread, ~tty.modes["mouse"] /\ T!NoScrolls(tty) => T!NoScrolls(tty')
  PROVE  Place'
<1>1. CASE ~tty.modes["mouse"]
  BY <1>1, AllModes DEF Place, GoneOr
<1>2. CASE tty.modes["mouse"]
  BY <1>2, AllModes DEF Place, GoneOr, T!GivenBackBy
<1> QED  BY <1>1, <1>2

(* Sequences that grow at the end and shrink at the front. *)
LEMMA SeqFacts ==
  ASSUME NEW S, NEW s \in Seq(S)
  PROVE  /\ \A e \in S : /\ Append(s, e) \in Seq(S) /\ Len(Append(s, e)) = Len(s) + 1
                         /\ Append(s, e)[Len(s) + 1] = e
                         /\ \A i \in 1..Len(s) : Append(s, e)[i] = s[i]
         /\ s # <<>> => /\ Head(s) \in S /\ Head(s) = s[1] /\ Len(s) >= 1
                        /\ Tail(s) \in Seq(S) /\ Len(Tail(s)) = Len(s) - 1
                        /\ \A i \in 1..(Len(s) - 1) : Tail(s)[i] = s[i + 1]
         /\ \A k \in 0..Len(s) :
               /\ SubSeq(s, k + 1, Len(s)) \in Seq(S)
               /\ Len(SubSeq(s, k + 1, Len(s))) = Len(s) - k
               /\ \A i \in 1..(Len(s) - k) : SubSeq(s, k + 1, Len(s))[i] = s[i + k]
         /\ Len(s) \in Nat /\ DOMAIN s = 1..Len(s) /\ \A i \in 1..Len(s) : s[i] \in S
<1>1. \A e \in S : /\ Append(s, e) \in Seq(S) /\ Len(Append(s, e)) = Len(s) + 1
                   /\ Append(s, e)[Len(s) + 1] = e
                   /\ \A i \in 1..Len(s) : Append(s, e)[i] = s[i]
  OBVIOUS
<1>2. s # <<>> => /\ Head(s) \in S /\ Head(s) = s[1] /\ Len(s) >= 1
                  /\ Tail(s) \in Seq(S) /\ Len(Tail(s)) = Len(s) - 1
                  /\ \A i \in 1..(Len(s) - 1) : Tail(s)[i] = s[i + 1]
  OBVIOUS
<1>3. ASSUME NEW k \in 0..Len(s)
      PROVE  /\ SubSeq(s, k + 1, Len(s)) \in Seq(S)
             /\ Len(SubSeq(s, k + 1, Len(s))) = Len(s) - k
             /\ \A i \in 1..(Len(s) - k) : SubSeq(s, k + 1, Len(s))[i] = s[i + k]
  OBVIOUS
<1>4. Len(s) \in Nat /\ DOMAIN s = 1..Len(s) /\ \A i \in 1..Len(s) : s[i] \in S
  OBVIOUS
<1> QED  BY <1>1, <1>2, <1>3, <1>4

(* Where there is no report of the wheel there is none when a key joins     *)
(* or something leaves.                                                     *)
LEMMA ScrollsOf ==
  ASSUME NEW S, NEW s \in Seq(S)
  PROVE  /\ \A e \in S : e.kind # T!Scroll /\ T!Scrolls(s) = {} => T!Scrolls(Append(s, e)) = {}
         /\ s # <<>> /\ T!Scrolls(s) = {} => T!Scrolls(Tail(s)) = {}
<1>1. ASSUME NEW e \in S, e.kind # T!Scroll, T!Scrolls(s) = {}
      PROVE  T!Scrolls(Append(s, e)) = {}
  <2>1. \A i \in 1..Len(s) : s[i].kind # T!Scroll
    BY <1>1, SeqFacts DEF T!Scrolls
  <2>2. \A i \in 1..(Len(s) + 1) : Append(s, e)[i].kind # T!Scroll
    BY <1>1, <2>1, SeqFacts
  <2> QED  BY <2>2, SeqFacts DEF T!Scrolls
<1>2. ASSUME s # <<>>, T!Scrolls(s) = {}
      PROVE  T!Scrolls(Tail(s)) = {}
  <2>1. \A i \in 1..Len(s) : s[i].kind # T!Scroll
    BY <1>2, SeqFacts DEF T!Scrolls
  <2>2. \A i \in 1..(Len(s) - 1) : Tail(s)[i].kind # T!Scroll
    BY <1>2, <2>1, SeqFacts
  <2>3. DOMAIN Tail(s) = 1..(Len(s) - 1)
    BY <1>2, SeqFacts
  <2> QED  BY <2>2, <2>3 DEF T!Scrolls
<1> QED  BY <1>1, <1>2

(* A key typed joins the queue under a number of its own, meant for who     *)
(* has the terminal.                                                        *)
LEMMA TypeIs ==
  ASSUME TerminalTypes, NEW kind \in T!Kinds, T!Type(kind)
  PROVE  /\ UNCHANGED <<reader, channel, uiThread, fence, failures>> /\ uiThread.at # "left"
         /\ T!Event(kind, seen.keys + 1) \in Inputs
         /\ tty' \in Terminals /\ tty'.modes = tty.modes /\ tty'.air = tty.air
         /\ tty'.queue = Append(tty.queue, T!Event(kind, seen.keys + 1))
         /\ seen' \in Histories /\ seen'.keys = seen.keys + 1 /\ seen'.gesture = seen.gesture
         /\ seen'.handled = seen.handled /\ seen'.shared = seen.shared
         /\ seen'.layers = seen.layers /\ seen'.late = seen.late
         /\ seen'.mine = IF uiThread.at = "loop" THEN seen.mine \cup {seen.keys + 1} ELSE seen.mine
         /\ seen'.theirs = IF uiThread.at = "editor" THEN seen.theirs \cup {seen.keys + 1} ELSE seen.theirs
<1> DEFINE n == seen.keys + 1
           e == T!Event(kind, n)
           q == Append(tty.queue, e)
           mine == IF uiThread.at = "loop" THEN seen.mine \cup {n} ELSE seen.mine
           theirs == IF uiThread.at = "editor" THEN seen.theirs \cup {n} ELSE seen.theirs
<1>1. /\ UNCHANGED <<reader, channel, uiThread, fence, failures>> /\ uiThread.at # "left"
      /\ tty \in Terminals /\ seen \in Histories
  BY DEF T!Type, TerminalTypes
<1>2. n \in Nat
  BY <1>1 DEF Histories
<1> HIDE DEF n
<1>3. e \in Inputs
  BY <1>2 DEF Inputs, T!Event
<1>4. tty' = [tty EXCEPT !.queue = q]
  BY <1>1 DEF T!Type, Terminals, n
<1>5. seen' = [seen EXCEPT !.keys = n, !.mine = mine, !.theirs = theirs]
  BY <1>1 DEF T!Type, Histories, n
<1>6. q \in Seq(Inputs)
  BY <1>1, <1>3 DEF Terminals
<1>7. mine \in SUBSET Nat /\ theirs \in SUBSET Nat
  BY <1>1, <1>2 DEF Histories
<1> HIDE DEF e, q, mine, theirs
<1>8. /\ tty' \in Terminals /\ tty'.modes = tty.modes /\ tty'.air = tty.air /\ tty'.queue = q
  BY <1>1, <1>4, <1>6 DEF Terminals
<1>9. /\ seen' \in Histories /\ seen'.keys = n /\ seen'.gesture = seen.gesture
      /\ seen'.handled = seen.handled /\ seen'.shared = seen.shared
      /\ seen'.layers = seen.layers /\ seen'.late = seen.late
      /\ seen'.mine = mine /\ seen'.theirs = theirs
  BY <1>1, <1>2, <1>5, <1>7 DEF Histories
<1> QED  BY <1>1, <1>3, <1>8, <1>9 DEF e, q, mine, theirs, n

(* A report of the wheel goes on its way, of the gesture before or of the   *)
(* next.                                                                    *)
LEMMA WheelIs ==
  ASSUME TerminalTypes, NEW g \in {seen.gesture, seen.gesture + 1} \ {0}, T!Wheel(g)
  PROVE  /\ UNCHANGED <<reader, channel, uiThread, fence, failures>> /\ tty.modes["mouse"]
         /\ T!Event(T!Scroll, g) \in Marks
         /\ tty' \in Terminals /\ tty'.modes = tty.modes /\ tty'.queue = tty.queue
         /\ tty'.air = Append(tty.air, T!Event(T!Scroll, g))
         /\ seen' \in Histories /\ seen'.keys = seen.keys /\ seen'.gesture = g
         /\ seen'.mine = seen.mine /\ seen'.theirs = seen.theirs
         /\ seen'.handled = seen.handled /\ seen'.shared = seen.shared
         /\ seen'.layers = seen.layers /\ seen'.late = seen.late
<1> DEFINE e == T!Event(T!Scroll, g)
           air == Append(tty.air, e)
           reports == seen.scrolls + 1
<1>1. /\ UNCHANGED <<reader, channel, uiThread, fence, failures>> /\ tty.modes["mouse"]
      /\ tty \in Terminals /\ seen \in Histories
  BY DEF T!Wheel, TerminalTypes
<1>2. g \in Nat
  <2>1. seen.gesture \in Nat
    BY <1>1 DEF Histories
  <2> QED  BY <2>1
<1>3. reports \in Nat
  <2>1. seen.scrolls \in Nat
    BY <1>1 DEF Histories
  <2> QED  BY <2>1
<1>4. e \in Marks
  BY <1>2 DEF Marks, T!Event
<1>5. tty' = [tty EXCEPT !.air = air] /\ seen' = [seen EXCEPT !.scrolls = reports, !.gesture = g]
  BY <1>1 DEF T!Wheel, Terminals, Histories
<1>6. air \in Seq(Marks)
  BY <1>1, <1>4 DEF Terminals
<1> HIDE DEF e, air, reports
<1>7. /\ tty' \in Terminals /\ tty'.modes = tty.modes /\ tty'.queue = tty.queue /\ tty'.air = air
  BY <1>1, <1>5, <1>6 DEF Terminals
<1>8. /\ seen' \in Histories /\ seen'.keys = seen.keys /\ seen'.gesture = g
      /\ seen'.mine = seen.mine /\ seen'.theirs = seen.theirs
      /\ seen'.handled = seen.handled /\ seen'.shared = seen.shared
      /\ seen'.layers = seen.layers /\ seen'.late = seen.late
  BY <1>1, <1>2, <1>3, <1>5 DEF Histories
<1> QED  BY <1>1, <1>4, <1>7, <1>8 DEF e, air

(* Marks are inputs, and what arrives or is read is taken from the front.    *)
LEMMA FrontIs ==
  ASSUME tty \in Terminals
  PROVE  /\ tty.queue \in Seq(Inputs) /\ tty.air \in Seq(Marks)
         /\ tty.queue # <<>> =>
               /\ Head(tty.queue) \in Inputs /\ [tty EXCEPT !.queue = Tail(tty.queue)] \in Terminals
               /\ [tty EXCEPT !.queue = Tail(tty.queue)].modes = tty.modes
               /\ [tty EXCEPT !.queue = Tail(tty.queue)].air = tty.air
               /\ [tty EXCEPT !.queue = Tail(tty.queue)].queue = Tail(tty.queue)
         /\ tty.air # <<>> => Head(tty.air) \in Marks /\ Tail(tty.air) \in Seq(Marks)
<1>1. tty.queue \in Seq(Inputs) /\ tty.air \in Seq(Marks)
  BY DEF Terminals
<1>2. \A q \in Seq(Inputs) :
         /\ [tty EXCEPT !.queue = q] \in Terminals /\ [tty EXCEPT !.queue = q].modes = tty.modes
         /\ [tty EXCEPT !.queue = q].air = tty.air /\ [tty EXCEPT !.queue = q].queue = q
  BY DEF Terminals
<1>3. tty.queue # <<>> => Head(tty.queue) \in Inputs /\ Tail(tty.queue) \in Seq(Inputs)
  BY <1>1, SeqFacts
<1>4. tty.air # <<>> => Head(tty.air) \in Marks /\ Tail(tty.air) \in Seq(Marks)
  BY <1>1, SeqFacts
<1> QED  BY <1>1, <1>2, <1>3, <1>4

(* A report arrives at the end of the queue. *)
LEMMA ArriveIs ==
  ASSUME TerminalTypes, T!Arrive
  PROVE  /\ UNCHANGED <<reader, channel, uiThread, fence, seen, failures>> /\ tty.air # <<>>
         /\ Head(tty.air) \in Marks /\ Head(tty.air) \in Inputs
         /\ tty' \in Terminals /\ tty'.modes = tty.modes
         /\ tty'.queue = Append(tty.queue, Head(tty.air)) /\ tty'.air = Tail(tty.air)
<1> DEFINE q == Append(tty.queue, Head(tty.air))
           air == Tail(tty.air)
<1>1. /\ UNCHANGED <<reader, channel, uiThread, fence, seen, failures>> /\ tty.air # <<>>
      /\ tty \in Terminals
  BY DEF T!Arrive, TerminalTypes
<1>2. Head(tty.air) \in Marks /\ air \in Seq(Marks) /\ tty.queue \in Seq(Inputs)
  BY <1>1, FrontIs
<1>3. Head(tty.air) \in Inputs
  BY <1>2 DEF Marks, Inputs
<1>4. q \in Seq(Inputs)
  BY <1>2, <1>3
<1>5. tty' = [tty EXCEPT !.queue = q, !.air = air]
  BY <1>1 DEF T!Arrive, Terminals
<1>6. tty' \in Terminals /\ tty'.modes = tty.modes /\ tty'.queue = q /\ tty'.air = air
  <2> HIDE DEF q, air
  <2> QED  BY <1>1, <1>2, <1>4, <1>5 DEF Terminals
<1> QED  BY <1>1, <1>2, <1>3, <1>6

(* An editor takes the front of the queue. *)
LEMMA EditorReadsIs ==
  ASSUME TerminalTypes, T!EditorReads
  PROVE  /\ UNCHANGED <<reader, channel, uiThread, fence, seen, failures>> /\ tty.queue # <<>>
         /\ uiThread.at = "editor"
         /\ tty' \in Terminals /\ tty'.modes = tty.modes /\ tty'.air = tty.air
         /\ tty'.queue = Tail(tty.queue)
<1>1. /\ UNCHANGED <<reader, channel, uiThread, fence, seen, failures>> /\ tty.queue # <<>>
      /\ uiThread.at = "editor"
      /\ tty \in Terminals /\ tty' = [tty EXCEPT !.queue = Tail(tty.queue)]
  BY DEF T!EditorReads, TerminalTypes, Terminals
<1> QED  BY <1>1, FrontIs

(* The reader: what each of its steps does, with the event in its hand.       *)

(* The reader moves on, with or without an event in its hand. *)
LEMMA ReaderIs ==
  ASSUME reader \in Readers, NEW at \in {"gone", "poll", "read", "send", "drain"},
         NEW hand \in Sendable \cup {T!Nothing}
  PROVE  /\ [reader EXCEPT !.at = at] \in Readers /\ [reader EXCEPT !.at = at].at = at
         /\ [reader EXCEPT !.at = at].hand = reader.hand
         /\ [reader EXCEPT !.at = at].shutdown = reader.shutdown
         /\ [reader EXCEPT !.at = at, !.hand = hand] \in Readers
         /\ [reader EXCEPT !.at = at, !.hand = hand].at = at
         /\ [reader EXCEPT !.at = at, !.hand = hand].hand = hand
         /\ [reader EXCEPT !.at = at, !.hand = hand].shutdown = reader.shutdown
  BY DEF Readers

(* A poll ends the reader, takes the front of the queue or fails. *)
LEMMA ReaderPollsIs ==
  ASSUME TerminalTypes, T!ReaderPolls
  PROVE  /\ UNCHANGED <<channel, uiThread, fence, seen>> /\ reader.at = "poll" /\ reader' \in Readers
         /\ reader'.shutdown = reader.shutdown /\ tty' \in Terminals /\ tty'.modes = tty.modes
         /\ tty'.air = tty.air /\ failures' \in Failures
         /\ \/ /\ reader'.at = "drain" /\ reader'.hand = reader.hand /\ tty' = tty /\ failures' = failures
               /\ reader.shutdown \/ channel.closed
            \/ /\ reader'.at = "read" /\ reader'.hand = Head(tty.queue) /\ failures' = failures
               /\ tty.queue # <<>> /\ tty'.queue = Tail(tty.queue) /\ Head(tty.queue) \in Inputs
            \/ /\ reader'.at = "read" /\ reader'.hand = T!Error /\ tty' = tty
               /\ failures'.calls = failures.calls \cup {"read"}
<1>1. /\ UNCHANGED <<channel, uiThread, fence, seen>> /\ reader.at = "poll" /\ reader \in Readers
      /\ tty \in Terminals /\ failures \in Failures /\ "read" \in Calls
  BY DEF T!ReaderPolls, T!ReaderOnly, TerminalTypes, Calls
<1>2. CASE /\ reader.shutdown \/ channel.closed
           /\ reader' = [reader EXCEPT !.at = "drain"] /\ tty' = tty /\ failures' = failures
  <2>1. /\ reader' \in Readers /\ reader'.at = "drain" /\ reader'.hand = reader.hand
        /\ reader'.shutdown = reader.shutdown
    BY <1>1, <1>2 DEF Readers
  <2> QED  BY <1>1, <1>2, <2>1
<1>3. CASE /\ tty.queue # <<>> /\ reader' = [reader EXCEPT !.at = "read", !.hand = Head(tty.queue)]
           /\ tty' = [tty EXCEPT !.queue = Tail(tty.queue)] /\ failures' = failures
  <2>1. Head(tty.queue) \in Inputs /\ Head(tty.queue) \in Sendable \cup {T!Nothing}
    BY <1>1, <1>3, FrontIs DEF Sendable
  <2>2. /\ reader' \in Readers /\ reader'.at = "read" /\ reader'.hand = Head(tty.queue)
        /\ reader'.shutdown = reader.shutdown
    BY <1>1, <1>3, <2>1, ReaderIs
  <2>3. /\ tty' \in Terminals /\ tty'.modes = tty.modes /\ tty'.air = tty.air
        /\ tty'.queue = Tail(tty.queue)
    BY <1>1, <1>3, FrontIs
  <2> QED  BY <1>1, <1>3, <2>1, <2>2, <2>3
<1>4. CASE /\ reader' = [reader EXCEPT !.at = "read", !.hand = T!Error] /\ tty' = tty /\ T!Fails("read")
  <2>1. T!Error \in Sendable \cup {T!Nothing}
    BY DEF Sendable
  <2>2. /\ reader' \in Readers /\ reader'.at = "read" /\ reader'.hand = T!Error
        /\ reader'.shutdown = reader.shutdown
    BY <1>1, <1>4, <2>1, ReaderIs
  <2>3. failures' \in Failures /\ failures'.calls = failures.calls \cup {"read"}
    BY <1>1, <1>4, FailsIs
  <2> QED  BY <1>1, <1>4, <2>2, <2>3
<1> QED  BY <1>1, <1>2, <1>3, <1>4 DEF T!ReaderPolls, T!Works, Terminals

(* An empty hand holds nothing that is sent. *)
LEMMA NothingIs == T!Nothing \notin Sendable /\ T!Nothing \in Sendable \cup {T!Nothing}
  BY DEF Sendable, Inputs, T!Nothing, T!Error, T!Event, T!Kinds, T!Scroll

(* After its read the reader drops the event if it is to stop. *)
LEMMA ReaderReadsIs ==
  ASSUME TerminalTypes, T!ReaderReads
  PROVE  /\ UNCHANGED <<tty, channel, uiThread, fence, seen, failures>> /\ reader.at = "read"
         /\ reader' \in Readers /\ reader'.shutdown = reader.shutdown
         /\ \/ reader'.at = "drain" /\ reader'.hand = T!Nothing /\ reader.shutdown
            \/ reader'.at = "send" /\ reader'.hand = reader.hand
<1>1. /\ UNCHANGED <<tty, channel, uiThread, fence, seen, failures>> /\ reader.at = "read"
      /\ reader \in Readers
  BY DEF T!ReaderReads, T!ReaderOnly, TerminalTypes
<1>2. CASE reader.shutdown /\ reader' = [reader EXCEPT !.at = "drain", !.hand = T!Nothing]
  BY <1>1, <1>2, ReaderIs
<1>3. CASE reader' = [reader EXCEPT !.at = "send"]
  BY <1>1, <1>3 DEF Readers
<1> QED  BY <1>1, <1>2, <1>3 DEF T!ReaderReads

(* The reader sends, drops a report for which there is no room, or learns   *)
(* that the channel is closed.                                              *)
LEMMA ReaderSendsIs ==
  ASSUME TerminalTypes, T!ReaderSends
  PROVE  /\ UNCHANGED <<tty, uiThread, fence, seen, failures>> /\ reader.at = "send"
         /\ reader' \in Readers /\ reader'.shutdown = reader.shutdown /\ reader'.hand = T!Nothing
         /\ channel' \in Channels /\ channel'.closed = channel.closed
         /\ \/ channel.closed /\ reader'.at = "drain" /\ channel' = channel
            \/ /\ reader'.at = IF reader.hand = T!Error THEN "drain" ELSE "poll"
               /\ reader.hand \in Sendable
               /\ \/ channel'.events = Append(channel.events, reader.hand)
                  \/ channel' = channel /\ reader.hand.kind = T!Scroll
<1>1. /\ UNCHANGED <<tty, uiThread, fence, seen, failures>> /\ reader.at = "send"
      /\ reader \in Readers /\ channel \in Channels /\ reader.hand \in Sendable
  BY DEF T!ReaderSends, T!ReaderOnly, TerminalTypes
<1>2. CASE /\ channel.closed /\ channel' = channel
           /\ reader' = [reader EXCEPT !.at = "drain", !.hand = T!Nothing]
  BY <1>1, <1>2, ReaderIs
<1>3. ASSUME reader' = T!Sent
      PROVE  /\ reader' \in Readers /\ reader'.shutdown = reader.shutdown /\ reader'.hand = T!Nothing
             /\ reader'.at = IF reader.hand = T!Error THEN "drain" ELSE "poll"
  <2> DEFINE at == IF reader.hand = T!Error THEN "drain" ELSE "poll"
             hand == T!Nothing
  <2>1. at \in {"gone", "poll", "read", "send", "drain"}
    OBVIOUS
  <2>2. reader' = [reader EXCEPT !.at = at, !.hand = hand] /\ hand \in Sendable \cup {T!Nothing}
    BY <1>3, NothingIs DEF T!Sent
  <2> HIDE DEF at, hand
  <2>3. /\ reader' \in Readers /\ reader'.shutdown = reader.shutdown /\ reader'.hand = hand
        /\ reader'.at = at
    BY <1>1, <2>1, <2>2 DEF Readers
  <2> QED  BY <2>3 DEF at, hand
<1>4. CASE reader' = T!Sent /\ channel' = [channel EXCEPT !.events = Append(@, reader.hand)]
  <2> DEFINE events == Append(channel.events, reader.hand)
  <2>1. events \in Seq(Sendable)
    BY <1>1 DEF Channels
  <2>2. channel' = [channel EXCEPT !.events = events]
    BY <1>1, <1>4 DEF Channels
  <2> HIDE DEF events
  <2>3. channel' \in Channels /\ channel'.closed = channel.closed /\ channel'.events = events
    BY <1>1, <2>1, <2>2 DEF Channels
  <2> QED  BY <1>1, <1>3, <1>4, <2>3 DEF events
<1>5. CASE reader' = T!Sent /\ channel' = channel /\ ~T!WaitsForRoom(reader.hand)
  BY <1>1, <1>3, <1>5 DEF T!WaitsForRoom
<1> QED  BY <1>1, <1>2, <1>4, <1>5 DEF T!ReaderSends

(* The reader discards the queue when it ends. *)
LEMMA ReaderDrainsIs ==
  ASSUME TerminalTypes, T!ReaderDrains
  PROVE  /\ UNCHANGED <<channel, uiThread, fence, seen, failures>> /\ reader.at = "drain"
         /\ reader' \in Readers /\ reader'.at = "gone" /\ reader'.hand = reader.hand
         /\ reader'.shutdown = reader.shutdown
         /\ tty' \in Terminals /\ tty'.modes = tty.modes /\ tty'.air = tty.air /\ tty'.queue = <<>>
<1>1. /\ UNCHANGED <<channel, uiThread, fence, seen, failures>> /\ reader.at = "drain"
      /\ reader \in Readers /\ tty \in Terminals
      /\ reader' = [reader EXCEPT !.at = "gone"] /\ tty' = T!Flushed(tty)
  BY DEF T!ReaderDrains, T!ReaderOnly, TerminalTypes, T!Flushed
<1>2. /\ reader' \in Readers /\ reader'.at = "gone" /\ reader'.hand = reader.hand
      /\ reader'.shutdown = reader.shutdown
  BY <1>1 DEF Readers
<1> QED  BY <1>1, <1>2, QuietIs

---------------------------------------------------------------------------
(* The UI thread listens, takes what was sent and stops the reader. *)

(* When the view listens anew no key has been typed for it. *)
LEMMA HistoryIs ==
  ASSUME seen \in Histories, seen' = [seen EXCEPT !.mine = {}]
  PROVE  /\ seen' \in Histories /\ seen'.mine = {} /\ seen'.keys = seen.keys
         /\ seen'.gesture = seen.gesture /\ seen'.theirs = seen.theirs
         /\ seen'.handled = seen.handled /\ seen'.shared = seen.shared
         /\ seen'.layers = seen.layers /\ seen'.late = seen.late
<1> DEFINE none == {}
<1>1. none \in SUBSET Nat /\ seen' = [seen EXCEPT !.mine = none]
  OBVIOUS
<1> HIDE DEF none
<1>2. /\ seen' \in Histories /\ seen'.mine = none /\ seen'.keys = seen.keys
      /\ seen'.gesture = seen.gesture /\ seen'.theirs = seen.theirs
      /\ seen'.handled = seen.handled /\ seen'.shared = seen.shared
      /\ seen'.layers = seen.layers /\ seen'.late = seen.late
  BY <1>1 DEF Histories
<1> QED  BY <1>2 DEF none

Started ==
    /\ reader' \in Readers /\ reader'.at = "poll" /\ reader'.hand = T!Nothing
    /\ ~reader'.shutdown
    /\ channel' \in Channels /\ channel'.events = <<>> /\ ~channel'.closed

(* A reader starts with an empty hand and an empty channel. *)
LEMMA StartReaderIs == T!StartReader => Started
<1> SUFFICES ASSUME T!StartReader PROVE Started
  OBVIOUS
<1>1. /\ reader' = [at |-> "poll", hand |-> T!Nothing, shutdown |-> FALSE]
      /\ channel' = [events |-> <<>>, closed |-> FALSE]
  BY DEF T!StartReader
<1>2. reader' \in Readers /\ reader'.at = "poll" /\ reader'.hand = T!Nothing /\ reader'.shutdown = FALSE
  <2> DEFINE hand == T!Nothing
  <2>1. hand \in Sendable \cup {T!Nothing}
    BY NothingIs
  <2>2. reader' = [at |-> "poll", hand |-> hand, shutdown |-> FALSE]
    BY <1>1
  <2> HIDE DEF hand
  <2>3. /\ reader' \in Readers /\ reader'.at = "poll" /\ reader'.hand = hand
        /\ reader'.shutdown = FALSE
    BY <2>1, <2>2 DEF Readers
  <2> QED  BY <2>3 DEF hand
<1>3. channel' \in Channels /\ channel'.events = <<>> /\ channel'.closed = FALSE
  <2> DEFINE events == <<>>
  <2>1. events \in Seq(Sendable) /\ channel' = [events |-> events, closed |-> FALSE]
    BY <1>1
  <2> HIDE DEF events
  <2>2. channel' \in Channels /\ channel'.events = events /\ channel'.closed = FALSE
    BY <2>1 DEF Channels
  <2> QED  BY <2>2 DEF events
<1> QED  BY <1>2, <1>3 DEF Started

(* The loop starts with a reader, or the view ends. *)
LEMMA StartLoopIs ==
  ASSUME TerminalTypes, T!StartLoop
  PROVE  /\ UNCHANGED <<tty, fence>> /\ uiThread.at = "start" /\ uiThread' \in Uis /\ failures' \in Failures
         /\ seen' \in Histories /\ failures.calls \subseteq failures'.calls
         /\ \/ /\ Started /\ uiThread'.at = "loop" /\ failures' = failures
               /\ seen'.mine = {} /\ seen'.keys = seen.keys
               /\ seen'.gesture = seen.gesture /\ seen'.theirs = seen.theirs
               /\ seen'.handled = seen.handled /\ seen'.shared = seen.shared
               /\ seen'.layers = seen.layers /\ seen'.late = seen.late
            \/ UNCHANGED <<reader, channel, seen>> /\ uiThread'.at = "mouse off"
<1>1. /\ UNCHANGED <<tty, fence>> /\ uiThread.at = "start" /\ uiThread \in Uis /\ failures \in Failures
      /\ seen \in Histories /\ "loop" \in Moments /\ "mouse off" \in Moments /\ "start" \in Calls
  BY DEF T!StartLoop, T!Turn, TerminalTypes, Moments, Calls
<1>2. CASE T!StartReader /\ T!Go("loop") /\ failures' = failures /\ seen' = [seen EXCEPT !.mine = {}]
  <2>1. uiThread' \in Uis /\ uiThread'.at = "loop"
    BY <1>1, <1>2, UiMoves DEF T!Go
  <2> QED  BY <1>1, <1>2, <2>1, StartReaderIs, HistoryIs
<1>3. CASE T!GoFailing("mouse off") /\ T!Fails("start") /\ UNCHANGED <<reader, channel, seen>>
  <2>1. uiThread' \in Uis /\ uiThread'.at = "mouse off"
    BY <1>1, <1>3, UiMoves DEF T!GoFailing
  <2>2. failures' \in Failures /\ failures.calls \subseteq failures'.calls
    BY <1>1, <1>3, FailsIs
  <2> QED  BY <1>1, <1>3, <2>1, <2>2
<1> QED  BY <1>2, <1>3 DEF T!StartLoop, T!Works

(* The UI thread stops the reader, for an editor or for good. *)
LEMMA StopIs ==
  ASSUME uiThread \in Uis, NEW then \in {"mouse off", "suspend mouse"}
  PROVE  /\ T!Stop(then) \in Uis /\ T!Stop(then).at = "stop" /\ T!Stop(then).then = then
         /\ [T!Stop(then) EXCEPT !.paused = TRUE] \in Uis
         /\ [T!Stop(then) EXCEPT !.paused = TRUE].at = "stop"
         /\ [T!Stop(then) EXCEPT !.paused = TRUE].then = then
         /\ [T!Stop(then) EXCEPT !.paused = TRUE].paused = TRUE
         /\ \A result \in {"ok", "error"} :
               /\ T!Quit(result) \in Uis /\ T!Quit(result).at = "stop"
               /\ T!Quit(result).then = "mouse off"
<1>1. "stop" \in Moments
  BY DEF Moments
<1>2. \A x \in {"mouse off", "suspend mouse"} :
         T!Stop(x) \in Uis /\ T!Stop(x).at = "stop" /\ T!Stop(x).then = x
  BY <1>1 DEF Uis, T!Stop
<1>3. \A u \in Uis : /\ [u EXCEPT !.paused = TRUE] \in Uis
                     /\ [u EXCEPT !.paused = TRUE].at = u.at
                     /\ [u EXCEPT !.paused = TRUE].then = u.then
                     /\ [u EXCEPT !.paused = TRUE].paused = TRUE
  BY DEF Uis
<1>4. \A u \in Uis, result \in {"ok", "error"} :
         /\ [u EXCEPT !.result = result] \in Uis /\ [u EXCEPT !.result = result].at = u.at
         /\ [u EXCEPT !.result = result].then = u.then
  BY DEF Uis
<1>5. \A result \in {"ok", "error"} :
         /\ T!Quit(result) \in Uis /\ T!Quit(result).at = "stop"
         /\ T!Quit(result).then = "mouse off"
  BY <1>2, <1>4 DEF T!Quit
<1> QED  BY <1>2, <1>3, <1>5

(* After an editor the loop goes on with a reader, or the view ends. *)
LEMMA RestartIs ==
  ASSUME TerminalTypes, T!Restart
  PROVE  /\ UNCHANGED <<tty, fence>> /\ uiThread.at = "restart" /\ uiThread' \in Uis /\ failures' \in Failures
         /\ failures.calls \subseteq failures'.calls
         /\ seen' \in Histories /\ seen'.mine = {} /\ seen'.keys = seen.keys
         /\ seen'.gesture = seen.gesture /\ seen'.theirs = seen.theirs
         /\ seen'.handled = seen.handled /\ seen'.shared = seen.shared
         /\ seen'.layers = seen.layers /\ seen'.late = seen.late
         /\ Started \/ UNCHANGED <<reader, channel>>
         /\ \/ uiThread'.at = "loop" /\ (Started \/ ~uiThread.paused)
            \/ uiThread'.at = "stop" /\ uiThread'.then = "mouse off"
<1>1. /\ UNCHANGED <<tty, fence>> /\ uiThread.at = "restart" /\ uiThread \in Uis /\ failures \in Failures
      /\ seen \in Histories /\ seen' = [seen EXCEPT !.mine = {}]
      /\ "loop" \in Moments /\ "restart" \in Calls
  BY DEF T!Restart, T!Turn, TerminalTypes, Moments, Calls
<1>2. T!Listens \in Uis /\ T!Listens.at = "loop"
  BY <1>1 DEF Uis, T!Listens
<1>3. T!Quit("error") \in Uis /\ T!Quit("error").at = "stop" /\ T!Quit("error").then = "mouse off"
  BY <1>1, StopIs
<1>4. CASE T!StartReader /\ failures' = failures /\ uiThread' = T!Listens
  BY <1>1, <1>2, <1>4, StartReaderIs, HistoryIs
<1>5. CASE (T!StartReader \/ UNCHANGED <<reader, channel>>) /\ T!Fails("restart") /\ uiThread' = T!Quit("error")
  <2>1. failures' \in Failures /\ failures.calls \subseteq failures'.calls
    BY <1>1, <1>5, FailsIs
  <2> QED  BY <1>1, <1>3, <1>5, <2>1, StartReaderIs, HistoryIs
<1>6. CASE ~uiThread.paused /\ UNCHANGED <<reader, channel>> /\ failures' = failures /\ uiThread' = T!Listens
  BY <1>1, <1>2, <1>6, HistoryIs
<1> QED  BY <1>4, <1>5, <1>6 DEF T!Restart, T!Works

(* What acting on a key does: it counts as handled, may quit, open an       *)
(* editor or change the layer, and then the fence is up if the gesture      *)
(* before it is recent.                                                     *)
LEMMA PressIs ==
  ASSUME TerminalTypes, uiThread.at = "loop", NEW event \in Sendable, event.kind \in T!Kinds, NEW f \in Fences,
         T!Press(event, f)
  PROVE  /\ uiThread' \in Uis /\ seen' \in Histories /\ fence' \in Fences /\ failures' \in Failures
         /\ \/ uiThread' = uiThread
            \/ uiThread'.at = "stop" /\ uiThread'.then = "mouse off"
            \/ uiThread'.at = "stop" /\ uiThread'.then = "suspend mouse" /\ uiThread'.paused
            \/ uiThread'.at = "suspend mouse" /\ ~uiThread'.paused /\ seen'.shared
         /\ failures' = failures \/ failures'.calls = failures.calls \cup {"effect"}
         /\ seen'.handled = seen.handled \cup {event.n} /\ seen'.keys = seen.keys
         /\ seen'.gesture = seen.gesture /\ seen'.mine = seen.mine /\ seen'.theirs = seen.theirs
         /\ seen.shared => seen'.shared
         /\ seen'.layers = seen.layers
         /\ fence'.last = f.last
         /\ \/ fence' = f /\ seen'.late = seen.late
            \/ /\ fence'.layer # f.layer /\ (seen.late => seen'.late)
               /\ fence'.fenced \/ ~T!UnderWay(f.last) \/ seen'.late
<1>0. /\ uiThread \in Uis /\ seen \in Histories /\ failures \in Failures /\ event.n \in Nat
      /\ "suspend mouse" \in Moments /\ "effect" \in Calls
  BY InputIs DEF TerminalTypes, Moments, Calls
<1> DEFINE handled == seen.handled \cup {event.n}
<1>1. handled \in SUBSET Nat
  BY <1>0 DEF Histories
<1>2. ASSUME NEW shared \in BOOLEAN, NEW late \in BOOLEAN,
             seen' = [seen EXCEPT !.handled = handled, !.shared = shared, !.late = late]
      PROVE  /\ seen' \in Histories /\ seen'.handled = handled /\ seen'.keys = seen.keys
             /\ seen'.gesture = seen.gesture /\ seen'.mine = seen.mine
             /\ seen'.theirs = seen.theirs /\ seen'.layers = seen.layers
             /\ seen'.shared = shared /\ seen'.late = late
  <2> HIDE DEF handled
  <2> QED  BY <1>0, <1>1, <1>2 DEF Histories
<1>3. ASSUME seen' = [seen EXCEPT !.handled = handled]
      PROVE  /\ seen' \in Histories /\ seen'.handled = handled /\ seen'.keys = seen.keys
             /\ seen'.gesture = seen.gesture /\ seen'.mine = seen.mine
             /\ seen'.theirs = seen.theirs /\ seen'.layers = seen.layers
             /\ seen'.shared = seen.shared /\ seen'.late = seen.late
  <2> HIDE DEF handled
  <2> QED  BY <1>0, <1>1, <1>3 DEF Histories
<1>4. CASE T!Heard(event, f) /\ failures' = failures /\ uiThread' = uiThread
  <2>1. seen' = [seen EXCEPT !.handled = handled] /\ fence' = f
    BY <1>0, <1>4 DEF T!Heard, Histories
  <2> QED  BY <1>0, <1>3, <1>4, <2>1
<1>5. CASE T!Act(event, f)
  <2>1. uiThread' = uiThread \/ uiThread' = T!Quit("ok")
    BY <1>5 DEF T!Act
  <2>2. uiThread' \in Uis /\ (uiThread' = uiThread \/ (uiThread'.at = "stop" /\ uiThread'.then = "mouse off"))
    BY <1>0, <2>1, StopIs
  <2>3. failures' = failures
    BY <1>5 DEF T!Act, T!Works
  <2>4. CASE seen' = [seen EXCEPT !.handled = @ \cup {event.n}] /\ fence' = f
    <3>1. seen' = [seen EXCEPT !.handled = handled]
      BY <1>0, <2>4 DEF Histories
    <3> QED  BY <1>0, <1>3, <2>2, <2>3, <2>4, <3>1
  <2>5. CASE event.kind = "menu"
    <3>1. PICK recent \in T!Recent(f.last) :
             /\ fence' = [f EXCEPT !.layer = 1 - @, !.fenced = recent]
             /\ seen' = [seen EXCEPT !.handled = @ \cup {event.n},
                                     !.late = @ \/ (~recent /\ T!UnderWay(f.last))]
      BY <1>5, <2>5 DEF T!Act
    <3>2. recent \in BOOLEAN
      BY <3>1 DEF T!Recent
    <3> DEFINE layer == 1 - f.layer
               late == seen.late \/ (~recent /\ T!UnderWay(f.last))
    <3>3. layer \in {0, 1} /\ layer # f.layer
      <4>1. f.layer \in {0, 1}
        BY DEF Fences
      <4> QED  BY <4>1
    <3>4. late \in BOOLEAN
      BY <1>0 DEF Histories
    <3>5. fence' = [f EXCEPT !.layer = layer, !.fenced = recent]
      BY <3>1 DEF Fences
    <3>6. seen' = [seen EXCEPT !.handled = handled, !.late = late]
      BY <1>0, <3>1 DEF Histories
    <3>7. (seen.late => late) /\ (recent \/ ~T!UnderWay(f.last) \/ late)
      BY <3>2
    <3> HIDE DEF layer, late
    <3>8. /\ fence' \in Fences /\ fence'.layer = layer /\ fence'.fenced = recent
          /\ fence'.last = f.last
      BY <3>2, <3>3, <3>5 DEF Fences
    <3>9. /\ seen' \in Histories /\ seen'.handled = handled /\ seen'.keys = seen.keys
          /\ seen'.gesture = seen.gesture /\ seen'.mine = seen.mine
          /\ seen'.theirs = seen.theirs /\ seen'.layers = seen.layers
          /\ seen'.shared = seen.shared /\ seen'.late = late
      <4> HIDE DEF handled
      <4> QED  BY <1>0, <1>1, <3>4, <3>6 DEF Histories
    <3> QED  BY <2>2, <2>3, <3>3, <3>7, <3>8, <3>9, <1>0
  <2> QED  BY <1>5, <2>4, <2>5 DEF T!Act
<1>6. CASE T!Edit(event, f) /\ event.kind \in {"edit", "external"}
  <2>1. fence' = f /\ failures' = failures
    BY <1>6 DEF T!Edit, T!Works
  <2>2. CASE uiThread' = uiThread /\ seen' = [seen EXCEPT !.handled = @ \cup {event.n}]
    <3>1. seen' = [seen EXCEPT !.handled = handled]
      BY <1>0, <2>2 DEF Histories
    <3> QED  BY <1>0, <1>3, <2>1, <2>2, <3>1
  <2> DEFINE shared == seen.shared \/ event.kind = "external"
  <2>3. ASSUME seen' = [seen EXCEPT !.handled = @ \cup {event.n},
                                    !.shared = @ \/ event.kind = "external"]
        PROVE  /\ seen' \in Histories /\ seen'.handled = handled /\ seen'.keys = seen.keys
               /\ seen'.gesture = seen.gesture /\ seen'.mine = seen.mine
               /\ seen'.theirs = seen.theirs /\ seen'.layers = seen.layers
               /\ seen'.shared = shared /\ seen'.late = seen.late
    <3>1. shared \in BOOLEAN
      BY <1>0 DEF Histories
    <3>2. seen' = [seen EXCEPT !.handled = handled, !.shared = shared]
      BY <1>0, <2>3 DEF Histories
    <3> HIDE DEF shared, handled
    <3> QED  BY <1>0, <1>1, <3>1, <3>2 DEF Histories
  <2>4. CASE /\ event.kind = "edit" /\ uiThread' = [T!Stop("suspend mouse") EXCEPT !.paused = TRUE]
             /\ seen' = [seen EXCEPT !.handled = @ \cup {event.n},
                                     !.shared = @ \/ event.kind = "external"]
    <3>1. uiThread' \in Uis /\ uiThread'.at = "stop" /\ uiThread'.then = "suspend mouse" /\ uiThread'.paused
      BY <1>0, <2>4, StopIs
    <3> QED  BY <1>0, <2>1, <2>3, <2>4, <3>1
  <2>5. CASE /\ event.kind = "external"
             /\ uiThread' = [uiThread EXCEPT !.at = "suspend mouse", !.paused = FALSE]
             /\ seen' = [seen EXCEPT !.handled = @ \cup {event.n},
                                     !.shared = @ \/ event.kind = "external"]
    <3>1. uiThread' \in Uis /\ uiThread'.at = "suspend mouse" /\ uiThread'.paused = FALSE
      BY <1>0, <2>5 DEF Uis
    <3> QED  BY <1>0, <2>1, <2>3, <2>5, <3>1
  <2> QED  BY <1>6, <2>2, <2>4, <2>5 DEF T!Edit
<1>7. CASE T!Heard(event, f) /\ T!Fails("effect") /\ uiThread' = T!Quit("error")
  <2>1. seen' = [seen EXCEPT !.handled = handled] /\ fence' = f
    BY <1>0, <1>7 DEF T!Heard, Histories
  <2>2. uiThread' \in Uis /\ uiThread'.at = "stop" /\ uiThread'.then = "mouse off"
    BY <1>0, <1>7, StopIs
  <2>3. failures' \in Failures /\ failures'.calls = failures.calls \cup {"effect"}
    BY <1>0, <1>7, FailsIs
  <2> QED  BY <1>3, <2>1, <2>2, <2>3
<1> QED  BY <1>4, <1>5, <1>6, <1>7 DEF T!Press, T!Works

(* The run of reports at the front of the channel ends where something else   *)
(* follows.                                                                  *)
LEMMA WheelRunIs ==
  ASSUME channel \in Channels, T!WheelRun > 0
  PROVE  /\ T!WheelRun \in 1..(Len(channel.events) - 1)
         /\ \A i \in 1..T!WheelRun : channel.events[i].kind = T!Scroll
<1> DEFINE s == channel.events
           others == {i \in 1..Len(s) : s[i].kind # T!Scroll}
<1>1. Len(s) \in Nat
  BY DEF Channels
<1>2. T!WheelRun = (IF others # {} THEN T!Min(others) ELSE 0) - 1
  BY DEF T!WheelRun, T!SelectInSeq
<1>3. others # {}
  BY <1>2
<1>4. PICK x \in others : \A y \in others : x <= y
  <2>1. others \in SUBSET Nat
    OBVIOUS
  <2> HIDE DEF others
  <2> QED  BY <1>3, <2>1, LeastNumber
<1>5. T!Min(others) \in others /\ \A y \in others : T!Min(others) <= y
  BY <1>4 DEF T!Min
<1>6. T!WheelRun = T!Min(others) - 1
  BY <1>2, <1>3
<1> HIDE DEF others
<1>7. T!Min(others) \in 1..Len(s)
  BY <1>5 DEF others
<1>8. T!WheelRun \in 1..(Len(s) - 1)
  BY <1>1, <1>6, <1>7
<1>9. ASSUME NEW i \in 1..T!WheelRun PROVE s[i].kind = T!Scroll
  <2>1. i \in 1..Len(s) /\ i < T!Min(others)
    BY <1>1, <1>6, <1>7, <1>8
  <2>2. i \notin others
    BY <1>5, <1>7, <2>1
  <2> QED  BY <2>1, <2>2 DEF others
<1> QED  BY <1>8, <1>9

(* What is taken leaves the front of the channel. *)
LEMMA LaterIs ==
  ASSUME channel \in Channels, NEW n \in 0..Len(channel.events), channel' = T!Later(n)
  PROVE  /\ channel' \in Channels /\ channel'.closed = channel.closed
         /\ channel'.events = SubSeq(channel.events, n + 1, Len(channel.events))
<1> DEFINE events == SubSeq(channel.events, n + 1, Len(channel.events))
<1>1. events \in Seq(Sendable)
  <2>1. channel.events \in Seq(Sendable)
    BY DEF Channels
  <2> QED  BY <2>1, SeqFacts
<1>2. channel' = [channel EXCEPT !.events = events]
  BY DEF T!Later, Channels
<1> HIDE DEF events
<1>3. channel' \in Channels /\ channel'.closed = channel.closed /\ channel'.events = events
  BY <1>1, <1>2 DEF Channels
<1> QED  BY <1>3 DEF events

(* A turn of the loop that acts on a key: the reports before it are dropped.  *)
Taking(k, f) ==
    /\ k \in 0..(Len(channel.events) - 1)
    /\ \A i \in 1..k : channel.events[i].kind = T!Scroll
    /\ channel.events[k + 1].kind \in T!Kinds /\ channel.events[k + 1] \in Sendable
    /\ channel' \in Channels /\ channel'.closed = channel.closed
    /\ channel'.events = SubSeq(channel.events, k + 2, Len(channel.events))
    /\ T!Press(channel.events[k + 1], f)
    /\ f = fence \/ (k > 0 /\ f = [fence EXCEPT !.last = channel.events[k].n])

(* A turn of the loop with a key is a Taking. *)
LEMMA TakingIs ==
  ASSUME TerminalTypes, T!TakeKey \/ T!TakeWheelAndKey
  PROVE  /\ UNCHANGED <<tty, reader>> /\ uiThread.at = "loop"
         /\ \E k \in Nat, f \in Fences : Taking(k, f)
<1>1. /\ UNCHANGED <<tty, reader>> /\ uiThread.at = "loop" /\ channel \in Channels /\ fence \in Fences
      /\ channel.events \in Seq(Sendable)
  BY DEF T!TakeKey, T!TakeWheelAndKey, T!LoopOnly, T!Turn, TerminalTypes, Channels
<1>2. Len(channel.events) \in Nat /\ \A i \in 1..Len(channel.events) : channel.events[i] \in Sendable
  BY <1>1, SeqFacts
<1>3. CASE T!TakeKey
  <2>1. /\ channel.events # <<>> /\ Head(channel.events).kind \in T!Kinds /\ channel' = T!Later(1)
        /\ T!Press(Head(channel.events), fence)
    BY <1>3 DEF T!TakeKey
  <2>2. Head(channel.events) = channel.events[1] /\ Len(channel.events) >= 1
    BY <1>1, <2>1, SeqFacts
  <2>3. 1 \in 0..Len(channel.events)
    BY <1>2, <2>2
  <2>4. /\ channel' \in Channels /\ channel'.closed = channel.closed
        /\ channel'.events = SubSeq(channel.events, 1 + 1, Len(channel.events))
    BY <1>1, <2>1, <2>3, LaterIs
  <2>5. Taking(0, fence)
    BY <1>1, <1>2, <2>1, <2>2, <2>4 DEF Taking
  <2> QED  BY <1>1, <2>5
<1>4. CASE T!TakeWheelAndKey
  <2> DEFINE k == T!WheelRun
             next == channel.events[k + 1]
             f == IF next.kind = "quit" THEN fence ELSE [fence EXCEPT !.last = channel.events[k].n]
  <2>1. k > 0 /\ next.kind \in T!Kinds /\ channel' = T!Later(k + 1) /\ T!Press(next, f)
    BY <1>4 DEF T!TakeWheelAndKey
  <2>2. k \in 1..(Len(channel.events) - 1) /\ \A i \in 1..k : channel.events[i].kind = T!Scroll
    BY <1>1, <2>1, WheelRunIs
  <2>3. k \in Nat /\ k \in 1..Len(channel.events) /\ k + 1 \in 1..Len(channel.events)
    <3> HIDE DEF k
    <3> QED  BY <1>2, <2>2
  <2>4. next \in Sendable /\ channel.events[k].n \in Nat
    <3> HIDE DEF k
    <3> QED  BY <1>2, <2>3, InputIs
  <2>5. f \in Fences
    <3> HIDE DEF k
    <3>1. [fence EXCEPT !.last = channel.events[k].n] \in Fences
      BY <1>1, <2>4 DEF Fences
    <3> QED  BY <1>1, <3>1
  <2>6. /\ channel' \in Channels /\ channel'.closed = channel.closed
        /\ channel'.events = SubSeq(channel.events, (k + 1) + 1, Len(channel.events))
    <3> DEFINE n == k + 1
    <3>1. n \in 0..Len(channel.events) /\ channel' = T!Later(n)
      BY <2>1, <2>3
    <3> HIDE DEF n
    <3>2. /\ channel' \in Channels /\ channel'.closed = channel.closed
          /\ channel'.events = SubSeq(channel.events, n + 1, Len(channel.events))
      BY <1>1, <3>1, LaterIs
    <3> QED  BY <3>2 DEF n
  <2>7. (k + 1) + 1 = k + 2 /\ k \in 0..(Len(channel.events) - 1)
    <3> HIDE DEF k
    <3> QED  BY <1>2, <2>2, <2>3
  <2>8. f = fence \/ (k > 0 /\ f = [fence EXCEPT !.last = channel.events[k].n])
    BY <2>1
  <2> HIDE DEF k, f
  <2>9. Taking(k, f)
    BY <2>1, <2>2, <2>4, <2>6, <2>7, <2>8 DEF Taking
  <2> QED  BY <1>1, <2>3, <2>5, <2>9
<1> QED  BY <1>3, <1>4

(* A turn of the loop with reports alone takes them all; the fence holds    *)
(* them back, or the layer scrolls.                                         *)
LEMMA TakeWheelIs ==
  ASSUME TerminalTypes, T!TakeWheel
  PROVE  /\ UNCHANGED <<tty, reader, uiThread, failures>> /\ uiThread.at = "loop"
         /\ channel.events # <<>> /\ \A i \in 1..Len(channel.events) : channel.events[i].kind = T!Scroll
         /\ channel' \in Channels /\ channel'.closed = channel.closed /\ channel'.events = <<>>
         /\ fence' \in Fences /\ fence'.layer = fence.layer
         /\ fence'.last = channel.events[Len(channel.events)].n
         /\ seen' \in Histories /\ seen'.keys = seen.keys /\ seen'.gesture = seen.gesture
         /\ seen'.mine = seen.mine /\ seen'.theirs = seen.theirs
         /\ seen'.handled = seen.handled /\ seen'.shared = seen.shared
         /\ \/ seen'.layers = seen.layers /\ seen'.late = seen.late /\ fence'.fenced
            \/ /\ seen'.layers = seen.layers \cup
                     {<<g, fence.layer>> : g \in T!Gestures(channel.events)}
               /\ ~seen'.late => ~seen.late
               /\ ~seen'.late => ~(fence.fenced /\ fence.last \in T!Gestures(channel.events))
<1> DEFINE s == channel.events
           last == s[Len(s)].n
<1>1. /\ UNCHANGED <<tty, reader, uiThread, failures>> /\ uiThread.at = "loop" /\ s # <<>>
      /\ channel \in Channels /\ fence \in Fences /\ seen \in Histories /\ s \in Seq(Sendable)
      /\ T!Scrolls(s) = DOMAIN s /\ channel' = T!Later(Len(s))
  BY DEF T!TakeWheel, T!LoopOnly, T!Turn, TerminalTypes, Channels, T!Works
<1>2. /\ Len(s) \in Nat /\ Len(s) >= 1 /\ DOMAIN s = 1..Len(s)
      /\ \A i \in 1..Len(s) : s[i] \in Sendable
  BY <1>1, SeqFacts
<1>3. \A i \in 1..Len(s) : s[i].kind = T!Scroll
  BY <1>1, <1>2 DEF T!Scrolls
<1>4. channel' \in Channels /\ channel'.closed = channel.closed /\ channel'.events = <<>>
  <2>1. Len(s) \in 0..Len(s)
    BY <1>2
  <2>2. /\ channel' \in Channels /\ channel'.closed = channel.closed
        /\ channel'.events = SubSeq(s, Len(s) + 1, Len(s))
    BY <1>1, <2>1, LaterIs
  <2>3. Len(SubSeq(s, Len(s) + 1, Len(s))) = 0 /\ SubSeq(s, Len(s) + 1, Len(s)) \in Seq(Sendable)
    <3>1. Len(s) - Len(s) = 0
      BY <1>2
    <3> QED  BY <1>1, <2>1, <3>1, SeqFacts
  <2> QED  BY <2>2, <2>3
<1>5. last \in Nat
  BY <1>2, InputIs
<1>6. \A g \in T!Gestures(s) : g \in Nat
  BY <1>2, InputIs DEF T!Gestures, T!Scrolls
<1>7. PICK continues \in T!Recent(fence.last) :
         /\ fence' = [fence EXCEPT !.last = T!Last(s).n, !.fenced = T!Suppressed(continues)]
         /\ seen' = IF T!Suppressed(continues) THEN seen
                    ELSE [seen EXCEPT
                            !.layers = @ \cup {<<g, fence.layer>> : g \in T!Gestures(s)},
                            !.late = @ \/ (fence.fenced /\ fence.last \in T!Gestures(s))]
  BY DEF T!TakeWheel
<1>8. continues \in BOOLEAN /\ T!Suppressed(continues) \in BOOLEAN
  BY <1>1, <1>7 DEF T!Recent, T!Suppressed, Fences
<1>9. /\ fence' \in Fences /\ fence'.layer = fence.layer /\ fence'.last = last
      /\ fence'.fenced = T!Suppressed(continues)
  <2> DEFINE sup == T!Suppressed(continues)
  <2>1. fence' = [fence EXCEPT !.last = last, !.fenced = sup]
    BY <1>7 DEF T!Last
  <2> HIDE DEF last, sup
  <2>2. /\ fence' \in Fences /\ fence'.layer = fence.layer /\ fence'.last = last
        /\ fence'.fenced = sup
    BY <1>1, <1>5, <1>8, <2>1 DEF Fences, sup
  <2> QED  BY <2>2 DEF sup
<1>10. CASE T!Suppressed(continues)
  <2>1. seen' = seen
    BY <1>7, <1>10
  <2> QED  BY <1>1, <1>3, <1>4, <1>9, <1>10, <2>1
<1>11. CASE ~T!Suppressed(continues)
  <2> DEFINE layers == seen.layers \cup {<<g, fence.layer>> : g \in T!Gestures(s)}
             late == seen.late \/ (fence.fenced /\ fence.last \in T!Gestures(s))
  <2>1. seen' = [seen EXCEPT !.layers = layers, !.late = late]
    BY <1>1, <1>7, <1>11 DEF Histories
  <2>2. layers \in SUBSET (Nat \X {0, 1})
    BY <1>1, <1>6 DEF Histories, Fences
  <2>3. late \in BOOLEAN
    BY <1>1 DEF Histories
  <2>4. (~late => ~seen.late) /\ (~late => ~(fence.fenced /\ fence.last \in T!Gestures(s)))
    OBVIOUS
  <2> HIDE DEF layers, late
  <2>5. /\ seen' \in Histories /\ seen'.keys = seen.keys /\ seen'.gesture = seen.gesture
        /\ seen'.mine = seen.mine /\ seen'.theirs = seen.theirs
        /\ seen'.handled = seen.handled /\ seen'.shared = seen.shared
        /\ seen'.layers = layers /\ seen'.late = late
    BY <1>1, <2>1, <2>2, <2>3 DEF Histories
  <2> QED  BY <1>1, <1>3, <1>4, <1>9, <2>4, <2>5 DEF layers
<1> QED  BY <1>10, <1>11

(* An error ends the loop. *)
LEMMA TakeErrorIs ==
  ASSUME TerminalTypes, T!TakeError
  PROVE  /\ UNCHANGED <<tty, reader, channel, fence, seen, failures>> /\ uiThread.at = "loop"
         /\ uiThread' \in Uis /\ uiThread'.at = "stop" /\ uiThread'.then = "mouse off"
<1>1. /\ UNCHANGED <<tty, reader, channel, fence, seen, failures>> /\ uiThread.at = "loop" /\ uiThread \in Uis
      /\ uiThread' = T!Quit("error")
  BY DEF T!TakeError, T!LoopOnly, T!Turn, T!Works, TerminalTypes
<1> QED  BY <1>1, StopIs

(* Stopping the reader sets its flag first. *)
LEMMA SetShutdownIs ==
  ASSUME TerminalTypes, T!SetShutdown
  PROVE  /\ UNCHANGED <<tty, channel, fence, seen, failures>> /\ uiThread.at = "stop"
         /\ reader' \in Readers /\ reader'.at = reader.at /\ reader'.hand = reader.hand
         /\ uiThread' \in Uis /\ uiThread'.at = "close" /\ uiThread'.then = uiThread.then /\ uiThread'.paused = uiThread.paused
<1>1. /\ UNCHANGED <<tty, channel, fence, seen, failures>> /\ uiThread.at = "stop" /\ uiThread \in Uis
      /\ reader \in Readers /\ reader' = [reader EXCEPT !.shutdown = TRUE]
      /\ uiThread' = [uiThread EXCEPT !.at = "close"] /\ "close" \in Moments
  BY DEF T!SetShutdown, T!UiOnly, T!Turn, T!Works, T!Go, TerminalTypes, Moments
<1>2. reader' \in Readers /\ reader'.at = reader.at /\ reader'.hand = reader.hand
  BY <1>1 DEF Readers
<1>3. uiThread' \in Uis /\ uiThread'.at = "close" /\ uiThread'.then = uiThread.then /\ uiThread'.paused = uiThread.paused
  BY <1>1 DEF Uis
<1> QED  BY <1>1, <1>2, <1>3

(* Then it closes the channel. *)
LEMMA CloseAndJoinIs ==
  ASSUME TerminalTypes, T!CloseAndJoin
  PROVE  /\ UNCHANGED <<tty, reader, fence, seen, failures>> /\ uiThread.at = "close"
         /\ channel' \in Channels /\ channel'.events = channel.events
         /\ uiThread' \in Uis /\ uiThread'.at = "join" /\ uiThread'.then = uiThread.then /\ uiThread'.paused = uiThread.paused
<1>1. /\ UNCHANGED <<tty, reader, fence, seen, failures>> /\ uiThread.at = "close" /\ uiThread \in Uis
      /\ channel \in Channels /\ channel' = [channel EXCEPT !.closed = TRUE]
      /\ uiThread' = [uiThread EXCEPT !.at = "join"] /\ "join" \in Moments
  BY DEF T!CloseAndJoin, T!CloseChannel, T!UiOnly, T!Turn, T!Works, T!Go, TerminalTypes, Moments
<1>2. channel' \in Channels /\ channel'.events = channel.events
  BY <1>1 DEF Channels
<1>3. uiThread' \in Uis /\ uiThread'.at = "join" /\ uiThread'.then = uiThread.then /\ uiThread'.paused = uiThread.paused
  BY <1>1 DEF Uis
<1> QED  BY <1>1, <1>2, <1>3

(* Then it waits until the reader is gone and clears what was sent. *)
LEMMA JoinedIs ==
  ASSUME TerminalTypes, T!Joined
  PROVE  /\ UNCHANGED <<tty, reader, fence, seen, failures>> /\ uiThread.at = "join" /\ reader.at = "gone"
         /\ channel' \in Channels /\ channel'.events = <<>>
         /\ uiThread' \in Uis /\ uiThread'.at = uiThread.then /\ uiThread.then \in {"mouse off", "suspend mouse"}
         /\ uiThread'.paused = uiThread.paused
<1>1. /\ UNCHANGED <<tty, reader, fence, seen, failures>> /\ uiThread.at = "join" /\ reader.at = "gone"
      /\ channel \in Channels /\ channel' = [channel EXCEPT !.events = <<>>]
      /\ uiThread \in Uis /\ uiThread' = [uiThread EXCEPT !.at = uiThread.then] /\ uiThread.then # ""
  BY DEF T!Joined, T!UiOnly, T!Turn, T!Works, T!Go, TerminalTypes
<1>2. channel' \in Channels /\ channel'.events = <<>>
  <2> DEFINE events == <<>>
  <2>1. events \in Seq(Sendable)
    OBVIOUS
  <2>0. channel' = [channel EXCEPT !.events = events]
    BY <1>1
  <2> HIDE DEF events
  <2>2. channel' \in Channels /\ channel'.events = events
    BY <1>1, <2>0, <2>1 DEF Channels
  <2> QED  BY <2>2 DEF events
<1>3. uiThread.then \in {"mouse off", "suspend mouse"} /\ uiThread.then \in Moments
  BY <1>1 DEF Uis, Moments
<1>4. uiThread' \in Uis /\ uiThread'.at = uiThread.then /\ uiThread'.paused = uiThread.paused
  BY <1>1, <1>3, UiMoves
<1> QED  BY <1>1, <1>2, <1>3, <1>4

(* Quit keys count again a while after an editor. *)
LEMMA EditorQuitKeysCountIs ==
  ASSUME TerminalTypes, T!EditorQuitKeysCount
  PROVE  /\ UNCHANGED <<tty, reader, channel, fence, seen, failures>> /\ uiThread.at = "loop"
         /\ uiThread' \in Uis /\ uiThread'.at = "loop" /\ uiThread'.paused = uiThread.paused
  BY DEF T!EditorQuitKeysCount, TerminalTypes, Uis

(* One step of the specification is one of these. *)
Person == (\E kind \in T!Kinds : T!Type(kind))
              \/ (\E g \in {seen.gesture, seen.gesture + 1} \ {0} : T!Wheel(g))
Moving == T!Arrive \/ T!EditorReads \/ T!ReaderStep
Looping == T!StartLoop \/ T!Restart \/ T!TakeKey \/ T!TakeWheelAndKey \/ T!TakeWheel \/ T!TakeError
Stopping == T!SetShutdown \/ T!CloseAndJoin \/ T!Joined \/ T!EditorQuitKeysCount

(* One step of the specification is of one of these kinds. *)
LEMMA StepIs ==
  ASSUME [T!Next]_(T!vars)
  PROVE  Fixing \/ Person \/ Moving \/ Looping \/ Stopping \/ UNCHANGED T!vars
  BY DEF T!Next, T!UiStep, Fixing, Person, Moving, Looping, Stopping

(* At the start the terminal is as a shell leaves it. *)
LEMMA InitTypes == T!Init => TerminalTypes /\ Place
<1> SUFFICES ASSUME T!Init PROVE TerminalTypes /\ Place
  OBVIOUS
<1> DEFINE none == <<>>
<1>0. none \in Seq(Inputs) /\ none \in Seq(Marks) /\ none \in Seq(Sendable)
  OBVIOUS
<1>1. T!Modes \in [ModeNames -> BOOLEAN] /\ \A m \in ModeNames : ~T!Modes[m]
  BY DEF T!Modes, ModeNames
<1>2. tty = [modes |-> T!Modes, queue |-> none, air |-> none]
  BY DEF T!Init
<1>3. channel = [events |-> none, closed |-> FALSE]
  BY DEF T!Init
<1>4. T!Scrolls(none) = {}
  BY DEF T!Scrolls
<1> HIDE DEF none
<1>5. /\ tty \in Terminals /\ tty.modes = T!Modes /\ tty.queue = none /\ tty.air = none
      /\ channel \in Channels
  BY <1>0, <1>1, <1>2, <1>3 DEF Terminals, Channels
<1>6. reader \in Readers /\ reader.at = "gone"
  <2> DEFINE hand == T!Nothing
  <2>1. reader = [at |-> "gone", hand |-> hand, shutdown |-> FALSE] /\ hand \in Sendable \cup {T!Nothing}
    BY NothingIs DEF T!Init, T!Idle
  <2> HIDE DEF hand
  <2> QED  BY <2>1 DEF Readers
<1>7. uiThread \in Uis /\ uiThread.at = "raw"
  <2>1. "raw" \in Moments
    BY DEF Moments
  <2>2. uiThread = [at |-> "raw", then |-> "", paused |-> FALSE, tries |-> 0, ignoring |-> FALSE,
                    result |-> "ok"]
    BY DEF T!Init
  <2>3. \A at \in Moments, tries \in Int :
           [at |-> at, then |-> "", paused |-> FALSE, tries |-> tries, ignoring |-> FALSE,
            result |-> "ok"] \in Uis
    BY DEF Uis
  <2>4. 0 \in Int
    OBVIOUS
  <2> QED  BY <2>1, <2>2, <2>3, <2>4
<1>8. fence \in Fences
  BY DEF T!Init, Fences
<1>9. seen \in Histories
  <2> DEFINE nobody == {}
  <2>1. nobody \in SUBSET Nat /\ nobody \in SUBSET (Nat \X {0, 1})
    OBVIOUS
  <2>2. seen = [keys |-> 0, scrolls |-> 0, gesture |-> 0, mine |-> nobody, theirs |-> nobody,
                handled |-> nobody, shared |-> FALSE, layers |-> nobody, late |-> FALSE]
    BY DEF T!Init
  <2> HIDE DEF nobody
  <2> QED  BY <2>1, <2>2 DEF Histories
<1>10. failures \in Failures
  <2> DEFINE nothing == {}
  <2>1. PICK scenario \in Scenarios : failures = [times |-> 0, calls |-> nothing, of |-> scenario]
    BY DEF T!Init
  <2>2. nothing \in SUBSET Calls
    OBVIOUS
  <2> HIDE DEF nothing
  <2> QED  BY <2>1, <2>2 DEF Failures
<1>11. T!NoScrolls(tty)
  BY <1>4, <1>5 DEF T!NoScrolls, none
<1>12. TerminalTypes
  BY <1>5, <1>6, <1>7, <1>8, <1>9, <1>10 DEF TerminalTypes
<1>13. Place
  BY <1>1, <1>5, <1>7, <1>11 DEF Place
<1> QED  BY <1>12, <1>13

(* Every step keeps the terminal in its place. *)
LEMMA StepPlace ==
  ASSUME TerminalTypes, Place, [T!Next]_(T!vars)
  PROVE  TerminalTypes' /\ Place'
<1>1. CASE Fixing
  BY <1>1, FixingKeeps
<1>2. ASSUME NEW kind \in T!Kinds, T!Type(kind) PROVE TerminalTypes' /\ Place'
  <2> DEFINE e == T!Event(kind, seen.keys + 1)
  <2>1. /\ UNCHANGED <<reader, channel, uiThread, fence, failures>> /\ e \in Inputs /\ e.kind # T!Scroll
        /\ tty' \in Terminals /\ tty'.modes = tty.modes /\ tty'.air = tty.air
        /\ tty'.queue = Append(tty.queue, e) /\ seen' \in Histories
    BY <1>2, TypeIs DEF T!Event, T!Kinds, T!Scroll
  <2> HIDE DEF e
  <2>2. TerminalTypes'
    BY <2>1 DEF TerminalTypes
  <2>3. tty.queue \in Seq(Inputs)
    BY DEF TerminalTypes, Terminals
  <2>4. T!NoScrolls(tty) => T!NoScrolls(tty')
    BY <2>1, <2>3, ScrollsOf DEF T!NoScrolls
  <2> QED  BY <2>1, <2>2, <2>4, PlaceStays
<1>3. ASSUME NEW g \in {seen.gesture, seen.gesture + 1} \ {0}, T!Wheel(g) PROVE TerminalTypes' /\ Place'
  <2>1. /\ UNCHANGED <<reader, channel, uiThread, fence, failures>> /\ tty.modes["mouse"]
        /\ tty' \in Terminals /\ tty'.modes = tty.modes /\ seen' \in Histories
    BY <1>3, WheelIs
  <2>2. TerminalTypes'
    BY <2>1 DEF TerminalTypes
  <2> QED  BY <2>1, <2>2, PlaceStays
<1>4. CASE T!Arrive
  <2>1. /\ UNCHANGED <<reader, channel, uiThread, fence, seen, failures>> /\ tty.air # <<>>
        /\ tty' \in Terminals /\ tty'.modes = tty.modes
    BY <1>4, ArriveIs
  <2>2. TerminalTypes'
    BY <2>1 DEF TerminalTypes
  <2> QED  BY <2>1, <2>2, PlaceStays DEF T!NoScrolls
<1>5. CASE T!EditorReads
  <2>1. /\ UNCHANGED <<reader, channel, uiThread, fence, seen, failures>> /\ tty.queue # <<>>
        /\ tty' \in Terminals /\ tty'.modes = tty.modes /\ tty'.air = tty.air
        /\ tty'.queue = Tail(tty.queue) /\ tty.queue \in Seq(Inputs)
    BY <1>5, EditorReadsIs, FrontIs DEF TerminalTypes
  <2>2. TerminalTypes'
    BY <2>1 DEF TerminalTypes
  <2>3. T!NoScrolls(tty) => T!NoScrolls(tty')
    BY <2>1, ScrollsOf DEF T!NoScrolls
  <2> QED  BY <2>1, <2>2, <2>3, PlaceStays
<1>6. CASE T!ReaderStep
  <2>1. CASE T!ReaderPolls
    <3>1. /\ UNCHANGED <<channel, uiThread, fence, seen>> /\ reader' \in Readers /\ tty' \in Terminals
          /\ tty'.modes = tty.modes /\ tty'.air = tty.air /\ failures' \in Failures
          /\ reader'.at = "drain" \/ reader'.hand \in Sendable
          /\ failures.calls \subseteq failures'.calls
          /\ tty' = tty \/ (tty.queue # <<>> /\ tty'.queue = Tail(tty.queue))
      BY <2>1, ReaderPollsIs DEF Sendable
    <3>2. TerminalTypes'
      BY <3>1 DEF TerminalTypes
    <3>3. tty.queue \in Seq(Inputs)
      BY DEF TerminalTypes, Terminals
    <3>4. T!NoScrolls(tty) => T!NoScrolls(tty')
      BY <3>1, <3>3, ScrollsOf DEF T!NoScrolls
    <3> QED  BY <3>1, <3>2, <3>4, PlaceStays
  <2>2. CASE T!ReaderReads
    <3>1. /\ UNCHANGED <<tty, channel, uiThread, fence, seen, failures>> /\ reader' \in Readers
          /\ reader'.at = "drain" \/ reader'.hand \in Sendable
      BY <2>2, ReaderReadsIs DEF TerminalTypes
    <3>2. TerminalTypes'
      BY <3>1 DEF TerminalTypes
    <3> QED  BY <3>1, <3>2, PlaceStays
  <2>3. CASE T!ReaderSends
    <3>1. /\ UNCHANGED <<tty, uiThread, fence, seen, failures>> /\ reader' \in Readers
          /\ reader'.at \in {"drain", "poll"} /\ channel' \in Channels
      BY <2>3, ReaderSendsIs
    <3>2. TerminalTypes'
      BY <3>1 DEF TerminalTypes
    <3> QED  BY <3>1, <3>2, PlaceStays
  <2>4. CASE T!ReaderDrains
    <3>1. /\ UNCHANGED <<channel, uiThread, fence, seen, failures>> /\ reader' \in Readers
          /\ reader'.at = "gone" /\ tty' \in Terminals /\ tty'.modes = tty.modes
          /\ tty'.air = tty.air /\ tty'.queue = <<>>
      BY <2>4, ReaderDrainsIs
    <3>2. TerminalTypes'
      BY <3>1 DEF TerminalTypes
    <3>3. T!NoScrolls(tty) => T!NoScrolls(tty')
      BY <3>1 DEF T!NoScrolls, T!Scrolls
    <3> QED  BY <3>1, <3>2, <3>3, PlaceStays
  <2> QED  BY <1>6, <2>1, <2>2, <2>3, <2>4 DEF T!ReaderStep
<1>7. CASE Looping
  <2>1. CASE T!StartLoop
    <3>1. /\ UNCHANGED <<tty, fence>> /\ uiThread.at = "start" /\ uiThread' \in Uis /\ failures' \in Failures
          /\ seen' \in Histories /\ uiThread'.at \in {"loop", "mouse off"}
          /\ Started \/ UNCHANGED <<reader, channel>>
      BY <2>1, StartLoopIs
    <3>2. TerminalTypes'
      BY <3>1 DEF TerminalTypes, Started
    <3>3. Place'
      BY <3>1 DEF Place
    <3> QED  BY <3>2, <3>3
  <2>2. CASE T!Restart
    <3>1. /\ UNCHANGED <<tty, fence>> /\ uiThread.at = "restart" /\ uiThread' \in Uis /\ failures' \in Failures
          /\ seen' \in Histories /\ failures.calls \subseteq failures'.calls
          /\ uiThread'.at = "loop" \/ (uiThread'.at = "stop" /\ uiThread'.then = "mouse off")
          /\ Started \/ UNCHANGED <<reader, channel>>
      BY <2>2, RestartIs
    <3>2. TerminalTypes'
      BY <3>1 DEF TerminalTypes, Started
    <3>3. Place'
      BY <3>1 DEF Place
    <3> QED  BY <3>2, <3>3
  <2>3. CASE T!TakeKey \/ T!TakeWheelAndKey
    <3>1. PICK k \in Nat, f \in Fences : Taking(k, f)
      BY <2>3, TakingIs
    <3>2. UNCHANGED <<tty, reader>> /\ uiThread.at = "loop"
      BY <2>3, TakingIs
    <3>3. /\ uiThread' \in Uis /\ seen' \in Histories /\ fence' \in Fences /\ failures' \in Failures
          /\ \/ uiThread' = uiThread \/ uiThread'.at = "suspend mouse"
             \/ uiThread'.at = "stop" /\ uiThread'.then \in {"mouse off", "suspend mouse"}
          /\ failures.calls \subseteq failures'.calls /\ channel' \in Channels
      BY <3>1, <3>2, PressIs DEF Taking
    <3>4. TerminalTypes'
      BY <3>2, <3>3 DEF TerminalTypes
    <3>5. Place'
      BY <3>2, <3>3 DEF Place
    <3> QED  BY <3>4, <3>5
  <2>4. CASE T!TakeWheel
    <3>1. /\ UNCHANGED <<tty, reader, uiThread, failures>> /\ channel' \in Channels
          /\ fence' \in Fences /\ seen' \in Histories
      BY <2>4, TakeWheelIs
    <3>2. TerminalTypes'
      BY <3>1 DEF TerminalTypes
    <3> QED  BY <3>1, <3>2, PlaceStays
  <2>5. CASE T!TakeError
    <3>1. /\ UNCHANGED <<tty, reader, channel, fence, seen, failures>>
          /\ uiThread' \in Uis /\ uiThread'.at = "stop" /\ uiThread'.then = "mouse off"
      BY <2>5, TakeErrorIs
    <3>2. TerminalTypes'
      BY <3>1 DEF TerminalTypes
    <3>3. Place'
      BY <3>1 DEF Place
    <3> QED  BY <3>2, <3>3
  <2> QED  BY <1>7, <2>1, <2>2, <2>3, <2>4, <2>5 DEF Looping
<1>8. CASE Stopping
  <2>1. CASE T!SetShutdown \/ T!CloseAndJoin \/ T!Joined
    <3>1. /\ UNCHANGED <<tty, fence, seen, failures>> /\ reader' \in Readers /\ channel' \in Channels
          /\ reader'.at = reader.at /\ reader'.hand = reader.hand /\ uiThread' \in Uis
          /\ \/ uiThread.at \in {"stop", "close"} /\ uiThread'.at \in {"close", "join"} /\ uiThread'.then = uiThread.then
             \/ uiThread'.at \in {"mouse off", "suspend mouse"}
      BY <2>1, SetShutdownIs, CloseAndJoinIs, JoinedIs DEF TerminalTypes
    <3>2. TerminalTypes'
      BY <3>1 DEF TerminalTypes
    <3>3. Place'
      BY <3>1 DEF Place
    <3> QED  BY <3>2, <3>3
  <2>2. CASE T!EditorQuitKeysCount
    <3>1. /\ UNCHANGED <<tty, reader, channel, fence, seen, failures>> /\ uiThread.at = "loop"
          /\ uiThread' \in Uis /\ uiThread'.at = "loop"
      BY <2>2, EditorQuitKeysCountIs
    <3>2. TerminalTypes'
      BY <3>1 DEF TerminalTypes
    <3>3. Place'
      BY <3>1 DEF Place
    <3> QED  BY <3>2, <3>3
  <2> QED  BY <1>8, <2>1, <2>2 DEF Stopping
<1>9. CASE UNCHANGED T!vars
  <2>1. TerminalTypes'
    BY <1>9 DEF T!vars, TerminalTypes
  <2> QED  BY <1>9, <2>1, PlaceStays DEF T!vars
<1> QED  BY <1>1, <1>2, <1>3, <1>4, <1>5, <1>6, <1>7, <1>8, <1>9, StepIs DEF Person, Moving

(* The terminal is always in its place. *)
LEMMA PlaceHolds == T!Spec => [](TerminalTypes /\ Place)
  BY InitTypes, StepPlace, PTL DEF T!Spec

(* An editor and a shell get the terminal as it was, whatever fails, and it   *)
(* is the view's own while it listens (run.rs, editor.rs).                   *)
THEOREM TerminalStaysInItsPlace == T!Spec => []TerminalInItsPlace
<1>1. ASSUME TerminalTypes, Place PROVE TerminalInItsPlace
  <2>1. tty.modes \in [ModeNames -> BOOLEAN] /\ DOMAIN T!Modes = ModeNames
    BY <1>1 DEF TerminalTypes, Terminals, T!Modes, ModeNames
  <2>2. ASSUME \A m \in ModeNames : ~tty.modes[m] PROVE tty.modes = T!Modes
    <3>1. T!Modes \in [ModeNames -> BOOLEAN] /\ \A m \in ModeNames : ~T!Modes[m]
      BY DEF T!Modes, ModeNames
    <3>2. \A m \in ModeNames : tty.modes[m] = FALSE /\ T!Modes[m] = FALSE
      BY <2>1, <2>2, <3>1
    <3> HIDE DEF T!Modes
    <3> QED  BY <2>1, <3>1, <3>2
  <2>3. uiThread.at = "editor" => tty.modes = T!Modes /\ T!NoScrolls(tty)
    BY <1>1, <2>2 DEF Place, ModeNames
  <2>4. uiThread.at = "left" =>
          /\ \A mode \in ModeNames : tty.modes[mode] => T!GivenBackBy[mode] \in failures.calls
          /\ "mouse off" \notin failures.calls => T!NoScrolls(tty)
    BY <1>1 DEF Place, GoneOr, ModeNames
  <2>5. uiThread.at = "loop" /\ "resume" \notin failures.calls => \A mode \in ModeNames : tty.modes[mode]
    BY <1>1 DEF Place
  <2> QED  BY <2>1, <2>3, <2>4, <2>5 DEF TerminalInItsPlace, T!TerminalInItsPlace
<1> QED  BY <1>1, PlaceHolds, PTL

---------------------------------------------------------------------------
(* The numbers of the events of a kind: of a sequence that grows or shrinks. *)

Numbers(s, K) == {s[i].n : i \in {j \in DOMAIN s : s[j].kind \in K}}

(* A number of events of a kind is that of one of them. *)
LEMMA NumbersAre ==
  ASSUME NEW S, NEW s \in Seq(S), NEW K
  PROVE  \A x : x \in Numbers(s, K) <=> \E i \in 1..Len(s) : s[i].kind \in K /\ s[i].n = x
  BY SeqFacts DEF Numbers

(* The numbers of keys and of gestures are such numbers. *)
LEMMA KeysAndGestures ==
  ASSUME NEW s
  PROVE  T!Keys(s) = Numbers(s, T!Kinds) /\ T!Gestures(s) = Numbers(s, {T!Scroll})
  BY DEF T!Keys, T!Gestures, T!Scrolls, Numbers

(* The numbers of none and of one event. *)
LEMMA NumbersOfNone ==
  ASSUME NEW K
  PROVE  /\ Numbers(<<>>, K) = {}
         /\ \A e : Numbers(<<e>>, K) = IF e.kind \in K THEN {e.n} ELSE {}
<1>1. Numbers(<<>>, K) = {}
  BY DEF Numbers
<1>2. ASSUME NEW e PROVE Numbers(<<e>>, K) = IF e.kind \in K THEN {e.n} ELSE {}
  <2>1. DOMAIN <<e>> = {1} /\ <<e>>[1] = e
    OBVIOUS
  <2> DEFINE s == <<e>>
  <2> HIDE DEF s
  <2>2. Numbers(s, K) = IF e.kind \in K THEN {e.n} ELSE {}
    <3>1. DOMAIN s = {1} /\ s[1] = e
      BY <2>1 DEF s
    <3> QED  BY <3>1 DEF Numbers
  <2> QED  BY <2>2 DEF s
<1> QED  BY <1>1, <1>2

(* An event more brings its number. *)
LEMMA NumbersAppend ==
  ASSUME NEW S, NEW s \in Seq(S), NEW K, NEW e \in S
  PROVE  Numbers(Append(s, e), K) = Numbers(s, K) \cup Numbers(<<e>>, K)
<1> DEFINE t == Append(s, e)
<1>1. /\ t \in Seq(S) /\ Len(t) = Len(s) + 1 /\ Len(s) \in Nat /\ t[Len(s) + 1] = e
      /\ \A i \in 1..Len(s) : t[i] = s[i]
  BY SeqFacts
<1> HIDE DEF t
<1>2. \A x : x \in Numbers(t, K) <=> \E i \in 1..Len(t) : t[i].kind \in K /\ t[i].n = x
  BY <1>1, NumbersAre
<1>3. \A x : x \in Numbers(s, K) <=> \E i \in 1..Len(s) : s[i].kind \in K /\ s[i].n = x
  BY NumbersAre
<1>4. \A i \in 1..Len(t) : i = Len(s) + 1 \/ i \in 1..Len(s)
  BY <1>1
<1>5. Len(s) + 1 \in 1..Len(t) /\ 1..Len(s) \subseteq 1..Len(t)
  BY <1>1
<1>6. \A x : x \in Numbers(<<e>>, K) <=> e.kind \in K /\ e.n = x
  BY NumbersOfNone
<1>7. \A x : x \in Numbers(t, K) <=> x \in Numbers(s, K) \/ x \in Numbers(<<e>>, K)
  BY <1>1, <1>2, <1>3, <1>4, <1>5, <1>6
<1> QED  BY <1>7 DEF t

(* An event less takes its number. *)
LEMMA NumbersTail ==
  ASSUME NEW S, NEW s \in Seq(S), NEW K, s # <<>>
  PROVE  Numbers(s, K) = Numbers(<<Head(s)>>, K) \cup Numbers(Tail(s), K)
<1> DEFINE t == Tail(s)
<1>1. /\ t \in Seq(S) /\ Len(t) = Len(s) - 1 /\ Len(s) \in Nat /\ Len(s) >= 1 /\ Head(s) = s[1]
      /\ \A i \in 1..(Len(s) - 1) : t[i] = s[i + 1]
  BY SeqFacts
<1> HIDE DEF t
<1>2. \A x : x \in Numbers(t, K) <=> \E i \in 1..Len(t) : t[i].kind \in K /\ t[i].n = x
  BY <1>1, NumbersAre
<1>3. \A x : x \in Numbers(s, K) <=> \E i \in 1..Len(s) : s[i].kind \in K /\ s[i].n = x
  BY NumbersAre
<1>4. \A i \in 1..Len(s) : i = 1 \/ (i - 1 \in 1..Len(t) /\ t[i - 1] = s[i])
  BY <1>1
<1>5. 1 \in 1..Len(s) /\ \A i \in 1..Len(t) : i + 1 \in 1..Len(s) /\ t[i] = s[i + 1]
  BY <1>1
<1>6. \A x : x \in Numbers(<<Head(s)>>, K) <=> s[1].kind \in K /\ s[1].n = x
  BY <1>1, NumbersOfNone
<1>7. \A x : x \in Numbers(s, K) <=> x \in Numbers(<<Head(s)>>, K) \/ x \in Numbers(t, K)
  <2>1. ASSUME NEW x, x \in Numbers(s, K) PROVE x \in Numbers(<<Head(s)>>, K) \/ x \in Numbers(t, K)
    <3>1. PICK i \in 1..Len(s) : s[i].kind \in K /\ s[i].n = x
      BY <1>3, <2>1
    <3> QED  BY <1>2, <1>4, <1>6, <3>1
  <2>2. ASSUME NEW x, x \in Numbers(t, K) PROVE x \in Numbers(s, K)
    <3>1. PICK i \in 1..Len(t) : t[i].kind \in K /\ t[i].n = x
      BY <1>2, <2>2
    <3> QED  BY <1>3, <1>5, <3>1
  <2>3. ASSUME NEW x, x \in Numbers(<<Head(s)>>, K) PROVE x \in Numbers(s, K)
    BY <1>3, <1>5, <1>6, <2>3
  <2> QED  BY <2>1, <2>2, <2>3
<1> QED  BY <1>7 DEF t

(* Events taken from the front take no number but theirs. *)
LEMMA NumbersLater ==
  ASSUME NEW S, NEW s \in Seq(S), NEW K, NEW k \in 0..Len(s)
  PROVE  /\ Numbers(SubSeq(s, k + 1, Len(s)), K) \subseteq Numbers(s, K)
         /\ \A x \in Numbers(s, K) :
               \/ x \in Numbers(SubSeq(s, k + 1, Len(s)), K)
               \/ \E i \in 1..k : s[i].kind \in K /\ s[i].n = x
<1> DEFINE t == SubSeq(s, k + 1, Len(s))
<1>1. /\ t \in Seq(S) /\ Len(t) = Len(s) - k /\ Len(s) \in Nat
      /\ \A i \in 1..(Len(s) - k) : t[i] = s[i + k]
  BY SeqFacts
<1> HIDE DEF t
<1>0. t \in Seq(S)
  BY <1>1
<1>2. \A x : x \in Numbers(t, K) <=> \E i \in 1..Len(t) : t[i].kind \in K /\ t[i].n = x
  BY <1>0, NumbersAre
<1>3. \A x : x \in Numbers(s, K) <=> \E i \in 1..Len(s) : s[i].kind \in K /\ s[i].n = x
  BY NumbersAre, Zenon
<1>4. ASSUME NEW x \in Numbers(t, K) PROVE x \in Numbers(s, K)
  <2>1. PICK i \in 1..Len(t) : t[i].kind \in K /\ t[i].n = x
    BY <1>2, <1>4
  <2>2. i + k \in 1..Len(s) /\ t[i] = s[i + k]
    BY <1>1, <2>1
  <2> QED  BY <1>3, <2>1, <2>2
<1>5. ASSUME NEW x \in Numbers(s, K)
      PROVE  x \in Numbers(t, K) \/ \E i \in 1..k : s[i].kind \in K /\ s[i].n = x
  <2>1. PICK i \in 1..Len(s) : s[i].kind \in K /\ s[i].n = x
    BY <1>3, <1>5
  <2>2. CASE i <= k
    BY <2>1, <2>2
  <2>3. CASE i > k
    <3>1. i - k \in 1..Len(t) /\ t[i - k] = s[(i - k) + k] /\ (i - k) + k = i
      BY <1>1, <2>1, <2>3
    <3> QED  BY <1>2, <2>1, <3>1
  <2> QED  BY <2>1, <2>2, <2>3
<1> QED  BY <1>4, <1>5 DEF t

(* So for keys and for gestures.                                             *)
LEMMA KeysAppend ==
  ASSUME NEW S, NEW s \in Seq(S), NEW e \in S
  PROVE  /\ T!Keys(Append(s, e)) = T!Keys(s) \cup T!Keys(<<e>>)
         /\ T!Gestures(Append(s, e)) = T!Gestures(s) \cup T!Gestures(<<e>>)
  BY NumbersAppend, KeysAndGestures

(* So for a sequence that loses its front. *)
LEMMA KeysTail ==
  ASSUME NEW S, NEW s \in Seq(S), s # <<>>
  PROVE  /\ T!Keys(s) = T!Keys(<<Head(s)>>) \cup T!Keys(Tail(s))
         /\ T!Gestures(s) = T!Gestures(<<Head(s)>>) \cup T!Gestures(Tail(s))
  BY NumbersTail, KeysAndGestures

(* So for none and for one event. *)
LEMMA KeysOfOne ==
  /\ T!Keys(<<>>) = {} /\ T!Gestures(<<>>) = {}
  /\ \A e : /\ T!Keys(<<e>>) = IF e.kind \in T!Kinds THEN {e.n} ELSE {}
            /\ T!Gestures(<<e>>) = IF e.kind = T!Scroll THEN {e.n} ELSE {}
<1>1. T!Keys(<<>>) = {} /\ T!Gestures(<<>>) = {}
  BY NumbersOfNone, KeysAndGestures
<1>2. ASSUME NEW e PROVE /\ T!Keys(<<e>>) = IF e.kind \in T!Kinds THEN {e.n} ELSE {}
                         /\ T!Gestures(<<e>>) = IF e.kind = T!Scroll THEN {e.n} ELSE {}
  <2>1. e.kind \in {T!Scroll} <=> e.kind = T!Scroll
    OBVIOUS
  <2>2. /\ Numbers(<<e>>, T!Kinds) = IF e.kind \in T!Kinds THEN {e.n} ELSE {}
        /\ Numbers(<<e>>, {T!Scroll}) = IF e.kind \in {T!Scroll} THEN {e.n} ELSE {}
    BY NumbersOfNone
  <2>3. T!Keys(<<e>>) = Numbers(<<e>>, T!Kinds) /\ T!Gestures(<<e>>) = Numbers(<<e>>, {T!Scroll})
    BY KeysAndGestures
  <2> QED  BY <2>1, <2>2, <2>3
<1> QED  BY <1>1, <1>2

---------------------------------------------------------------------------
(* Where keys go. *)

(* Where keys are, and where none can be. *)
LEMMA WhereKeysAre ==
  ASSUME TerminalTypes
  PROVE  /\ tty.queue \in Seq(Inputs) /\ tty.air \in Seq(Marks)
         /\ channel.events \in Seq(Sendable)
         /\ T!Keys(<<T!Nothing>>) = {} /\ T!Keys(<<T!Error>>) = {} /\ T!Keys(<<>>) = {}
         /\ T!Nothing # T!Error /\ T!Error \notin Inputs
         /\ \A e : e.kind = T!Scroll => T!Keys(<<e>>) = {}
         /\ \A kind \in T!Kinds : \A n : T!Keys(<<T!Event(kind, n)>>) = {n}
<1>1. /\ tty.queue \in Seq(Inputs) /\ tty.air \in Seq(Marks)
      /\ channel.events \in Seq(Sendable)
  BY DEF TerminalTypes, Terminals, Channels
<1>2. T!Scroll \notin T!Kinds /\ "none" \notin T!Kinds /\ "error" \notin T!Kinds
  BY DEF T!Kinds, T!Scroll
<1>3. /\ T!Nothing.kind = "none" /\ T!Error.kind = "error" /\ "error" \notin T!Kinds \cup {T!Scroll}
      /\ \A n, kind : T!Event(kind, n).kind = kind /\ T!Event(kind, n).n = n
  BY DEF T!Nothing, T!Error, T!Event, T!Kinds, T!Scroll
<1>4. \A e \in Inputs : e.kind \in T!Kinds \cup {T!Scroll}
  BY DEF Inputs
<1>5. T!Keys(<<>>) = {} /\ \A e : T!Keys(<<e>>) = IF e.kind \in T!Kinds THEN {e.n} ELSE {}
  BY KeysOfOne
<1>6. T!Nothing # T!Error /\ T!Error \notin Inputs
  BY <1>3, <1>4
<1>7. /\ T!Keys(<<T!Nothing>>) = {} /\ T!Keys(<<T!Error>>) = {}
      /\ \A e : e.kind = T!Scroll => T!Keys(<<e>>) = {}
  BY <1>2, <1>3, <1>5
<1>8. \A kind \in T!Kinds : \A n : T!Keys(<<T!Event(kind, n)>>) = {n}
  <2>1. ASSUME NEW kind \in T!Kinds, NEW n PROVE T!Keys(<<T!Event(kind, n)>>) = {n}
    <3> DEFINE e == T!Event(kind, n)
    <3>1. e.kind \in T!Kinds /\ e.n = n
      BY <1>3
    <3> HIDE DEF e
    <3>2. T!Keys(<<e>>) = {n}
      BY <1>5, <3>1
    <3> QED  BY <3>2 DEF e
  <2> QED  BY <2>1
<1> QED  BY <1>1, <1>5, <1>6, <1>7, <1>8

(* At the start no key has been typed. *)
LEMMA InitKeys == T!Init => KeyInv
<1> SUFFICES ASSUME T!Init PROVE KeyInv
  OBVIOUS
<1> USE InitTypes
<1>1. /\ tty.queue = <<>> /\ reader.hand = T!Nothing /\ channel.events = <<>> /\ uiThread.at = "raw"
      /\ reader.at = "gone"
      /\ seen.theirs = {} /\ seen.handled = {} /\ seen.mine = {}
  BY DEF T!Init, T!Idle
<1>2. Pipe = {} /\ T!Nothing # T!Error
  BY <1>1, WhereKeysAre DEF Pipe
<1> QED
  BY <1>1, <1>2 DEF KeyInv, KeysTyped, HandHeld, PausedIsGone, PauseKnown, EditorsKeys,
                    Listening, ViewsKeys, Away

(* Keys only move on: out of the terminal, to the view, or away with the      *)
(* queue of an editor that is flushed.                                       *)
MoveOn ==
    /\ Pipe' \subseteq Pipe /\ seen'.keys = seen.keys /\ seen'.theirs = seen.theirs
    /\ failures.calls \subseteq failures'.calls /\ (seen.shared => seen'.shared)
    /\ seen'.handled \subseteq seen.handled \cup Pipe
    /\ uiThread.at # "loop" => seen'.handled = seen.handled
    /\ uiThread.at \in {"editor", "flush"} /\ ~seen'.shared /\ "flush" \notin failures'.calls =>
                uiThread'.at \in {"editor", "flush"} \/ Pipe' = {}

(* A step by which keys only move on keeps the keys of an editor away       *)
(* from the view.                                                           *)
LEMMA MovedOn ==
  ASSUME KeysTyped, EditorsKeys, MoveOn
  PROVE  KeysTyped' /\ EditorsKeys'
<1>1. KeysTyped'
  BY DEF KeysTyped, MoveOn
<1>2. ASSUME ~seen'.shared, "flush" \notin failures'.calls
      PROVE  /\ seen'.theirs \cap seen'.handled = {}
             /\ uiThread'.at \notin {"editor", "flush"} => seen'.theirs \cap Pipe' = {}
  <2>1. ~seen.shared /\ "flush" \notin failures.calls
    BY <1>2 DEF MoveOn
  <2>2. /\ seen.theirs \cap seen.handled = {}
        /\ uiThread.at \notin {"editor", "flush"} => seen.theirs \cap Pipe = {}
    BY <2>1 DEF EditorsKeys
  <2>3. seen'.theirs \cap seen'.handled = {}
    <3>1. CASE uiThread.at = "loop"
      BY <2>2, <3>1 DEF MoveOn
    <3>2. CASE uiThread.at # "loop"
      BY <2>2, <3>2 DEF MoveOn
    <3> QED  BY <3>1, <3>2
  <2>4. ASSUME uiThread'.at \notin {"editor", "flush"} PROVE seen'.theirs \cap Pipe' = {}
    <3>1. CASE uiThread.at \in {"editor", "flush"}
      BY <1>2, <2>4, <3>1 DEF MoveOn
    <3>2. CASE uiThread.at \notin {"editor", "flush"}
      BY <2>2, <3>2 DEF MoveOn
    <3> QED  BY <3>1, <3>2
  <2> QED  BY <2>3, <2>4
<1>3. EditorsKeys'
  BY <1>2 DEF EditorsKeys
<1> QED  BY <1>1, <1>3

(* While modes change keys stay where they are, or go with the queue of     *)
(* the editor.                                                              *)
LEMMA FixingKeys ==
  ASSUME TerminalTypes, TerminalTypes', KeyInv, Frame
  PROVE  KeyInv'
<1>1. /\ UNCHANGED <<reader, channel, fence, seen>> /\ tty'.queue \in {tty.queue, <<>>}
      /\ failures.calls \subseteq failures'.calls /\ uiThread'.at \notin {"loop", "stop", "close", "join"}
      /\ uiThread'.at \in Away => uiThread.at \in Away /\ uiThread'.paused = uiThread.paused
  BY DEF Frame
<1>2. Pipe' \subseteq Pipe
  <2>1. T!Keys(tty'.queue) \subseteq T!Keys(tty.queue)
    BY <1>1, WhereKeysAre
  <2> QED  BY <1>1, <2>1 DEF Pipe
<1>3. ASSUME uiThread.at \in {"editor", "flush"}, ~seen'.shared, "flush" \notin failures'.calls,
             uiThread'.at \notin {"editor", "flush"}
      PROVE  Pipe' = {}
  <2>1. ~seen.shared /\ uiThread.at \in Away
    BY <1>1, <1>3 DEF Away
  <2>2. reader.at = "gone" /\ channel.events = <<>>
    BY <2>1 DEF KeyInv, PausedIsGone
  <2>3. reader.hand = T!Nothing
    BY <2>2 DEF KeyInv, HandHeld
  <2>4. tty'.queue = <<>>
    BY <1>3 DEF Frame
  <2> QED  BY <1>1, <2>2, <2>3, <2>4, WhereKeysAre DEF Pipe
<1>4. MoveOn
  BY <1>1, <1>2, <1>3 DEF MoveOn
<1>5. KeysTyped' /\ EditorsKeys'
  BY <1>4, MovedOn DEF KeyInv
<1>6. HandHeld' /\ PausedIsGone' /\ PauseKnown'
  BY <1>1 DEF KeyInv, HandHeld, PausedIsGone, PauseKnown
<1>7. Listening' /\ ViewsKeys'
  BY <1>1 DEF KeyInv, Listening, ViewsKeys, Alive
<1> QED  BY <1>5, <1>6, <1>7 DEF KeyInv

(* A key typed is new to everybody. *)
LEMMA PersonKeys ==
  ASSUME TerminalTypes, TerminalTypes', KeyInv, Person
  PROVE  KeyInv'
<1>1. ASSUME NEW kind \in T!Kinds, T!Type(kind) PROVE KeyInv'
  <2> DEFINE n == seen.keys + 1
             e == T!Event(kind, n)
  <2>1. /\ UNCHANGED <<reader, channel, uiThread, fence, failures>>
        /\ e \in Inputs /\ tty'.queue = Append(tty.queue, e)
        /\ seen'.keys = n /\ seen'.handled = seen.handled /\ seen'.shared = seen.shared
        /\ seen'.mine = (IF uiThread.at = "loop" THEN seen.mine \cup {n} ELSE seen.mine)
        /\ seen'.theirs = (IF uiThread.at = "editor" THEN seen.theirs \cup {n} ELSE seen.theirs)
    BY <1>1, TypeIs
  <2>2. T!Keys(tty'.queue) = T!Keys(tty.queue) \cup {n}
    <3>1. T!Keys(<<e>>) = {n}
      BY WhereKeysAre
    <3>2. tty.queue \in Seq(Inputs)
      BY WhereKeysAre
    <3>3. \A x \in Inputs : T!Keys(Append(tty.queue, x)) = T!Keys(tty.queue) \cup T!Keys(<<x>>)
      BY <3>2, KeysAppend
    <3> HIDE DEF e
    <3> QED  BY <2>1, <3>1, <3>3
  <2>3. Pipe' = Pipe \cup {n}
    BY <2>1, <2>2 DEF Pipe
  <2>4. n \notin 1..seen.keys /\ 1..seen.keys \subseteq 1..n /\ n \in 1..n
    <3>1. seen.keys \in Nat
      BY DEF TerminalTypes, Histories
    <3> QED  BY <3>1
  <2> HIDE DEF n, e
  <2>5. KeysTyped'
    BY <2>1, <2>3, <2>4 DEF KeyInv, KeysTyped
  <2>6. HandHeld' /\ PausedIsGone' /\ PauseKnown' /\ Listening'
    BY <2>1 DEF KeyInv, HandHeld, PausedIsGone, PauseKnown, Listening, Alive
  <2>7. EditorsKeys'
    <3>1. n \notin seen.handled /\ n \notin seen.theirs
      BY <2>4 DEF KeyInv, KeysTyped
    <3> QED  BY <2>1, <2>3, <3>1 DEF KeyInv, EditorsKeys
  <2>8. ViewsKeys'
    BY <2>1, <2>3 DEF KeyInv, ViewsKeys
  <2> QED  BY <2>5, <2>6, <2>7, <2>8 DEF KeyInv
<1>2. ASSUME NEW g \in {seen.gesture, seen.gesture + 1} \ {0}, T!Wheel(g) PROVE KeyInv'
  <2>1. /\ UNCHANGED <<reader, channel, uiThread, fence, failures>> /\ tty'.queue = tty.queue
        /\ seen'.keys = seen.keys /\ seen'.mine = seen.mine /\ seen'.theirs = seen.theirs
        /\ seen'.handled = seen.handled /\ seen'.shared = seen.shared
    BY <1>2, WheelIs
  <2>2. Pipe' = Pipe
    BY <2>1 DEF Pipe
  <2>3. MoveOn
    BY <2>1, <2>2 DEF MoveOn
  <2>4. KeysTyped' /\ EditorsKeys'
    BY <2>3, MovedOn DEF KeyInv
  <2>5. HandHeld' /\ PausedIsGone' /\ PauseKnown' /\ Listening' /\ ViewsKeys'
    BY <2>1, <2>2 DEF KeyInv, HandHeld, PausedIsGone, PauseKnown, Listening, Alive, ViewsKeys
  <2> QED  BY <2>4, <2>5 DEF KeyInv
<1> QED  BY <1>1, <1>2 DEF Person

(* What arrives is no key, and what an editor reads is the editor's. *)
LEMMA TerminalKeys ==
  ASSUME TerminalTypes, TerminalTypes', KeyInv, T!Arrive \/ T!EditorReads
  PROVE  KeyInv'
<1>1. /\ UNCHANGED <<reader, channel, uiThread, fence, seen, failures>>
      /\ T!Arrive => T!Keys(tty'.queue) = T!Keys(tty.queue)
      /\ T!EditorReads => uiThread.at = "editor" /\ T!Keys(tty'.queue) \subseteq T!Keys(tty.queue)
  <2>1. ASSUME T!Arrive PROVE T!Keys(tty'.queue) = T!Keys(tty.queue)
    <3> DEFINE e == Head(tty.air)
    <3>1. e \in Inputs /\ e \in Marks /\ tty'.queue = Append(tty.queue, e)
      BY <2>1, ArriveIs
    <3>2. tty.queue \in Seq(Inputs) /\ T!Keys(<<e>>) = {}
      BY <3>1, WhereKeysAre DEF Marks
    <3> HIDE DEF e
    <3>3. T!Keys(Append(tty.queue, e)) = T!Keys(tty.queue) \cup T!Keys(<<e>>)
      BY <3>1, <3>2, KeysAppend
    <3> QED  BY <3>1, <3>2, <3>3
  <2>2. ASSUME T!EditorReads PROVE uiThread.at = "editor" /\ T!Keys(tty'.queue) \subseteq T!Keys(tty.queue)
    <3>1. tty.queue # <<>> /\ uiThread.at = "editor" /\ tty'.queue = Tail(tty.queue)
      BY <2>2, EditorReadsIs
    <3>2. tty.queue \in Seq(Inputs)
      BY WhereKeysAre
    <3> QED  BY <3>1, <3>2, KeysTail
  <2>3. UNCHANGED <<reader, channel, uiThread, fence, seen, failures>>
    BY ArriveIs, EditorReadsIs
  <2> QED  BY <2>1, <2>2, <2>3
<1>2. Pipe' \subseteq Pipe /\ (T!Arrive => Pipe' = Pipe)
  BY <1>1 DEF Pipe
<1>3. MoveOn
  BY <1>1, <1>2 DEF MoveOn
<1>4. KeysTyped' /\ EditorsKeys'
  BY <1>3, MovedOn DEF KeyInv
<1>5. HandHeld' /\ PausedIsGone' /\ PauseKnown' /\ Listening'
  BY <1>1 DEF KeyInv, HandHeld, PausedIsGone, PauseKnown, Listening, Alive
<1>6. ViewsKeys'
  BY <1>1, <1>2 DEF KeyInv, ViewsKeys
<1> QED  BY <1>4, <1>5, <1>6 DEF KeyInv

(* What a step of the reader does to keys: nothing while it lives.           *)
ReaderMoves ==
    /\ UNCHANGED <<uiThread, fence, seen>> /\ reader.at # "gone" /\ failures.calls \subseteq failures'.calls
    /\ Pipe' \subseteq Pipe
    /\ reader'.at \notin {"read", "send"} => reader'.hand = T!Nothing
    /\ "read" \notin failures'.calls /\ reader.hand # T!Error =>
          /\ reader'.hand # T!Error
          /\ Alive => Alive' /\ Pipe' = Pipe

(* A poll moves a key from the queue to the reader's hand. *)
LEMMA ReaderPollsKeys ==
  ASSUME TerminalTypes, TerminalTypes', KeyInv, T!ReaderPolls
  PROVE  ReaderMoves
<1>1. /\ UNCHANGED <<channel, uiThread, fence, seen>> /\ reader.at = "poll" /\ reader.hand = T!Nothing
      /\ reader'.shutdown = reader.shutdown
  BY ReaderPollsIs DEF KeyInv, HandHeld
<1>2. CASE /\ reader'.at = "drain" /\ reader'.hand = reader.hand /\ tty' = tty /\ failures' = failures
           /\ reader.shutdown \/ channel.closed
  <2>1. Pipe' = Pipe
    BY <1>1, <1>2 DEF Pipe
  <2> QED  BY <1>1, <1>2, <2>1 DEF ReaderMoves, Alive
<1>3. CASE /\ reader'.at = "read" /\ reader'.hand = Head(tty.queue) /\ failures' = failures
           /\ tty.queue # <<>> /\ tty'.queue = Tail(tty.queue) /\ Head(tty.queue) \in Inputs
  <2>1. /\ tty.queue \in Seq(Inputs) /\ T!Keys(<<T!Nothing>>) = {} /\ T!Error \notin Inputs
    BY WhereKeysAre
  <2>2. T!Keys(tty.queue) = T!Keys(<<Head(tty.queue)>>) \cup T!Keys(Tail(tty.queue))
    BY <1>3, <2>1, KeysTail
  <2>3. T!Keys(tty'.queue) \cup T!Keys(<<reader'.hand>>) = T!Keys(tty.queue) \cup T!Keys(<<reader.hand>>)
    BY <1>1, <1>3, <2>1, <2>2
  <2>4. Pipe' = Pipe
    BY <1>1, <2>3 DEF Pipe
  <2>5. reader'.hand # T!Error
    BY <1>3, <2>1
  <2> QED  BY <1>1, <1>3, <2>4, <2>5 DEF ReaderMoves, Alive
<1>4. CASE /\ reader'.at = "read" /\ reader'.hand = T!Error /\ tty' = tty
           /\ failures'.calls = failures.calls \cup {"read"}
  <2>1. T!Keys(<<T!Error>>) = {}
    BY WhereKeysAre
  <2>2. Pipe' \subseteq Pipe
    BY <1>1, <1>4, <2>1 DEF Pipe
  <2> QED  BY <1>1, <1>4, <2>2 DEF ReaderMoves
<1> QED  BY <1>2, <1>3, <1>4, ReaderPollsIs

(* A read drops a key only of a reader that is to stop. *)
LEMMA ReaderReadsKeys ==
  ASSUME TerminalTypes, TerminalTypes', KeyInv, T!ReaderReads
  PROVE  ReaderMoves
<1>1. /\ UNCHANGED <<tty, channel, uiThread, fence, seen, failures>> /\ reader.at = "read"
      /\ reader'.shutdown = reader.shutdown
  BY ReaderReadsIs
<1>2. CASE reader'.at = "drain" /\ reader'.hand = T!Nothing /\ reader.shutdown
  <2>1. T!Keys(<<T!Nothing>>) = {} /\ T!Nothing # T!Error
    BY WhereKeysAre
  <2>2. Pipe' \subseteq Pipe
    BY <1>1, <1>2, <2>1 DEF Pipe
  <2> QED  BY <1>1, <1>2, <2>1, <2>2 DEF ReaderMoves, Alive
<1>3. CASE reader'.at = "send" /\ reader'.hand = reader.hand
  <2>1. Pipe' = Pipe
    BY <1>1, <1>3 DEF Pipe
  <2> QED  BY <1>1, <1>3, <2>1 DEF ReaderMoves, Alive
<1> QED  BY <1>2, <1>3, ReaderReadsIs

(* A send moves a key from the hand to the channel and drops none of a      *)
(* reader that lives.                                                       *)
LEMMA ReaderSendsKeys ==
  ASSUME TerminalTypes, TerminalTypes', KeyInv, T!ReaderSends
  PROVE  ReaderMoves
<1>1. /\ UNCHANGED <<tty, uiThread, fence, seen, failures>> /\ reader.at = "send"
      /\ reader'.shutdown = reader.shutdown /\ reader'.hand = T!Nothing
      /\ channel'.closed = channel.closed
      /\ \/ channel.closed /\ reader'.at = "drain" /\ channel' = channel
         \/ /\ reader'.at = IF reader.hand = T!Error THEN "drain" ELSE "poll"
            /\ reader.hand \in Sendable
            /\ \/ channel'.events = Append(channel.events, reader.hand)
               \/ channel' = channel /\ reader.hand.kind = T!Scroll
  BY ReaderSendsIs
<1>2. /\ T!Keys(<<T!Nothing>>) = {} /\ T!Nothing # T!Error /\ channel.events \in Seq(Sendable)
      /\ reader.hand.kind = T!Scroll => T!Keys(<<reader.hand>>) = {}
  BY WhereKeysAre
<1>3. ASSUME reader.hand \in Sendable, channel'.events = Append(channel.events, reader.hand)
      PROVE  Pipe' = Pipe
  <2>1. T!Keys(channel'.events) = T!Keys(channel.events) \cup T!Keys(<<reader.hand>>)
    BY <1>2, <1>3, KeysAppend
  <2> QED  BY <1>1, <1>2, <2>1 DEF Pipe
<1>4. ASSUME channel' = channel PROVE Pipe' \subseteq Pipe
  BY <1>1, <1>2, <1>4 DEF Pipe
<1>5. ASSUME channel' = channel, reader.hand.kind = T!Scroll PROVE Pipe' = Pipe
  BY <1>1, <1>2, <1>5 DEF Pipe
<1>6. CASE channel.closed /\ reader'.at = "drain" /\ channel' = channel
  BY <1>1, <1>2, <1>4, <1>6 DEF ReaderMoves, Alive
<1>7. CASE /\ reader'.at = IF reader.hand = T!Error THEN "drain" ELSE "poll"
           /\ Pipe' = Pipe
  BY <1>1, <1>2, <1>7 DEF ReaderMoves, Alive
<1> QED  BY <1>1, <1>3, <1>5, <1>6, <1>7

(* A reader that drains does not live. *)
LEMMA ReaderDrainsKeys ==
  ASSUME TerminalTypes, TerminalTypes', KeyInv, T!ReaderDrains
  PROVE  ReaderMoves
<1>1. /\ UNCHANGED <<channel, uiThread, fence, seen, failures>> /\ reader.at = "drain"
      /\ reader'.at = "gone" /\ reader'.hand = reader.hand /\ reader.hand = T!Nothing
      /\ tty'.queue = <<>>
  BY ReaderDrainsIs DEF KeyInv, HandHeld
<1>2. Pipe' \subseteq Pipe
  BY <1>1, WhereKeysAre DEF Pipe
<1> QED  BY <1>1, <1>2 DEF ReaderMoves, Alive

(* No step of the reader loses a key while the view listens. *)
LEMMA ReaderKeys ==
  ASSUME TerminalTypes, TerminalTypes', KeyInv, T!ReaderStep
  PROVE  KeyInv'
<1>1. ReaderMoves
  BY ReaderPollsKeys, ReaderReadsKeys, ReaderSendsKeys, ReaderDrainsKeys DEF T!ReaderStep
<1>2. CASE ~seen.shared /\ uiThread.at \in Away
  BY <1>1, <1>2 DEF KeyInv, PausedIsGone, ReaderMoves
<1>3. CASE ~(~seen.shared /\ uiThread.at \in Away)
  <2>1. MoveOn
    BY <1>1, <1>3 DEF MoveOn, ReaderMoves, Away
  <2>2. KeysTyped' /\ EditorsKeys'
    BY <2>1, MovedOn DEF KeyInv
  <2>3. HandHeld' /\ PausedIsGone' /\ PauseKnown'
    BY <1>1, <1>3 DEF KeyInv, HandHeld, PausedIsGone, PauseKnown, ReaderMoves
  <2>4. Listening'
    BY <1>1 DEF KeyInv, Listening, ReaderMoves
  <2>5. ViewsKeys'
    BY <1>1 DEF KeyInv, Listening, ViewsKeys, ReaderMoves
  <2> QED  BY <2>2, <2>3, <2>4, <2>5 DEF KeyInv
<1> QED  BY <1>2, <1>3

(* A loop that starts finds its keys in the queue alone. *)
LEMMA StartedKeys ==
  ASSUME TerminalTypes, TerminalTypes', KeyInv, T!StartLoop \/ T!Restart
  PROVE  KeyInv'
<1>1. /\ UNCHANGED tty /\ uiThread.at \in {"start", "restart"} /\ failures.calls \subseteq failures'.calls
      /\ seen'.keys = seen.keys /\ seen'.theirs = seen.theirs /\ seen'.handled = seen.handled
      /\ seen'.shared = seen.shared
      /\ Started \/ UNCHANGED <<reader, channel>>
      /\ \/ /\ uiThread'.at = "loop" /\ seen'.mine = {}
            /\ Started \/ (uiThread.at = "restart" /\ ~uiThread.paused /\ UNCHANGED <<reader, channel>>)
         \/ uiThread'.at = "stop" /\ uiThread'.then = "mouse off"
         \/ uiThread'.at = "mouse off"
  BY StartLoopIs, RestartIs
<1>2. Pipe' \subseteq Pipe
  <2>1. CASE Started
    BY <1>1, <2>1, WhereKeysAre DEF Started, Pipe
  <2>2. CASE UNCHANGED <<reader, channel>>
    BY <1>1, <2>2 DEF Pipe
  <2> QED  BY <1>1, <2>1, <2>2
<1>3. MoveOn
  BY <1>1, <1>2 DEF MoveOn
<1>4. KeysTyped' /\ EditorsKeys'
  BY <1>3, MovedOn DEF KeyInv
<1>5. PausedIsGone' /\ PauseKnown' /\ ViewsKeys'
  BY <1>1 DEF PausedIsGone, PauseKnown, ViewsKeys, Away
<1>6. HandHeld'
  BY <1>1 DEF KeyInv, HandHeld, Started
<1>7. Listening'
  <2>1. CASE Started
    BY <2>1, WhereKeysAre DEF Started, Listening, Alive
  <2>2. CASE UNCHANGED <<reader, channel>>
    BY <1>1, <2>2 DEF KeyInv, Listening, Alive, Started, Away
  <2> QED  BY <1>1, <2>1, <2>2
<1> QED  BY <1>4, <1>5, <1>6, <1>7 DEF KeyInv

(* The view handles the key it takes and leaves the keys behind it in the   *)
(* channel.                                                                 *)
LEMMA TakingKeys ==
  ASSUME TerminalTypes, TerminalTypes', KeyInv, T!TakeKey \/ T!TakeWheelAndKey
  PROVE  KeyInv'
<1>1. PICK k \in Nat, f \in Fences : Taking(k, f)
  BY TakingIs
<1> DEFINE s == channel.events
           e == s[k + 1]
<1>2. /\ k \in 0..(Len(s) - 1) /\ \A i \in 1..k : s[i].kind = T!Scroll
      /\ e.kind \in T!Kinds /\ e \in Sendable /\ channel'.closed = channel.closed
      /\ channel'.events = SubSeq(s, k + 2, Len(s)) /\ T!Press(e, f)
  BY <1>1 DEF Taking
<1>3. UNCHANGED <<tty, reader>> /\ uiThread.at = "loop" /\ s \in Seq(Sendable)
  BY TakingIs, WhereKeysAre
<1>4. /\ \/ uiThread' = uiThread
         \/ uiThread'.at = "stop" /\ uiThread'.then = "mouse off"
         \/ uiThread'.at = "stop" /\ uiThread'.then = "suspend mouse" /\ uiThread'.paused
         \/ uiThread'.at = "suspend mouse" /\ ~uiThread'.paused /\ seen'.shared
      /\ failures' = failures \/ failures'.calls = failures.calls \cup {"effect"}
      /\ seen'.handled = seen.handled \cup {e.n} /\ seen'.keys = seen.keys
      /\ seen'.mine = seen.mine /\ seen'.theirs = seen.theirs
      /\ seen.shared => seen'.shared
  <2> HIDE DEF e
  <2> QED  BY <1>2, <1>3, PressIs
<1>5. e.n \in T!Keys(s) /\ T!Keys(channel'.events) \subseteq T!Keys(s)
      /\ T!Keys(s) \subseteq T!Keys(channel'.events) \cup {e.n}
  <2> DEFINE m == k + 1
  <2>1. m \in 0..Len(s) /\ m \in 1..Len(s) /\ m + 1 = k + 2 /\ Len(s) \in Nat
        /\ \A i \in 1..m : i = m \/ i \in 1..k
    BY <1>2, <1>3, SeqFacts
  <2>2. T!Scroll \notin T!Kinds
    BY DEF T!Scroll, T!Kinds
  <2>3. channel'.events = SubSeq(s, m + 1, Len(s)) /\ e = s[m]
    BY <1>2, <2>1
  <2> HIDE DEF m
  <2>4. /\ Numbers(channel'.events, T!Kinds) \subseteq Numbers(s, T!Kinds)
        /\ \A x \in Numbers(s, T!Kinds) :
              \/ x \in Numbers(channel'.events, T!Kinds)
              \/ \E i \in 1..m : s[i].kind \in T!Kinds /\ s[i].n = x
    BY <1>3, <2>1, <2>3, NumbersLater
  <2>5. \A x : x \in Numbers(s, T!Kinds) <=> \E i \in 1..Len(s) : s[i].kind \in T!Kinds /\ s[i].n = x
    BY <1>3, NumbersAre
  <2>6. e.n \in Numbers(s, T!Kinds)
    BY <1>2, <2>1, <2>3, <2>5
  <2>7. \A i \in 1..m : s[i].kind \in T!Kinds => s[i] = e
    BY <1>2, <2>1, <2>2, <2>3
  <2>8. Numbers(s, T!Kinds) \subseteq Numbers(channel'.events, T!Kinds) \cup {e.n}
    BY <2>4, <2>7
  <2> QED  BY <2>4, <2>6, <2>8, KeysAndGestures
<1> HIDE DEF e
<1>6. Pipe' \subseteq Pipe /\ Pipe \subseteq Pipe' \cup {e.n} /\ e.n \in Pipe
  BY <1>3, <1>5 DEF Pipe
<1>7. failures.calls \subseteq failures'.calls /\ ("read" \notin failures'.calls => "read" \notin failures.calls)
  BY <1>4
<1>8. MoveOn
  BY <1>3, <1>4, <1>6, <1>7 DEF MoveOn
<1>9. KeysTyped' /\ EditorsKeys'
  BY <1>8, MovedOn DEF KeyInv
<1>10. HandHeld' /\ PausedIsGone' /\ PauseKnown'
  BY <1>3, <1>4 DEF KeyInv, HandHeld, PausedIsGone, PauseKnown, Away
<1>11. Listening'
  BY <1>2, <1>3, <1>4, <1>7 DEF KeyInv, Listening, Alive, Away
<1>12. ViewsKeys'
  BY <1>3, <1>4, <1>6, <1>7 DEF KeyInv, ViewsKeys
<1> QED  BY <1>9, <1>10, <1>11, <1>12 DEF KeyInv

(* A turn with reports alone or an error takes no key. *)
LEMMA LoopKeys ==
  ASSUME TerminalTypes, TerminalTypes', KeyInv, T!TakeWheel \/ T!TakeError \/ T!EditorQuitKeysCount
  PROVE  KeyInv'
<1>1. /\ UNCHANGED <<tty, reader, failures>> /\ uiThread.at = "loop" /\ channel'.closed = channel.closed
      /\ seen'.keys = seen.keys /\ seen'.mine = seen.mine /\ seen'.theirs = seen.theirs
      /\ seen'.handled = seen.handled /\ seen'.shared = seen.shared
      /\ uiThread'.at = "loop" \/ (uiThread'.at = "stop" /\ uiThread'.then = "mouse off")
  BY TakeWheelIs, TakeErrorIs, EditorQuitKeysCountIs
<1>2. T!Keys(channel'.events) = T!Keys(channel.events)
  <2>1. CASE T!TakeWheel
    <3>1. /\ channel'.events = <<>> /\ \A i \in 1..Len(channel.events) : channel.events[i].kind = T!Scroll
      BY <2>1, TakeWheelIs
    <3>2. channel.events \in Seq(Sendable) /\ T!Keys(<<>>) = {} /\ T!Scroll \notin T!Kinds
      BY WhereKeysAre DEF T!Scroll, T!Kinds
    <3>3. \A x : x \in Numbers(channel.events, T!Kinds) <=>
                    \E i \in 1..Len(channel.events) :
                       channel.events[i].kind \in T!Kinds /\ channel.events[i].n = x
      BY <3>2, NumbersAre
    <3>4. Numbers(channel.events, T!Kinds) = {}
      BY <3>1, <3>2, <3>3
    <3> QED  BY <3>1, <3>2, <3>4, KeysAndGestures
  <2>2. CASE T!TakeError \/ T!EditorQuitKeysCount
    BY <2>2, TakeErrorIs, EditorQuitKeysCountIs
  <2> QED  BY <2>1, <2>2
<1>3. Pipe' = Pipe
  BY <1>1, <1>2 DEF Pipe
<1>4. MoveOn
  BY <1>1, <1>3 DEF MoveOn
<1>5. KeysTyped' /\ EditorsKeys'
  BY <1>4, MovedOn DEF KeyInv
<1>6. HandHeld' /\ PausedIsGone' /\ PauseKnown' /\ Listening' /\ ViewsKeys'
  BY <1>1, <1>3 DEF KeyInv, HandHeld, PausedIsGone, PauseKnown, Listening, Alive, ViewsKeys, Away
<1> QED  BY <1>5, <1>6 DEF KeyInv

(* Whoever pauses the reader for an editor waits until it is gone. *)
LEMMA StoppingKeys ==
  ASSUME TerminalTypes, TerminalTypes', KeyInv, T!SetShutdown \/ T!CloseAndJoin \/ T!Joined
  PROVE  KeyInv'
<1>1. /\ UNCHANGED <<tty, seen, failures>> /\ uiThread.at \in {"stop", "close", "join"}
      /\ reader'.at = reader.at /\ reader'.hand = reader.hand
      /\ channel'.events \in {channel.events, <<>>} /\ uiThread'.paused = uiThread.paused
      /\ \/ uiThread'.at \in {"close", "join"} /\ uiThread'.then = uiThread.then
         \/ /\ uiThread.at = "join" /\ uiThread'.at = uiThread.then /\ uiThread.then \in {"mouse off", "suspend mouse"}
            /\ reader.at = "gone" /\ channel'.events = <<>>
  BY SetShutdownIs, CloseAndJoinIs, JoinedIs
<1>2. Pipe' \subseteq Pipe
  BY <1>1, WhereKeysAre DEF Pipe
<1>3. MoveOn
  BY <1>1, <1>2 DEF MoveOn
<1>4. KeysTyped' /\ EditorsKeys'
  BY <1>3, MovedOn DEF KeyInv
<1>5. HandHeld' /\ PausedIsGone' /\ PauseKnown'
  BY <1>1 DEF KeyInv, HandHeld, PausedIsGone, PauseKnown, Away
<1>6. Listening' /\ ViewsKeys'
  BY <1>1 DEF KeyInv, PauseKnown, Listening, ViewsKeys, Away
<1> QED  BY <1>4, <1>5, <1>6 DEF KeyInv

(* Every step keeps keys where they go. *)
LEMMA StepKeys ==
  ASSUME TerminalTypes, Place, KeyInv, [T!Next]_(T!vars)
  PROVE  KeyInv'
<1>1. TerminalTypes'
  BY StepPlace
<1>2. CASE Fixing
  BY <1>1, <1>2, FixingKeeps, FixingKeys
<1>3. CASE UNCHANGED T!vars
  BY <1>3 DEF T!vars, KeyInv, KeysTyped, HandHeld, PausedIsGone, PauseKnown, EditorsKeys,
              Listening, Alive, ViewsKeys, Pipe
<1> QED
  BY <1>1, <1>2, <1>3, StepIs, PersonKeys, TerminalKeys, ReaderKeys, StartedKeys, TakingKeys,
     LoopKeys, StoppingKeys DEF Moving, Looping, Stopping

(* Keys are always where they go. *)
LEMMA KeysHold == T!Spec => []KeyInv
<1>1. T!Init => KeyInv
  BY InitKeys
<1>2. TerminalTypes /\ Place /\ KeyInv /\ [T!Next]_(T!vars) => KeyInv'
  BY StepKeys
<1> QED  BY <1>1, <1>2, PlaceHolds, PTL DEF T!Spec

(* So they go where they were typed. *)
LEMMA KeysAreWhereTyped == TerminalTypes /\ KeyInv => T!KeysGoWhereTyped
<1> SUFFICES ASSUME TerminalTypes, KeyInv PROVE T!KeysGoWhereTyped
  OBVIOUS
<1>1. ~seen.shared => T!EditorKeepsItsKeys
  BY DEF KeyInv, EditorsKeys, T!EditorKeepsItsKeys
<1>2. uiThread.at = "loop" /\ "read" \notin failures.calls =>
                seen.mine \subseteq seen.handled \cup T!Keys(tty.queue) \cup T!Keys(<<reader.hand>>)
                                     \cup T!Keys(channel.events)
  BY DEF KeyInv, ViewsKeys, Pipe
<1> QED  BY <1>1, <1>2 DEF T!KeysGoWhereTyped

---------------------------------------------------------------------------
(* The order in which the reports of the wheel come to the view. *)

(* The gesture of a report is its number. *)
LEMMA GesturesAre ==
  ASSUME NEW S, NEW s \in Seq(S)
  PROVE  \A x : x \in T!Gestures(s) <=> \E i \in 1..Len(s) : s[i].kind = T!Scroll /\ s[i].n = x
  BY SeqFacts DEF T!Gestures, T!Scrolls

(* Reports in order, by their places. *)
LEMMA OrderedIs ==
  ASSUME NEW S, NEW s \in Seq(S)
  PROVE  Ordered(s) <=> \A i, j \in 1..Len(s) :
            s[i].kind = T!Scroll /\ s[j].kind = T!Scroll /\ i <= j => s[i].n <= s[j].n
<1>1. DOMAIN s = 1..Len(s)
  BY SeqFacts
<1>2. \A i : i \in T!Scrolls(s) <=> i \in 1..Len(s) /\ s[i].kind = T!Scroll
  BY <1>1 DEF T!Scrolls
<1> QED  BY <1>2 DEF Ordered

(* No reports are in order. *)
LEMMA OrderedNone == Ordered(<<>>)
  BY DEF Ordered, T!Scrolls

(* A report no older than those before it keeps the order. *)
LEMMA OrderedAppend ==
  ASSUME NEW S, \A e \in S : e.n \in Nat, NEW s \in Seq(S), NEW e \in S, Ordered(s),
         e.kind = T!Scroll => \A a \in T!Gestures(s) : a <= e.n
  PROVE  Ordered(Append(s, e))
<1> DEFINE t == Append(s, e)
<1>1. /\ t \in Seq(S) /\ Len(t) = Len(s) + 1 /\ Len(s) \in Nat /\ t[Len(s) + 1] = e
      /\ \A i \in 1..Len(s) : t[i] = s[i]
  BY SeqFacts
<1>2. \A i, j \in 1..Len(s) :
         s[i].kind = T!Scroll /\ s[j].kind = T!Scroll /\ i <= j => s[i].n <= s[j].n
  BY OrderedIs
<1>3. \A x : x \in T!Gestures(s) <=> \E i \in 1..Len(s) : s[i].kind = T!Scroll /\ s[i].n = x
  BY GesturesAre
<1> HIDE DEF t
<1>4. ASSUME NEW i \in 1..Len(t), NEW j \in 1..Len(t), t[i].kind = T!Scroll, t[j].kind = T!Scroll,
             i <= j
      PROVE  t[i].n <= t[j].n
  <2>1. CASE j \in 1..Len(s)
    <3>1. i \in 1..Len(s)
      BY <1>1, <1>4, <2>1
    <3> QED  BY <1>1, <1>2, <1>4, <2>1, <3>1
  <2>2. CASE j = Len(s) + 1 /\ i \in 1..Len(s)
    <3>1. s[i].n \in T!Gestures(s) /\ e.kind = T!Scroll
      BY <1>1, <1>3, <1>4, <2>2
    <3> QED  BY <1>1, <2>2, <3>1
  <2>3. CASE j = Len(s) + 1 /\ i = Len(s) + 1
    <3>1. t[i] = e /\ t[j] = e /\ e.n \in Nat
      BY <1>1, <2>3
    <3> QED  BY <3>1
  <2> QED  BY <1>1, <1>4, <2>1, <2>2, <2>3
<1>5. Ordered(t)
  BY <1>1, <1>4, OrderedIs
<1> QED  BY <1>5 DEF t

(* Reports taken from the front are no newer than those that stay. *)
LEMMA OrderedLater ==
  ASSUME NEW S, NEW s \in Seq(S), Ordered(s), NEW k \in 0..Len(s)
  PROVE  /\ Ordered(SubSeq(s, k + 1, Len(s)))
         /\ \A i \in 1..k, a \in T!Gestures(SubSeq(s, k + 1, Len(s))) :
               s[i].kind = T!Scroll => s[i].n <= a
<1> DEFINE t == SubSeq(s, k + 1, Len(s))
<1>1. /\ t \in Seq(S) /\ Len(t) = Len(s) - k /\ Len(s) \in Nat
      /\ \A i \in 1..(Len(s) - k) : t[i] = s[i + k]
  BY SeqFacts
<1>2. \A i, j \in 1..Len(s) :
         s[i].kind = T!Scroll /\ s[j].kind = T!Scroll /\ i <= j => s[i].n <= s[j].n
  BY OrderedIs
<1> HIDE DEF t
<1>3. \A i \in 1..Len(t) : i + k \in 1..Len(s) /\ t[i] = s[i + k]
  BY <1>1
<1>4. ASSUME NEW i \in 1..Len(t), NEW j \in 1..Len(t), t[i].kind = T!Scroll, t[j].kind = T!Scroll,
             i <= j
      PROVE  t[i].n <= t[j].n
  <2>1. i + k <= j + k
    BY <1>4
  <2> QED  BY <1>2, <1>3, <1>4, <2>1
<1>5. Ordered(t)
  BY <1>1, <1>4, OrderedIs
<1>6. ASSUME NEW i \in 1..k, NEW a \in T!Gestures(t), s[i].kind = T!Scroll PROVE s[i].n <= a
  <2>1. PICK j \in 1..Len(t) : t[j].kind = T!Scroll /\ t[j].n = a
    BY <1>1, GesturesAre
  <2>2. i \in 1..Len(s) /\ i <= j + k
    BY <1>1
  <2> QED  BY <1>2, <1>3, <1>6, <2>1, <2>2
<1> QED  BY <1>5, <1>6 DEF t

(* So for the first. *)
LEMMA OrderedTail ==
  ASSUME NEW S, \A e \in S : e.n \in Nat, NEW s \in Seq(S), s # <<>>, Ordered(s)
  PROVE  /\ Ordered(Tail(s))
         /\ Head(s).kind = T!Scroll => \A a \in T!Gestures(s) : Head(s).n <= a
<1> DEFINE t == Tail(s)
<1>1. /\ t \in Seq(S) /\ Len(t) = Len(s) - 1 /\ Len(s) \in Nat /\ Len(s) >= 1 /\ Head(s) = s[1]
      /\ \A i \in 1..(Len(s) - 1) : t[i] = s[i + 1]
  BY SeqFacts
<1>2. \A i, j \in 1..Len(s) :
         s[i].kind = T!Scroll /\ s[j].kind = T!Scroll /\ i <= j => s[i].n <= s[j].n
  BY OrderedIs
<1> HIDE DEF t
<1>3. \A i \in 1..Len(t) : i + 1 \in 1..Len(s) /\ t[i] = s[i + 1]
  BY <1>1
<1>4. ASSUME NEW i \in 1..Len(t), NEW j \in 1..Len(t), t[i].kind = T!Scroll, t[j].kind = T!Scroll,
             i <= j
      PROVE  t[i].n <= t[j].n
  <2>1. i + 1 <= j + 1
    BY <1>4
  <2> QED  BY <1>2, <1>3, <1>4, <2>1
<1>5. Ordered(t)
  BY <1>1, <1>4, OrderedIs
<1>6. ASSUME Head(s).kind = T!Scroll, NEW a \in T!Gestures(s) PROVE Head(s).n <= a
  <2>1. PICK j \in 1..Len(s) : s[j].kind = T!Scroll /\ s[j].n = a
    BY GesturesAre
  <2>2. 1 \in 1..Len(s) /\ 1 <= j
    BY <1>1
  <2> QED  BY <1>1, <1>2, <1>6, <2>1, <2>2
<1> QED  BY <1>5, <1>6 DEF t

(* Where reports are, and where none can be. *)
LEMMA GesturesOf ==
  ASSUME TerminalTypes
  PROVE  /\ tty.queue \in Seq(Inputs) /\ tty.air \in Seq(Marks)
         /\ channel.events \in Seq(Sendable)
         /\ \A e \in Inputs : e.n \in Nat
         /\ \A e \in Marks : e.n \in Nat /\ e.kind = T!Scroll /\ e \in Inputs
         /\ \A e \in Sendable : e.n \in Nat
         /\ T!Gestures(<<>>) = {} /\ T!Gestures(<<T!Nothing>>) = {} /\ T!Gestures(<<T!Error>>) = {}
         /\ \A e : T!Gestures(<<e>>) = IF e.kind = T!Scroll THEN {e.n} ELSE {}
         /\ T!Scroll \notin T!Kinds
<1>1. /\ tty.queue \in Seq(Inputs) /\ tty.air \in Seq(Marks)
      /\ channel.events \in Seq(Sendable)
  BY DEF TerminalTypes, Terminals, Channels
<1>2. /\ \A e \in Inputs : e.n \in Nat
      /\ \A e \in Marks : e.n \in Nat /\ e.kind = T!Scroll /\ e \in Inputs
  BY DEF Inputs, Marks
<1>3. \A e \in Sendable : e.n \in Nat
  BY InputIs
<1>4. T!Nothing.kind # T!Scroll /\ T!Error.kind # T!Scroll /\ T!Scroll \notin T!Kinds
  BY DEF T!Nothing, T!Error, T!Event, T!Scroll, T!Kinds
<1> QED  BY <1>1, <1>2, <1>3, <1>4, KeysOfOne

(* At the start no report is under way. *)
LEMMA InitOrder == T!Init => OrderInv /\ Scrolled
<1> SUFFICES ASSUME T!Init PROVE OrderInv /\ Scrolled
  OBVIOUS
<1>1. /\ tty.queue = <<>> /\ tty.air = <<>> /\ reader.hand = T!Nothing /\ channel.events = <<>>
      /\ seen.layers = {} /\ seen.gesture = 0 /\ fence.last = 0
  BY DEF T!Init, T!Idle
<1>2. TerminalTypes
  BY InitTypes
<1>3. /\ T!Gestures(tty.queue) = {} /\ T!Gestures(tty.air) = {} /\ T!Gestures(<<reader.hand>>) = {}
      /\ T!Gestures(channel.events) = {}
  BY <1>1, <1>2, GesturesOf
<1>4. Ordered(tty.queue) /\ Ordered(tty.air) /\ Ordered(channel.events)
  BY <1>1, OrderedNone
<1> QED  BY <1>1, <1>3, <1>4 DEF OrderInv, Scrolled, Coming, UpTo

(* A step that makes no report come and leaves what came keeps the order.    *)
Steady == seen'.gesture = seen.gesture /\ seen'.layers = seen.layers /\ seen'.late = seen.late
              /\ fence' = fence

(* It keeps it also where some of what came is gone. *)
LEMMA FewerComing ==
  ASSUME OrderInv, Scrolled, Steady,
         Ordered(tty'.air), Ordered(tty'.queue), Ordered(channel'.events),
         T!Gestures(tty'.air) \subseteq T!Gestures(tty.air),
         T!Gestures(tty'.queue) \subseteq T!Gestures(tty.queue),
         T!Gestures(<<reader'.hand>>) \subseteq T!Gestures(<<reader.hand>>),
         T!Gestures(channel'.events) \subseteq T!Gestures(channel.events)
  PROVE  OrderInv' /\ Scrolled'
<1>1. Coming' \subseteq Coming
  BY DEF Coming
<1>2. /\ UpTo(T!Gestures(tty'.queue), T!Gestures(tty'.air))
      /\ UpTo(T!Gestures(<<reader'.hand>>), T!Gestures(tty'.air) \cup T!Gestures(tty'.queue))
      /\ UpTo(T!Gestures(channel'.events),
              T!Gestures(tty'.air) \cup T!Gestures(tty'.queue) \cup T!Gestures(<<reader'.hand>>))
  BY DEF OrderInv, UpTo
<1>3. OrderInv'
  BY <1>1, <1>2 DEF OrderInv, Steady
<1>4. Scrolled'
  BY <1>1 DEF Scrolled, Steady
<1> QED  BY <1>3, <1>4

(* Reports that only move on are as many as before.                          *)
LEMMA SameComing ==
  ASSUME OrderInv, Scrolled, Steady, Coming' = Coming,
         Ordered(tty'.air), Ordered(tty'.queue), Ordered(channel'.events),
         UpTo(T!Gestures(tty'.queue), T!Gestures(tty'.air)),
         UpTo(T!Gestures(<<reader'.hand>>), T!Gestures(tty'.air) \cup T!Gestures(tty'.queue)),
         UpTo(T!Gestures(channel'.events),
              T!Gestures(tty'.air) \cup T!Gestures(tty'.queue) \cup T!Gestures(<<reader'.hand>>))
  PROVE  OrderInv' /\ Scrolled'
<1>1. OrderInv'
  BY DEF OrderInv, Steady
<1>2. Scrolled'
  BY DEF Scrolled, Steady
<1> QED  BY <1>1, <1>2

(* While modes change reports stay where they are or are discarded. *)
LEMMA FixingOrder ==
  ASSUME TerminalTypes, OrderInv, Scrolled, Frame
  PROVE  OrderInv' /\ Scrolled'
<1>1. /\ UNCHANGED <<reader, channel, fence, seen>>
      /\ tty'.queue \in {tty.queue, <<>>} /\ tty'.air \in {tty.air, <<>>}
  BY DEF Frame
<1>2. /\ Ordered(tty'.queue) /\ T!Gestures(tty'.queue) \subseteq T!Gestures(tty.queue)
      /\ Ordered(tty'.air) /\ T!Gestures(tty'.air) \subseteq T!Gestures(tty.air)
  BY <1>1, OrderedNone, GesturesOf DEF OrderInv
<1>3. Ordered(channel'.events) /\ Steady
  BY <1>1 DEF OrderInv, Steady
<1> QED  BY <1>1, <1>2, <1>3, FewerComing

(* A key is no report. *)
LEMMA TypeOrder ==
  ASSUME TerminalTypes, OrderInv, Scrolled, NEW kind \in T!Kinds, T!Type(kind)
  PROVE  OrderInv' /\ Scrolled'
<1> DEFINE e == T!Event(kind, seen.keys + 1)
<1>1. /\ UNCHANGED <<reader, channel, uiThread, fence, failures>> /\ e \in Inputs /\ Steady
      /\ tty'.air = tty.air /\ tty'.queue = Append(tty.queue, e)
  BY TypeIs DEF Steady
<1>2. e.kind # T!Scroll
  BY DEF T!Event, T!Kinds, T!Scroll
<1> HIDE DEF e
<1>3. tty.queue \in Seq(Inputs) /\ (\A x \in Inputs : x.n \in Nat) /\ T!Gestures(<<e>>) = {}
  BY <1>2, GesturesOf
<1>4. T!Gestures(Append(tty.queue, e)) = T!Gestures(tty.queue) \cup T!Gestures(<<e>>)
  BY <1>1, <1>3, KeysAppend
<1>5. Ordered(Append(tty.queue, e))
  BY <1>1, <1>2, <1>3, OrderedAppend DEF OrderInv
<1> QED  BY <1>1, <1>3, <1>4, <1>5, FewerComing DEF OrderInv

(* A new report is no older than any other. *)
LEMMA WheelOrder ==
  ASSUME TerminalTypes, OrderInv, Scrolled, NEW g \in {seen.gesture, seen.gesture + 1} \ {0}, T!Wheel(g)
  PROVE  OrderInv' /\ Scrolled'
<1> DEFINE e == T!Event(T!Scroll, g)
<1>1. /\ UNCHANGED <<reader, channel, uiThread, fence, failures>> /\ e \in Marks
      /\ tty'.queue = tty.queue /\ tty'.air = Append(tty.air, e)
      /\ seen'.gesture = g /\ seen'.layers = seen.layers /\ seen'.late = seen.late
  BY WheelIs
<1>2. e.kind = T!Scroll /\ e.n = g
  BY DEF T!Event
<1>3. /\ seen.gesture \in Nat /\ g \in Nat /\ seen.gesture <= g /\ g # 0 /\ fence.last \in Nat
      /\ g = seen.gesture \/ g = seen.gesture + 1
  <2>1. seen.gesture \in Nat /\ fence.last \in Nat
    BY DEF TerminalTypes, Histories, Fences
  <2> QED  BY <2>1
<1> HIDE DEF e
<1>4. tty.air \in Seq(Marks) /\ (\A x \in Marks : x.n \in Nat) /\ T!Gestures(<<e>>) = {g}
  BY <1>2, GesturesOf
<1>5. T!Gestures(tty'.air) = T!Gestures(tty.air) \cup {g}
  <2>1. T!Gestures(Append(tty.air, e)) = T!Gestures(tty.air) \cup T!Gestures(<<e>>)
    BY <1>1, <1>4, KeysAppend
  <2> QED  BY <1>1, <1>4, <2>1
<1>6. Coming' = Coming \cup {g} /\ \A a \in Coming : a <= g
  <2>1. Coming' = Coming \cup {g}
    BY <1>1, <1>5 DEF Coming
  <2>2. \A a \in Coming : a \in Nat /\ a <= seen.gesture
    BY <1>3 DEF OrderInv
  <2> QED  BY <1>3, <2>1, <2>2
<1>7. Ordered(tty'.air)
  <2>1. \A a \in T!Gestures(tty.air) : a <= e.n
    BY <1>2, <1>6 DEF Coming
  <2>2. Ordered(tty.air)
    BY DEF OrderInv
  <2>3. Ordered(Append(tty.air, e))
    BY <1>1, <1>4, <2>1, <2>2, OrderedAppend
  <2> QED  BY <1>1, <2>3
<1>8. /\ UpTo(T!Gestures(tty'.queue), T!Gestures(tty'.air))
      /\ UpTo(T!Gestures(<<reader'.hand>>), T!Gestures(tty'.air) \cup T!Gestures(tty'.queue))
      /\ UpTo(T!Gestures(channel'.events),
              T!Gestures(tty'.air) \cup T!Gestures(tty'.queue) \cup T!Gestures(<<reader'.hand>>))
  BY <1>1, <1>5, <1>6 DEF OrderInv, UpTo, Coming
<1>9. Coming' \subseteq fence'.last..seen'.gesture /\ fence'.last <= seen'.gesture /\ 0 \notin Coming'
  <2>1. /\ fence.last <= seen.gesture /\ 0 \notin Coming
        /\ \A a \in Coming : a \in Nat /\ fence.last <= a /\ a <= seen.gesture
    BY <1>3 DEF OrderInv
  <2>2. \A a \in Coming \cup {g} : a \in Nat /\ fence.last <= a /\ a <= g
    BY <1>3, <2>1
  <2>3. Coming \cup {g} \subseteq fence.last..g
    <3> DEFINE C == Coming \cup {g}
    <3>1. \A a \in C : a \in Int /\ fence.last <= a /\ a <= g
      BY <2>2
    <3> HIDE DEF C
    <3>2. C \subseteq fence.last..g
      BY <1>3, <3>1
    <3> QED  BY <3>2 DEF C
  <2> QED  BY <1>1, <1>3, <1>6, <2>1, <2>3
<1>10. OrderInv'
  BY <1>1, <1>7, <1>8, <1>9 DEF OrderInv
<1>11. fence'.last \in Coming' \cup {seen'.gesture} => fence.last \in Coming \cup {seen.gesture}
  <2>1. fence.last <= seen.gesture
    BY DEF OrderInv
  <2> QED  BY <1>1, <1>3, <1>6, <2>1
<1>12. Scrolled'
  BY <1>1, <1>11 DEF Scrolled
<1> QED  BY <1>10, <1>12

(* Reports arrive in order. *)
LEMMA ArriveOrder ==
  ASSUME TerminalTypes, OrderInv, Scrolled, T!Arrive
  PROVE  OrderInv' /\ Scrolled'
<1> DEFINE e == Head(tty.air)
<1>1. /\ UNCHANGED <<reader, channel, uiThread, fence, seen, failures>> /\ tty.air # <<>>
      /\ e \in Marks /\ e \in Inputs
      /\ tty'.queue = Append(tty.queue, e) /\ tty'.air = Tail(tty.air)
  BY ArriveIs
<1>2. /\ tty.air \in Seq(Marks) /\ tty.queue \in Seq(Inputs) /\ (\A x \in Marks : x.n \in Nat)
      /\ (\A x \in Inputs : x.n \in Nat) /\ e.kind = T!Scroll /\ T!Gestures(<<e>>) = {e.n}
  <2>1. e.kind = T!Scroll
    BY <1>1, GesturesOf
  <2> QED  BY <2>1, GesturesOf
<1>3. Ordered(tty.air) /\ Ordered(tty.queue)
  BY DEF OrderInv
<1>4. T!Gestures(tty.air) = {e.n} \cup T!Gestures(Tail(tty.air))
  BY <1>1, <1>2, KeysTail
<1>5. Ordered(Tail(tty.air)) /\ \A a \in T!Gestures(tty.air) : e.n <= a
  BY <1>1, <1>2, <1>3, OrderedTail
<1> HIDE DEF e
<1>6. T!Gestures(Append(tty.queue, e)) = T!Gestures(tty.queue) \cup {e.n}
  BY <1>1, <1>2, KeysAppend
<1>7. \A a \in T!Gestures(tty.queue) : a <= e.n
  BY <1>4 DEF OrderInv, UpTo
<1>8. Ordered(Append(tty.queue, e))
  BY <1>1, <1>2, <1>3, <1>7, OrderedAppend
<1>9. Coming' = Coming
  BY <1>1, <1>4, <1>6 DEF Coming
<1>10. UpTo(T!Gestures(tty'.queue), T!Gestures(tty'.air))
  BY <1>1, <1>4, <1>5, <1>6 DEF OrderInv, UpTo
<1>11. T!Gestures(tty'.air) \cup T!Gestures(tty'.queue) = T!Gestures(tty.air) \cup T!Gestures(tty.queue)
  BY <1>1, <1>4, <1>6
<1>12. /\ UpTo(T!Gestures(<<reader'.hand>>), T!Gestures(tty'.air) \cup T!Gestures(tty'.queue))
       /\ UpTo(T!Gestures(channel'.events),
               T!Gestures(tty'.air) \cup T!Gestures(tty'.queue) \cup T!Gestures(<<reader'.hand>>))
  BY <1>1, <1>11 DEF OrderInv
<1> QED
  BY <1>1, <1>3, <1>5, <1>8, <1>9, <1>10, <1>12, SameComing DEF OrderInv, Steady

(* An editor takes the oldest. *)
LEMMA EditorReadsOrder ==
  ASSUME TerminalTypes, OrderInv, Scrolled, T!EditorReads
  PROVE  OrderInv' /\ Scrolled'
<1>1. /\ UNCHANGED <<reader, channel, uiThread, fence, seen, failures>> /\ tty.queue # <<>>
      /\ tty'.air = tty.air /\ tty'.queue = Tail(tty.queue)
  BY EditorReadsIs
<1>2. tty.queue \in Seq(Inputs) /\ (\A x \in Inputs : x.n \in Nat)
  BY GesturesOf
<1>3. Ordered(tty'.queue) /\ T!Gestures(tty'.queue) \subseteq T!Gestures(tty.queue)
  <2>1. Ordered(tty.queue)
    BY DEF OrderInv
  <2>2. Ordered(Tail(tty.queue))
    BY <1>1, <1>2, <2>1, OrderedTail
  <2>3. T!Gestures(tty.queue) = T!Gestures(<<Head(tty.queue)>>) \cup T!Gestures(Tail(tty.queue))
    BY <1>1, <1>2, KeysTail
  <2> QED  BY <1>1, <2>2, <2>3
<1> QED  BY <1>1, <1>3, FewerComing DEF OrderInv, Steady

(* The reader takes the oldest in its hand. *)
LEMMA ReaderPollsOrder ==
  ASSUME TerminalTypes, OrderInv, Scrolled, KeyInv, T!ReaderPolls
  PROVE  OrderInv' /\ Scrolled'
<1>1. /\ UNCHANGED <<channel, uiThread, fence, seen>> /\ tty'.air = tty.air /\ reader.hand = T!Nothing
  BY ReaderPollsIs DEF KeyInv, HandHeld
<1>2. Steady /\ Ordered(tty.air) /\ Ordered(tty.queue) /\ Ordered(channel.events)
  BY <1>1 DEF Steady, OrderInv
<1>3. CASE reader'.hand = reader.hand /\ tty' = tty
  BY <1>1, <1>2, <1>3, FewerComing
<1>4. CASE reader'.hand = T!Error /\ tty' = tty
  <2>1. T!Gestures(<<T!Error>>) = {}
    BY GesturesOf
  <2> QED  BY <1>1, <1>2, <1>4, <2>1, FewerComing
<1>5. CASE /\ reader'.hand = Head(tty.queue) /\ tty.queue # <<>>
           /\ tty'.queue = Tail(tty.queue) /\ Head(tty.queue) \in Inputs
  <2> DEFINE e == Head(tty.queue)
  <2>1. /\ tty.queue \in Seq(Inputs) /\ (\A x \in Inputs : x.n \in Nat)
        /\ T!Gestures(<<T!Nothing>>) = {}
        /\ T!Gestures(<<e>>) = IF e.kind = T!Scroll THEN {e.n} ELSE {}
    BY GesturesOf
  <2>2. T!Gestures(tty.queue) = T!Gestures(<<e>>) \cup T!Gestures(Tail(tty.queue))
    BY <1>5, <2>1, KeysTail
  <2>3. /\ Ordered(Tail(tty.queue))
        /\ e.kind = T!Scroll => \A a \in T!Gestures(tty.queue) : e.n <= a
    BY <1>2, <1>5, <2>1, OrderedTail
  <2> HIDE DEF e
  <2>4. reader'.hand = e
    BY <1>5 DEF e
  <2>5. T!Gestures(tty'.queue) \cup T!Gestures(<<reader'.hand>>)
           = T!Gestures(tty.queue) \cup T!Gestures(<<reader.hand>>)
    BY <1>1, <1>5, <2>1, <2>2, <2>4
  <2>6. Coming' = Coming
    BY <1>1, <2>5 DEF Coming
  <2>7. UpTo(T!Gestures(tty'.queue), T!Gestures(tty'.air))
    BY <1>1, <1>5, <2>2 DEF OrderInv, UpTo
  <2>8. UpTo(T!Gestures(<<reader'.hand>>), T!Gestures(tty'.air) \cup T!Gestures(tty'.queue))
    <3>1. CASE e.kind = T!Scroll
      <4>1. T!Gestures(<<reader'.hand>>) = {e.n} /\ e.n \in T!Gestures(tty.queue)
        BY <2>1, <2>2, <2>4, <3>1
      <4>2. \A a \in T!Gestures(tty.queue) : e.n <= a
        BY <2>3, <3>1
      <4>3. \A a \in T!Gestures(tty.air) : e.n <= a
        BY <4>1 DEF OrderInv, UpTo
      <4> QED  BY <1>1, <1>5, <2>2, <4>1, <4>2, <4>3 DEF UpTo
    <3>2. CASE e.kind # T!Scroll
      BY <2>1, <2>4, <3>2 DEF UpTo
    <3> QED  BY <3>1, <3>2
  <2>9. UpTo(T!Gestures(channel'.events),
             T!Gestures(tty'.air) \cup T!Gestures(tty'.queue) \cup T!Gestures(<<reader'.hand>>))
    <3>1. T!Gestures(tty'.air) \cup T!Gestures(tty'.queue) \cup T!Gestures(<<reader'.hand>>)
            = T!Gestures(tty.air) \cup T!Gestures(tty.queue) \cup T!Gestures(<<reader.hand>>)
      BY <1>1, <2>5
    <3> QED  BY <1>1, <3>1 DEF OrderInv
  <2> QED  BY <1>1, <1>2, <1>5, <2>3, <2>6, <2>7, <2>8, <2>9, SameComing
<1> QED  BY <1>3, <1>4, <1>5, ReaderPollsIs

(* What it sends is no older than what it sent. *)
LEMMA ReaderSendsOrder ==
  ASSUME TerminalTypes, OrderInv, Scrolled, T!ReaderSends
  PROVE  OrderInv' /\ Scrolled'
<1>1. /\ UNCHANGED <<tty, uiThread, fence, seen, failures>> /\ reader'.hand = T!Nothing
      /\ \/ channel' = channel
         \/ /\ reader.hand \in Sendable
            /\ channel'.events = Append(channel.events, reader.hand)
  BY ReaderSendsIs
<1>2. Steady /\ Ordered(tty.air) /\ Ordered(tty.queue) /\ Ordered(channel.events)
  BY <1>1 DEF Steady, OrderInv
<1>3. /\ T!Gestures(<<T!Nothing>>) = {} /\ channel.events \in Seq(Sendable)
      /\ (\A x \in Sendable : x.n \in Nat)
      /\ reader.hand.kind = T!Scroll => reader.hand.n \in T!Gestures(<<reader.hand>>)
  BY GesturesOf
<1>4. CASE channel' = channel
  BY <1>1, <1>2, <1>3, <1>4, FewerComing
<1>5. CASE reader.hand \in Sendable /\ channel'.events = Append(channel.events, reader.hand)
  <2> DEFINE e == reader.hand
  <2>1. T!Gestures(Append(channel.events, e)) = T!Gestures(channel.events) \cup T!Gestures(<<e>>)
    BY <1>3, <1>5, KeysAppend
  <2>2. e.kind = T!Scroll => \A a \in T!Gestures(channel.events) : a <= e.n
    BY <1>3 DEF OrderInv, UpTo
  <2>3. Ordered(Append(channel.events, e))
    BY <1>2, <1>3, <1>5, <2>2, OrderedAppend
  <2>4. Coming' = Coming
    BY <1>1, <1>3, <1>5, <2>1 DEF Coming
  <2>5. UpTo(T!Gestures(channel'.events),
             T!Gestures(tty'.air) \cup T!Gestures(tty'.queue) \cup T!Gestures(<<reader'.hand>>))
    BY <1>1, <1>3, <1>5, <2>1 DEF OrderInv, UpTo
  <2>6. UpTo(T!Gestures(<<reader'.hand>>), T!Gestures(tty'.air) \cup T!Gestures(tty'.queue))
    BY <1>1, <1>3 DEF UpTo
  <2>7. UpTo(T!Gestures(tty'.queue), T!Gestures(tty'.air))
    BY <1>1 DEF OrderInv
  <2> HIDE DEF e
  <2>8. Ordered(channel'.events) /\ Ordered(tty'.air) /\ Ordered(tty'.queue)
    BY <1>1, <1>2, <1>5, <2>3 DEF e
  <2> QED  BY <1>2, <2>4, <2>5, <2>6, <2>7, <2>8, SameComing
<1> QED  BY <1>1, <1>4, <1>5

(* Every step of the reader keeps the order. *)
LEMMA ReaderOrder ==
  ASSUME TerminalTypes, OrderInv, Scrolled, KeyInv, T!ReaderStep
  PROVE  OrderInv' /\ Scrolled'
<1>1. CASE T!ReaderReads \/ T!ReaderDrains
  <2>1. /\ UNCHANGED <<channel, fence, seen>> /\ tty'.air = tty.air
        /\ tty'.queue \in {tty.queue, <<>>} /\ reader'.hand \in {reader.hand, T!Nothing}
    BY <1>1, ReaderReadsIs, ReaderDrainsIs
  <2>2. /\ T!Gestures(<<>>) = {} /\ T!Gestures(<<T!Nothing>>) = {} /\ Ordered(<<>>) /\ Ordered(tty.air)
        /\ Ordered(tty.queue) /\ Ordered(channel.events)
    BY GesturesOf, OrderedNone DEF OrderInv
  <2>3. T!Gestures(<<reader'.hand>>) \subseteq T!Gestures(<<reader.hand>>)
    BY <2>1, <2>2
  <2>4. Ordered(tty'.queue) /\ T!Gestures(tty'.queue) \subseteq T!Gestures(tty.queue)
    BY <2>1, <2>2
  <2> QED  BY <2>1, <2>2, <2>3, <2>4, FewerComing DEF Steady
<1> QED  BY <1>1, ReaderPollsOrder, ReaderSendsOrder DEF T!ReaderStep

(* So do the steps that start the reader again or stop it.                   *)
LEMMA ListeningOrder ==
  ASSUME TerminalTypes, OrderInv, Scrolled,
         T!StartLoop \/ T!Restart \/ T!TakeError \/ T!EditorQuitKeysCount \/ T!SetShutdown
            \/ T!CloseAndJoin \/ T!Joined
  PROVE  OrderInv' /\ Scrolled'
<1>1. /\ UNCHANGED <<tty, fence>> /\ seen'.gesture = seen.gesture /\ seen'.layers = seen.layers
      /\ seen'.late = seen.late /\ reader'.hand \in {reader.hand, T!Nothing}
      /\ channel'.events \in {channel.events, <<>>}
  <2>1. CASE T!StartLoop \/ T!Restart
    BY <2>1, StartLoopIs, RestartIs DEF Started
  <2>2. CASE T!TakeError \/ T!EditorQuitKeysCount
    BY <2>2, TakeErrorIs, EditorQuitKeysCountIs
  <2>3. CASE T!SetShutdown \/ T!CloseAndJoin \/ T!Joined
    BY <2>3, SetShutdownIs, CloseAndJoinIs, JoinedIs
  <2> QED  BY <2>1, <2>2, <2>3
<1>2. /\ T!Gestures(<<>>) = {} /\ T!Gestures(<<T!Nothing>>) = {} /\ Ordered(<<>>) /\ Ordered(tty.air)
      /\ Ordered(tty.queue) /\ Ordered(channel.events)
  BY GesturesOf, OrderedNone DEF OrderInv
<1>3. T!Gestures(<<reader'.hand>>) \subseteq T!Gestures(<<reader.hand>>)
  BY <1>1, <1>2
<1>4. Ordered(channel'.events) /\ T!Gestures(channel'.events) \subseteq T!Gestures(channel.events)
  BY <1>1, <1>2
<1> QED  BY <1>1, <1>2, <1>3, <1>4, FewerComing DEF Steady

(* What the view takes leaves the rest to come, none of it older.            *)
LEMMA RestComing ==
  ASSUME TerminalTypes, OrderInv, UNCHANGED <<tty, reader>>, NEW last \in Coming,
         Ordered(channel'.events), T!Gestures(channel'.events) \subseteq T!Gestures(channel.events),
         \A a \in T!Gestures(channel'.events) : last <= a,
         last \in T!Gestures(channel.events)
  PROVE  /\ Coming' \subseteq Coming /\ Coming' \subseteq last..seen.gesture
         /\ fence.last <= last /\ last <= seen.gesture /\ last \in Nat /\ last # 0
         /\ UpTo(T!Gestures(channel'.events),
                 T!Gestures(tty'.air) \cup T!Gestures(tty'.queue) \cup T!Gestures(<<reader'.hand>>))
<1>1. fence.last \in Nat /\ seen.gesture \in Nat
  BY DEF TerminalTypes, Fences, Histories
<1>2. \A a \in Coming : a \in Nat /\ fence.last <= a /\ a <= seen.gesture /\ a # 0
  BY <1>1 DEF OrderInv
<1>3. Coming' \subseteq Coming
  BY DEF Coming
<1>4. \A a \in Coming' : last <= a
  <2>1. \A a \in T!Gestures(tty.air) \cup T!Gestures(tty.queue) \cup T!Gestures(<<reader.hand>>) : last <= a
    BY DEF OrderInv, UpTo
  <2> QED  BY <2>1 DEF Coming
<1>5. Coming' \subseteq last..seen.gesture
  BY <1>1, <1>2, <1>3, <1>4
<1>6. UpTo(T!Gestures(channel'.events),
           T!Gestures(tty'.air) \cup T!Gestures(tty'.queue) \cup T!Gestures(<<reader'.hand>>))
  BY DEF OrderInv, UpTo
<1> QED  BY <1>2, <1>3, <1>5, <1>6

(* A key that changes the layer under a gesture puts the fence up, or the   *)
(* view came to it late.                                                    *)
LEMMA TakingOrder ==
  ASSUME TerminalTypes, OrderInv, Scrolled, T!TakeKey \/ T!TakeWheelAndKey
  PROVE  OrderInv' /\ Scrolled'
<1>1. PICK k \in Nat, f \in Fences : Taking(k, f)
  BY TakingIs
<1> DEFINE s == channel.events
           e == s[k + 1]
           m == k + 1
<1>2. /\ k \in 0..(Len(s) - 1) /\ \A i \in 1..k : s[i].kind = T!Scroll
      /\ e.kind \in T!Kinds /\ e \in Sendable
      /\ channel'.events = SubSeq(s, k + 2, Len(s)) /\ T!Press(e, f)
      /\ f = fence \/ (k > 0 /\ f = [fence EXCEPT !.last = s[k].n])
  BY <1>1 DEF Taking
<1>3. UNCHANGED <<tty, reader>> /\ uiThread.at = "loop" /\ s \in Seq(Sendable)
  BY TakingIs, GesturesOf
<1>4. /\ seen'.gesture = seen.gesture /\ seen'.layers = seen.layers /\ fence'.last = f.last
      /\ \/ fence' = f /\ seen'.late = seen.late
         \/ /\ fence'.layer # f.layer /\ (seen.late => seen'.late)
            /\ fence'.fenced \/ ~T!UnderWay(f.last) \/ seen'.late
      /\ seen' \in Histories
  <2> HIDE DEF e
  <2> QED  BY <1>2, <1>3, PressIs
<1>5. /\ Ordered(channel'.events) /\ T!Gestures(channel'.events) \subseteq T!Gestures(s)
      /\ \A i \in 1..k, a \in T!Gestures(channel'.events) : s[i].n <= a
      /\ k > 0 => s[k].n \in T!Gestures(s)
  <2>1. m \in 0..Len(s) /\ m + 1 = k + 2 /\ 1..k \subseteq 1..m /\ (k > 0 => k \in 1..Len(s))
    <3>1. Len(s) \in Nat
      BY <1>3, SeqFacts
    <3>2. k \in Nat /\ k <= Len(s) - 1
      BY <1>2, <3>1
    <3> HIDE DEF s
    <3> QED  BY <3>1, <3>2
  <2>2. channel'.events = SubSeq(s, m + 1, Len(s)) /\ Ordered(s)
    BY <1>2, <2>1 DEF OrderInv
  <2> HIDE DEF m
  <2>3. Numbers(channel'.events, {T!Scroll}) \subseteq Numbers(s, {T!Scroll})
    BY <1>3, <2>1, <2>2, NumbersLater
  <2>4. /\ Ordered(channel'.events)
        /\ \A i \in 1..m, a \in T!Gestures(channel'.events) : s[i].kind = T!Scroll => s[i].n <= a
    BY <1>3, <2>1, <2>2, OrderedLater
  <2>5. k > 0 => s[k].n \in T!Gestures(s)
    <3>1. \A x : x \in T!Gestures(s) <=> \E i \in 1..Len(s) : s[i].kind = T!Scroll /\ s[i].n = x
      BY <1>3, GesturesAre
    <3>2. k > 0 => s[k].kind = T!Scroll /\ k \in 1..Len(s)
      <4>1. k > 0 => k \in 1..k
        BY <1>2
      <4> QED  BY <1>2, <2>1, <4>1
    <3> QED  BY <3>1, <3>2
  <2> QED  BY <1>2, <2>1, <2>3, <2>4, <2>5, KeysAndGestures
<1>6. /\ f.layer = fence.layer /\ f.fenced = fence.fenced
      /\ f = fence \/ (k > 0 /\ f.last = s[k].n)
  BY <1>2 DEF TerminalTypes, Fences
<1>7. Coming' \subseteq Coming
  BY <1>3, <1>5 DEF Coming
<1>8. /\ fence.last <= f.last /\ f.last \in Nat /\ f.last <= seen.gesture
      /\ f.last = fence.last \/ f.last \in Coming
      /\ Coming' \subseteq f.last..seen.gesture
      /\ UpTo(T!Gestures(channel'.events),
              T!Gestures(tty'.air) \cup T!Gestures(tty'.queue) \cup T!Gestures(<<reader'.hand>>))
  <2>1. CASE f = fence
    <3>1. UpTo(T!Gestures(channel'.events),
               T!Gestures(tty'.air) \cup T!Gestures(tty'.queue) \cup T!Gestures(<<reader'.hand>>))
      BY <1>3, <1>5 DEF OrderInv, UpTo
    <3>0. fence.last \in Nat
      BY DEF TerminalTypes, Fences
    <3>2. fence.last <= fence.last
      BY <3>0
    <3>3. Coming \subseteq fence.last..seen.gesture /\ fence.last <= seen.gesture
      BY DEF OrderInv
    <3> QED  BY <1>7, <2>1, <3>0, <3>1, <3>2, <3>3
  <2>2. CASE k > 0 /\ f.last = s[k].n
    <3> DEFINE last == s[k].n
    <3>1. last \in T!Gestures(s) /\ last \in Coming
      BY <1>5, <2>2 DEF Coming
    <3>2. \A a \in T!Gestures(channel'.events) : last <= a
      BY <1>2, <1>5, <2>2
    <3> HIDE DEF last
    <3>3. /\ Coming' \subseteq last..seen.gesture
          /\ fence.last <= last /\ last <= seen.gesture /\ last \in Nat
          /\ UpTo(T!Gestures(channel'.events),
                  T!Gestures(tty'.air) \cup T!Gestures(tty'.queue) \cup T!Gestures(<<reader'.hand>>))
      BY <1>3, <1>5, <3>1, <3>2, RestComing
    <3>4. f.last = last
      BY <2>2 DEF last
    <3> QED  BY <3>1, <3>3, <3>4
  <2> QED  BY <1>6, <2>1, <2>2
<1> HIDE DEF e, m
<1>9. \A a \in seen.layers : a[1] \in 1..fence.last
  BY DEF OrderInv
<1>10. fence.last \in Nat
  BY DEF TerminalTypes, Fences
<1>11. OrderInv'
  <2>1. \A a \in seen'.layers : a[1] \in 1..fence'.last
    BY <1>4, <1>8, <1>9, <1>10
  <2>2. Ordered(tty'.air) /\ Ordered(tty'.queue) /\ 0 \notin Coming'
    BY <1>3, <1>7 DEF OrderInv
  <2>3. /\ UpTo(T!Gestures(tty'.queue), T!Gestures(tty'.air))
        /\ UpTo(T!Gestures(<<reader'.hand>>), T!Gestures(tty'.air) \cup T!Gestures(tty'.queue))
    BY <1>3 DEF OrderInv
  <2> QED  BY <1>4, <1>5, <1>8, <2>1, <2>2, <2>3 DEF OrderInv
<1>12. Scrolled'
  <2> SUFFICES ASSUME ~seen'.late
               PROVE  /\ \A a, b \in seen'.layers : a[1] = b[1] => a[2] = b[2]
                      /\ (fence'.last \in Coming' \cup {seen'.gesture}) =>
                            \A a \in seen'.layers :
                               a[1] = fence'.last => (a[2] = fence'.layer \/ fence'.fenced)
    BY DEF Scrolled
  <2>0. ~seen'.late
    OBVIOUS
  <2>1. ~seen.late
    <3>1. CASE seen'.late = seen.late
      BY <2>0, <3>1, Zenon
    <3>2. CASE seen.late => seen'.late
      BY <2>0, <3>2, Zenon
    <3> QED  BY <1>4, <3>1, <3>2
  <2>2. \A a, b \in seen'.layers : a[1] = b[1] => a[2] = b[2]
    BY <1>4, <2>1 DEF Scrolled
  <2>3. ASSUME fence'.last \in Coming' \cup {seen'.gesture},
               NEW a \in seen'.layers, a[1] = fence'.last
        PROVE  a[2] = fence'.layer \/ fence'.fenced
    <3>1. a \in seen.layers /\ a[1] = f.last /\ f.last = fence.last /\ f.last # 0
      BY <1>4, <1>8, <1>9, <1>10, <2>3
    <3>2. fence.last \in Coming \cup {seen.gesture}
      BY <1>4, <1>7, <2>3, <3>1
    <3>3. a[2] = fence.layer \/ fence.fenced
      BY <2>1, <3>1, <3>2 DEF Scrolled
    <3>4. T!UnderWay(f.last)
      BY <1>3, <1>4, <2>3, <3>1 DEF T!UnderWay, Coming
    <3> QED  BY <1>4, <1>6, <2>3, <3>3, <3>4
  <2> QED  BY <2>2, <2>3
<1> QED  BY <1>11, <1>12

(* Reports scroll the layer their gesture scrolled before, or the fence     *)
(* holds them back, or the view came to them late.                          *)
LEMMA TakeWheelOrder ==
  ASSUME TerminalTypes, OrderInv, Scrolled, T!TakeWheel
  PROVE  OrderInv' /\ Scrolled'
<1> DEFINE s == channel.events
           last == s[Len(s)].n
<1>1. /\ UNCHANGED <<tty, reader>> /\ s # <<>> /\ channel'.events = <<>>
      /\ \A i \in 1..Len(s) : s[i].kind = T!Scroll
      /\ fence'.layer = fence.layer /\ fence'.last = last /\ seen'.gesture = seen.gesture
      /\ \/ seen'.layers = seen.layers /\ seen'.late = seen.late /\ fence'.fenced
         \/ /\ seen'.layers = seen.layers \cup {<<g, fence.layer>> : g \in T!Gestures(s)}
            /\ ~seen'.late => ~seen.late
            /\ ~seen'.late => ~(fence.fenced /\ fence.last \in T!Gestures(s))
  BY TakeWheelIs
<1>2. s \in Seq(Sendable) /\ T!Gestures(<<>>) = {} /\ Ordered(<<>>)
  BY GesturesOf, OrderedNone
<1>3. Len(s) \in Nat /\ Len(s) >= 1 /\ Len(s) \in 1..Len(s)
  BY <1>1, <1>2, SeqFacts
<1>4. last \in T!Gestures(s) /\ \A a \in T!Gestures(s) : a <= last
  <2>1. \A x : x \in T!Gestures(s) <=> \E i \in 1..Len(s) : s[i].kind = T!Scroll /\ s[i].n = x
    BY <1>2, GesturesAre
  <2>2. \A i, j \in 1..Len(s) :
           s[i].kind = T!Scroll /\ s[j].kind = T!Scroll /\ i <= j => s[i].n <= s[j].n
    BY <1>2, OrderedIs DEF OrderInv
  <2>3. \A i \in 1..Len(s) : i <= Len(s)
    BY <1>3
  <2> QED  BY <1>1, <1>3, <2>1, <2>2, <2>3
<1> HIDE DEF last
<1>5. last \in Coming
  BY <1>4 DEF Coming
<1>6. Ordered(channel'.events) /\ T!Gestures(channel'.events) = {}
  BY <1>1, <1>2
<1>7. /\ Coming' \subseteq last..seen.gesture /\ Coming' \subseteq Coming
      /\ fence.last <= last /\ last <= seen.gesture /\ last \in Nat /\ last # 0
      /\ UpTo(T!Gestures(channel'.events),
              T!Gestures(tty'.air) \cup T!Gestures(tty'.queue) \cup T!Gestures(<<reader'.hand>>))
  BY <1>1, <1>4, <1>5, <1>6, RestComing
<1>8. fence.last \in Nat /\ \A a \in seen.layers : a[1] \in 1..fence.last
  BY DEF TerminalTypes, Fences, OrderInv
<1>9. \A g \in T!Gestures(s) : g \in 1..last /\ fence.last <= g /\ g \in Coming
  <2>1. \A g \in T!Gestures(s) : g \in Coming
    BY DEF Coming
  <2>2. \A g \in Coming : g \in Nat /\ fence.last <= g /\ g # 0
    <3>1. seen.gesture \in Nat
      BY DEF TerminalTypes, Histories
    <3> QED  BY <1>8, <3>1 DEF OrderInv
  <2>3. ASSUME NEW g \in T!Gestures(s) PROVE g \in 1..last /\ fence.last <= g /\ g \in Coming
    <3>1. g \in Nat /\ fence.last <= g /\ g # 0 /\ g <= last /\ g \in Coming
      BY <1>4, <2>1, <2>2
    <3> QED  BY <1>7, <3>1
  <2> QED  BY <2>3
<1>10. \A a \in seen'.layers :
          a \in seen.layers \/ \E g \in T!Gestures(s) : a[1] = g /\ a[2] = fence.layer
  BY <1>1
<1>11. OrderInv'
  <2>1. \A a \in seen'.layers : a[1] \in 1..fence'.last
    <3>1. \A a \in seen.layers : a[1] \in 1..last
      BY <1>7, <1>8
    <3>2. \A a \in seen'.layers : a[1] \in 1..last
      BY <1>9, <1>10, <3>1
    <3> QED  BY <1>1, <3>2
  <2>2. Ordered(tty'.air) /\ Ordered(tty'.queue) /\ 0 \notin Coming'
    BY <1>1, <1>7 DEF OrderInv
  <2>3. /\ UpTo(T!Gestures(tty'.queue), T!Gestures(tty'.air))
        /\ UpTo(T!Gestures(<<reader'.hand>>), T!Gestures(tty'.air) \cup T!Gestures(tty'.queue))
    BY <1>1 DEF OrderInv
  <2> QED  BY <1>1, <1>6, <1>7, <2>1, <2>2, <2>3 DEF OrderInv
<1>12. CASE seen'.layers = seen.layers /\ seen'.late = seen.late /\ fence'.fenced
  <2>1. Scrolled'
    BY <1>12 DEF Scrolled
  <2> QED  BY <1>11, <2>1
<1>13. CASE /\ seen'.layers = seen.layers \cup {<<g, fence.layer>> : g \in T!Gestures(s)}
            /\ ~seen'.late => ~seen.late
            /\ ~seen'.late => ~(fence.fenced /\ fence.last \in T!Gestures(s))
  <2>1. ASSUME ~seen'.late, NEW a \in seen.layers, a[1] \in T!Gestures(s)
        PROVE  a[2] = fence.layer
    <3>1. a[1] = fence.last /\ a[1] \in Coming
      BY <1>8, <1>9, <2>1
    <3>2. ~seen.late /\ ~fence.fenced
      BY <1>13, <2>1, <3>1
    <3> QED  BY <3>1, <3>2 DEF Scrolled
  <2>2. ASSUME ~seen'.late, NEW a \in seen'.layers, NEW b \in seen'.layers, a[1] = b[1]
        PROVE  a[2] = b[2]
    <3>1. CASE a \in seen.layers /\ b \in seen.layers
      BY <1>13, <2>2, <3>1 DEF Scrolled
    <3>2. CASE a \notin seen.layers \/ b \notin seen.layers
      <4>1. a[1] \in T!Gestures(s) /\ b[1] \in T!Gestures(s)
        BY <1>10, <2>2, <3>2
      <4> QED  BY <1>10, <2>1, <2>2, <4>1
    <3> QED  BY <3>1, <3>2
  <2>3. ASSUME ~seen'.late, NEW a \in seen'.layers, a[1] = fence'.last
        PROVE  a[2] = fence'.layer
    <3>1. a[1] \in T!Gestures(s)
      BY <1>1, <1>4, <2>3
    <3> QED  BY <1>1, <1>10, <2>1, <2>3, <3>1
  <2>4. Scrolled'
    BY <2>2, <2>3 DEF Scrolled
  <2> QED  BY <1>11, <2>4
<1> QED  BY <1>1, <1>12, <1>13

(* Every step keeps the order and the layers. *)
LEMMA StepOrder ==
  ASSUME TerminalTypes, Place, KeyInv, OrderInv, Scrolled, [T!Next]_(T!vars)
  PROVE  OrderInv' /\ Scrolled'
<1>1. CASE Fixing
  BY <1>1, FixingKeeps, FixingOrder
<1>2. CASE UNCHANGED T!vars
  BY <1>2, FewerComing DEF T!vars, Steady, OrderInv
<1>3. CASE Person
  BY <1>3, TypeOrder, WheelOrder DEF Person
<1>4. CASE Moving
  BY <1>4, ArriveOrder, EditorReadsOrder, ReaderOrder DEF Moving
<1>5. CASE Looping \/ Stopping
  BY <1>5, ListeningOrder, TakingOrder, TakeWheelOrder DEF Looping, Stopping
<1> QED  BY <1>1, <1>2, <1>3, <1>4, <1>5, StepIs

(* Input reaches the editor, the view or the layer it was meant for.          *)
THEOREM InputIsWhereMeant == T!Spec => []InputGoesWhereMeant
<1>1. T!Init => OrderInv /\ Scrolled
  BY InitOrder
<1>2. TerminalTypes /\ Place /\ KeyInv /\ OrderInv /\ Scrolled /\ [T!Next]_(T!vars) => OrderInv' /\ Scrolled'
  BY StepOrder
<1>3. TerminalTypes /\ KeyInv /\ Scrolled => InputGoesWhereMeant
  BY KeysAreWhereTyped DEF InputGoesWhereMeant, T!InputGoesWhereMeant, Scrolled, T!GestureStaysInLayer
<1> QED  BY <1>1, <1>2, <1>3, PlaceHolds, KeysHold, PTL DEF T!Spec
=============================================================================
