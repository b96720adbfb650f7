----------------------------- MODULE ViewSyncProofs -----------------------------
(***************************************************************************)
(* No text of another's is overwritten unseen but by a draft beneath which *)
(* a save had merged something, however many lines, texts, readers'        *)
(* events, remote calls and failed calls there are, and whenever frames    *)
(* are drawn over an open draft.  First sequences and numbers; then        *)
(* the invariant; then what the helpers of a merge and of a call give back *)
(* (Apply, Adopt, Merged, Met, Import); then one lemma for each action of  *)
(* Next; and last the two theorems.                                        *)
(***************************************************************************)
EXTENDS ViewSync, FiniteSetTheorems, WellFoundedInduction, TLAPS

(* What a sequence holds. *)
LEMMA ToSetOfMore ==
  ASSUME NEW C, NEW s \in Seq(C), NEW c \in C
  PROVE  /\ Append(s, c) \in Seq(C) /\ Len(Append(s, c)) = Len(s) + 1
         /\ ToSet(Append(s, c)) = ToSet(s) \cup {c}
<1>1. Len(s) \in Nat /\ DOMAIN s = 1..Len(s)
  OBVIOUS
<1> DEFINE t == Append(s, c)
<1>2. t \in Seq(C) /\ Len(t) = Len(s) + 1 /\ DOMAIN t = 1..(Len(s) + 1)
  OBVIOUS
<1>3. t[Len(s) + 1] = c /\ \A i \in 1..Len(s) : t[i] = s[i]
  OBVIOUS
<1> HIDE DEF t
<1>4. {t[i] : i \in 1..(Len(s) + 1)} = {s[i] : i \in 1..Len(s)} \cup {c}
  BY <1>1, <1>3
<1> QED  BY <1>1, <1>2, <1>4 DEF ToSet, t


(* ------------------------------ numbers --------------------------------- *)
(* A set of numbers has a least one. *)
LEMMA LeastNumber ==
  ASSUME NEW S \in SUBSET Nat, S # {}
  PROVE  \E k \in S : \A j \in S : k <= j
<1> DEFINE R == OpToRel(<, Nat)
<1>1. IsWellFoundedOn(R, Nat)
  BY NatLessThanWellFounded
<1>2. \A j, k \in Nat : j < k => <<j, k>> \in R
  BY SMT DEF OpToRel
<1> HIDE DEF R
<1>3. PICK k \in S : \A j \in S : ~(<<j, k>> \in R)
  BY <1>1, WFMin
<1>4. ASSUME NEW j \in S
      PROVE  k <= j
  <2>1. k \in Nat /\ j \in Nat
    OBVIOUS
  <2>2. ~(j < k)
    BY <1>2, <1>3, <2>1, Zenon
  <2> QED  BY <2>1, <2>2
<1> QED  BY <1>4

(* A set of numbers with a bound has a greatest one. *)
LEMMA GreatestNumber ==
  ASSUME NEW S \in SUBSET Nat, S # {}, NEW b \in Nat, \A k \in S : k <= b
  PROVE  \E k \in S : \A j \in S : j <= k
<1> DEFINE B == {n \in Nat : \A k \in S : k <= n}
<1>1. PICK n \in B : \A j \in B : n <= j
  <2>1. B \in SUBSET Nat /\ B # {}
    OBVIOUS
  <2> HIDE DEF B
  <2> QED  BY <2>1, LeastNumber
<1>2. n \in Nat /\ \A k \in S : k \in Nat /\ k <= n
  BY <1>1
<1>3. ASSUME n \notin S PROVE FALSE
  <2>1. \A k \in S : k <= n - 1
    BY <1>2, <1>3
  <2>2. n - 1 \in Nat
    <3>1. PICK k \in S : k \in Nat /\ k <= n - 1
      BY <1>2, <2>1
    <3> QED  BY <1>2, <3>1
  <2>3. n - 1 \in B
    BY <2>1, <2>2
  <2>4. n <= n - 1
    BY <1>1, <2>3
  <2> QED  BY <1>2, <2>4
<1> QED  BY <1>2, <1>3

(* The last of some positions is one of them. *)
LEMMA LastPosition ==
  ASSUME NEW n \in Nat, NEW P \in SUBSET (1..n), P # {}
  PROVE  Max(P) \in P
<1>1. PICK k \in P : \A j \in P : j <= k
  <2>1. P \in SUBSET Nat /\ \A k \in P : k <= n
    OBVIOUS
  <2> QED  BY <2>1, GreatestNumber
<1>2. \A j \in P : k >= j
  BY <1>1
<1> QED  BY <1>1, <1>2 DEF Max

(* -------------------------- comments that are kept ---------------------- *)
Kept(s, S, f, n) ==
    /\ f[0] = <<>>
    /\ \A k \in 1..n : f[k] = IF s[k] \in S THEN Append(f[k - 1], s[k]) ELSE f[k - 1]

LEMMA KeptExists ==
  ASSUME NEW C, NEW s \in Seq(C), NEW S
  PROVE  \E f \in [0..Len(s) -> Seq(C)] : Kept(s, S, f, Len(s))
<1> DEFINE Bad == {n \in 0..Len(s) : ~ \E f \in [0..n -> Seq(C)] : Kept(s, S, f, n)}
<1>1. Len(s) \in Nat /\ \A k \in 1..Len(s) : s[k] \in C
  OBVIOUS
<1>2. Bad = {}
  <2> SUFFICES ASSUME Bad # {} PROVE FALSE
    OBVIOUS
  <2>1. Bad \in SUBSET Nat
    BY <1>1
  <2> HIDE DEF Bad
  <2>2. PICK n \in Bad : \A m \in Bad : n <= m
    BY <2>1, LeastNumber
  <2>3. n \in 0..Len(s) /\ ~ \E f \in [0..n -> Seq(C)] : Kept(s, S, f, n)
    BY <2>2 DEF Bad
  <2>4. CASE n = 0
    <3> DEFINE f == [k \in 0..0 |-> <<>>]
    <3>1. f \in [0..0 -> Seq(C)] /\ Kept(s, S, f, 0)
      BY DEF Kept
    <3> QED  BY <2>3, <2>4, <3>1
  <2>5. CASE n # 0
    <3>1. n - 1 \in 0..Len(s) /\ n \in 1..Len(s)
      BY <1>1, <2>3, <2>5
    <3>2. n - 1 \notin Bad
      BY <1>1, <2>2, <2>3
    <3>3. PICK f \in [0..(n - 1) -> Seq(C)] : Kept(s, S, f, n - 1)
      BY <3>1, <3>2 DEF Bad
    <3> DEFINE last == IF s[n] \in S THEN Append(f[n - 1], s[n]) ELSE f[n - 1]
               g == [k \in 0..n |-> IF k = n THEN last ELSE f[k]]
    <3>4. \A k \in 0..n : k # n => k \in 0..(n - 1)
      BY <1>1, <2>3
    <3>5. last \in Seq(C)
      BY <1>1, <3>1
    <3>6. g \in [0..n -> Seq(C)]
      <4> HIDE DEF last
      <4> QED  BY <1>1, <3>4, <3>5
    <3>7. g[0] = <<>>
      BY <1>1, <2>3, <2>5, <3>3 DEF Kept
    <3>8. ASSUME NEW k \in 1..n
          PROVE  g[k] = IF s[k] \in S THEN Append(g[k - 1], s[k]) ELSE g[k - 1]
      <4>1. g[k - 1] = f[k - 1]
        BY <1>1, <2>3
      <4>2. CASE k = n
        BY <2>3, <4>1, <4>2
      <4>3. CASE k # n
        <5>1. k \in 1..(n - 1) /\ g[k] = f[k]
          BY <2>3, <4>3
        <5> HIDE DEF g
        <5> QED  BY <3>3, <4>1, <5>1 DEF Kept
      <4> QED  BY <4>2, <4>3
    <3> HIDE DEF g
    <3>9. Kept(s, S, g, n)
      BY <3>7, <3>8 DEF Kept
    <3> QED  BY <2>3, <3>6, <3>9
  <2> QED  BY <2>4, <2>5
<1> QED  BY <1>1, <1>2

(* What the first comments leave is kept of them. *)
LEMMA KeptAre ==
  ASSUME NEW C, NEW s \in Seq(C), NEW S, NEW f, Kept(s, S, f, Len(s))
  PROVE  f[Len(s)] \in Seq(C) /\ ToSet(f[Len(s)]) = ToSet(s) \cap S
<1> DEFINE n == Len(s)
           Good(k) == f[k] \in Seq(C) /\ ToSet(f[k]) = {s[i] : i \in 1..k} \cap S
           Bad == {k \in 0..n : ~Good(k)}
<1>1. n \in Nat /\ \A k \in 1..n : s[k] \in C
  OBVIOUS
<1> HIDE DEF Good
<1>2. Bad = {}
  <2> SUFFICES ASSUME Bad # {} PROVE FALSE
    OBVIOUS
  <2>1. Bad \in SUBSET Nat
    BY <1>1
  <2> HIDE DEF Bad
  <2>2. PICK k \in Bad : \A j \in Bad : k <= j
    BY <2>1, LeastNumber
  <2>3. k \in 0..n /\ ~Good(k)
    BY <2>2 DEF Bad
  <2>4. k # 0
    <3>1. f[0] = <<>>
      BY DEF Kept
    <3>2. Good(0)
      BY <3>1 DEF ToSet, Good
    <3> QED  BY <2>3, <3>2
  <2>5. k \in 1..n /\ k - 1 \in 0..n /\ k - 1 \notin Bad
    BY <1>1, <2>2, <2>3, <2>4
  <2>6. Good(k - 1)
    BY <2>5 DEF Bad
  <2>7. f[k - 1] \in Seq(C) /\ ToSet(f[k - 1]) = {s[i] : i \in 1..(k - 1)} \cap S
    BY <2>6 DEF Good
  <2>8. f[k] = IF s[k] \in S THEN Append(f[k - 1], s[k]) ELSE f[k - 1]
    BY <2>5 DEF Kept
  <2>9. {s[i] : i \in 1..k} = {s[i] : i \in 1..(k - 1)} \cup {s[k]}
    BY <1>1, <2>5
  <2>10. CASE s[k] \in S
    <3>1. f[k] = Append(f[k - 1], s[k]) /\ s[k] \in C
      BY <1>1, <2>5, <2>8, <2>10
    <3>2. f[k] \in Seq(C) /\ ToSet(f[k]) = ToSet(f[k - 1]) \cup {s[k]}
      BY <2>7, <3>1, ToSetOfMore
    <3>3. Good(k)
      BY <2>7, <2>9, <2>10, <3>2 DEF Good
    <3> QED  BY <2>3, <3>3
  <2>11. CASE s[k] \notin S
    <3>1. Good(k)
      BY <2>7, <2>8, <2>9, <2>11 DEF Good
    <3> QED  BY <2>3, <3>1
  <2> QED  BY <2>10, <2>11
<1>3. Good(n)
  BY <1>1, <1>2
<1>4. ToSet(s) = {s[i] : i \in 1..n}
  BY DEF ToSet
<1> QED  BY <1>3, <1>4 DEF Good

(* Keeping comments leaves those that are kept. *)
LEMMA KeepIs ==
  ASSUME NEW C, NEW s \in Seq(C), NEW S
  PROVE  Keep(s, S) \in Seq(C) /\ ToSet(Keep(s, S)) = ToSet(s) \cap S
<1> DEFINE n == Len(s)
           first[k \in 0..n] == IF k = 0 THEN <<>>
                                ELSE IF s[k] \in S THEN Append(first[k - 1], s[k]) ELSE first[k - 1]
<1>1. Keep(s, S) = first[n]
  BY DEF Keep
<1>2. n \in Nat
  OBVIOUS
<1>3. PICK g \in [0..n -> Seq(C)] : Kept(s, S, g, n)
  BY KeptExists
<1>4. g = [k \in 0..n |-> IF k = 0 THEN <<>>
                          ELSE IF s[k] \in S THEN Append(g[k - 1], s[k]) ELSE g[k - 1]]
  <2>1. g[0] = <<>>
    BY <1>3 DEF Kept
  <2>2. ASSUME NEW k \in 0..n, k # 0
        PROVE  g[k] = IF s[k] \in S THEN Append(g[k - 1], s[k]) ELSE g[k - 1]
    <3>1. k \in 1..n
      BY <1>2, <2>2
    <3> QED  BY <1>3, <3>1 DEF Kept
  <2>3. g = [k \in 0..n |-> g[k]]
    OBVIOUS
  <2> QED  BY <2>1, <2>2, <2>3, Zenon
<1>5. first = [k \in 0..n |-> IF k = 0 THEN <<>>
                              ELSE IF s[k] \in S THEN Append(first[k - 1], s[k]) ELSE first[k - 1]]
  BY <1>4
<1> HIDE DEF first
<1>6. first[0] = <<>>
  BY <1>2, <1>5
<1>7. ASSUME NEW k \in 1..n
      PROVE  first[k] = IF s[k] \in S THEN Append(first[k - 1], s[k]) ELSE first[k - 1]
  <2>1. k \in 0..n /\ k # 0
    BY <1>2
  <2> QED  BY <1>5, <2>1
<1>8. Kept(s, S, first, n)
  BY <1>6, <1>7 DEF Kept
<1> QED  BY <1>1, <1>8, KeptAre

(* Finitely many numbers have a bound. *)
LEMMA NumbersAreBounded ==
  ASSUME NEW n \in Nat, NEW q \in [1..n -> Nat]
  PROVE  \E b \in Nat : \A i \in 1..n : q[i] <= b
<1> DEFINE Bounded(m) == \E b \in Nat : \A i \in 1..m : q[i] <= b
           Bad == {m \in 0..n : ~Bounded(m)}
<1> HIDE DEF Bounded
<1>1. Bad = {}
  <2> SUFFICES ASSUME Bad # {} PROVE FALSE
    OBVIOUS
  <2>1. Bad \in SUBSET Nat
    OBVIOUS
  <2> HIDE DEF Bad
  <2>2. PICK m \in Bad : \A j \in Bad : m <= j
    BY <2>1, LeastNumber
  <2>3. m \in 0..n /\ ~Bounded(m)
    BY <2>2 DEF Bad
  <2>4. m # 0
    BY <2>3 DEF Bounded
  <2>5. m \in 1..n /\ m - 1 \in 0..n /\ m - 1 \notin Bad
    BY <2>2, <2>3, <2>4
  <2>6. PICK b \in Nat : \A i \in 1..(m - 1) : q[i] <= b
    BY <2>5 DEF Bad, Bounded
  <2> DEFINE d == IF b <= q[m] THEN q[m] ELSE b
  <2>7. q[m] \in Nat
    BY <2>5
  <2>8. d \in Nat /\ b <= d /\ q[m] <= d
    BY <2>7
  <2> HIDE DEF d
  <2>9. ASSUME NEW i \in 1..m PROVE q[i] <= d
    <3>1. CASE i = m
      BY <2>8, <3>1
    <3>2. CASE i # m
      <4>1. i \in 1..(m - 1) /\ q[i] \in Nat
        BY <2>5, <3>2
      <4>2. q[i] <= b
        BY <2>6, <4>1
      <4> QED  BY <2>8, <4>1, <4>2
    <3> QED  BY <3>1, <3>2
  <2> QED  BY <2>3, <2>8, <2>9 DEF Bounded
<1>2. Bounded(n)
  BY <1>1
<1> QED  BY <1>2 DEF Bounded

(* ----------------------------- identities ------------------------------- *)
(* An identity is free among one more than there are. *)
LEMMA FirstFreeIs ==
  ASSUME NEW origin, NEW after \in Nat, NEW ids, IsFiniteSet(ids)
  PROVE  /\ FirstFree(origin, after, ids) \in Nat
         /\ <<origin, FirstFree(origin, after, ids)>> \notin ids
<1> DEFINE c == Cardinality(ids)
           I == (after + 1)..(after + c + 1)
           Free == {n \in I : <<origin, n>> \notin ids}
<1>1. c \in Nat
  BY FS_CardinalityType
<1> HIDE DEF c
<1>2. IsFiniteSet(I) /\ Cardinality(I) = c + 1
  <2>1. after + 1 \in Int /\ after + c + 1 \in Int /\ ~(after + 1 > after + c + 1)
    BY <1>1
  <2>2. (after + c + 1) - (after + 1) + 1 = c + 1
    BY <1>1
  <2> QED  BY <2>1, <2>2, FS_Interval
<1>3. Free # {}
  <2> SUFFICES ASSUME Free = {} PROVE FALSE
    OBVIOUS
  <2> DEFINE f == [n \in I |-> <<origin, n>>]
  <2>1. f \in [I -> ids]
    OBVIOUS
  <2>2. Cardinality(ids) < Cardinality(I)
    BY <1>1, <1>2 DEF c
  <2>3. \A x, y \in I : f[x] = f[y] => x = y
    OBVIOUS
  <2> HIDE DEF f, I
  <2>4. \E x, y \in I : x # y /\ f[x] = f[y]
    BY <1>2, <2>1, <2>2, FS_PigeonHole
  <2> QED  BY <2>3, <2>4
<1>4. I \in SUBSET Nat /\ Free \in SUBSET Nat
  BY <1>1
<1>5. PICK n \in Free : \A k \in Free : n <= k
  <2> HIDE DEF Free
  <2> QED  BY <1>3, <1>4, LeastNumber
<1>6. n \in I /\ <<origin, n>> \notin ids
  BY <1>5
<1>7. ASSUME NEW k \in (after + 1)..(n - 1) PROVE <<origin, k>> \in ids
  <2>1. k \in I /\ ~(n <= k)
    BY <1>1, <1>6
  <2> QED  BY <1>5, <2>1
<1>8. FirstFree(origin, after, ids) \in I /\ <<origin, FirstFree(origin, after, ids)>> \notin ids
  BY <1>6, <1>7 DEF FirstFree, c
<1> QED  BY <1>4, <1>8

(* ------------------------------- the state ------------------------------ *)
Texts == UNION {s.bodies : s \in Scenarios}
Lines == UNION {s.anchors : s \in Scenarios}
States == UNION {s.dispositions : s \in Scenarios}
Files == UNION {s.files : s \in Scenarios}
Origins == {"human", "agent"}
Ids == Origins \X Nat
Shown == Texts \cup {OVERTAKEN}

Functions(D, R) == UNION {[E -> R] : E \in SUBSET D}

Message == [thread: Nat, at: Lines, origin: Origins, body: Texts, deleted: BOOLEAN,
            by: {"view", "remote"}]
Reviews == [revision: Nat, messages: Functions(Nat, Message), dispositions: Functions(Nat, States),
            marks: SUBSET Files]
Comment == [id: Ids, at: Lines, text: Texts, disp: States, basis: SUBSET Shown]
BaseOf == [message: Nat, text: Texts, disp: States]
Bases == Functions(Ids, BaseOf)
Call ==
    [method: {"comment.add"}, at: Lines, body: Texts, origin: Origins]
    \cup [method: {"comment.reply"}, thread: Nat, body: Texts, reply_to: Nat, origin: Origins]
    \cup [method: {"comment.edit"}, message: Nat, body: Texts]
    \cup [method: {"comment.remove"}, message: Nat]
    \cup [method: {"review.disposition"}, thread: Nat, disposition: States]
    \cup [method: {"review.progress"}, marks: SUBSET Files]
Answer == [revision: Nat]
Pending == Functions(Call, [expected: Nat, receipt: {NONE} \cup Answer])
Draft == {NoDraft} \cup [at: Lines, basis: SUBSET Shown]

(* A message and a thread are named by the revision that made them. *)
Sound(r) ==
    /\ DOMAIN r.messages \subseteq 1..r.revision
    /\ \A m \in DOMAIN r.messages :
          r.messages[m].thread \in DOMAIN r.messages \cap DOMAIN r.dispositions

Types ==
    /\ used \in [of: Scenarios, events: Nat, remote: Nat, failures: Nat]
    /\ review \in Reviews /\ Sound(review)
    /\ ui \in [comments: Seq(Comment), nextId: Nat, marks: SUBSET Files, draft: Draft,
               dirty: BOOLEAN]
    /\ sync \in [imported: Bases, nextUi: Nat, record: Reviews,
                 signature: [comments: Seq(Comment), marks: SUBSET Files],
                 needsImport: BOOLEAN, conflict: BOOLEAN, pending: Pending]
    /\ Sound(sync.record)
    /\ at \in Phases

(* What the bases, the record and the review have to do with each other.     *)
BasesAreThere == \A id \in DOMAIN sync.imported : Base(id).message \in DOMAIN sync.record.messages

TextsAreOf(r) ==
    \A id \in DOMAIN sync.imported :
        r.messages[Base(id).message].by = "remote" => Base(id).text = r.messages[Base(id).message].body

RecordIsOld ==
    /\ sync.record.revision <= review.revision
    /\ sync.record.revision = review.revision => sync.record = review
    /\ DOMAIN sync.record.messages \subseteq DOMAIN review.messages
    /\ ~sync.needsImport => TextsAreOf(sync.record)

(* The message a call makes or changes. *)
Publishes(call) == call.method \in {"comment.add", "comment.reply", "comment.edit"}
Made(call, answer) ==
    IF call.method = "comment.edit" THEN call.message ELSE answer.revision

Answers(r, call, answer) ==
    /\ answer.revision <= r.revision
    /\ Publishes(call) =>
          /\ Made(call, answer) \in DOMAIN r.messages
          /\ answer.revision = r.revision => r.messages[Made(call, answer)].by = "view"

RequestsAreOld ==
    \A call \in DOMAIN sync.pending :
        /\ sync.pending[call].expected <= sync.record.revision
        /\ sync.pending[call].receipt # NONE =>
              /\ Answers(review, call, sync.pending[call].receipt)
              /\ at = "saving" => sync.pending[call].receipt.revision <= sync.record.revision

ReplyIsKnown ==
    at = "reply" =>
        /\ step.call \in Call /\ step.answer \in Answer /\ ~sync.needsImport
        /\ Answers(review, step.call, step.answer)
        /\ step.answer.revision = review.revision => TextsAreOf(review)
        /\ Publishes(step.call) => step.of \in CurrentIds
        /\ step.call.method = "comment.remove" => step.of \in Ids

(* The comments: their identities, and what their writers have seen.         *)
OneEach == \A c, d \in Comments : c.id = d.id => c = d
Numbered == \A c \in Comments : c.id[2] <= ui.nextId
GoneAreDiscarded == \A id \in DOMAIN sync.imported \ CurrentIds : Base(id).message \in discarded
Knows(basis, text) == text \in basis \/ OVERTAKEN \in basis
WritersSaw ==
    \A c \in Comments :
        Imported(c.id) =>
            c.text = Base(c.id).text \/ Knows(c.basis, Base(c.id).text) \/ Base(c.id).message \in discarded

DraftIsOfNow ==
    ui.draft # NoDraft /\ HumansAt(ui.draft.at) # {} =>
        LET c == LastHumanAt(ui.draft.at)
        IN  /\ Knows(ui.draft.basis, c.text)
            /\ Imported(c.id) => Knows(ui.draft.basis, Base(c.id).text) \/ Base(c.id).message \in discarded

CommentsInv == OneEach /\ Numbered /\ GoneAreDiscarded /\ WritersSaw
StoreInv == BasesAreThere /\ RecordIsOld /\ RequestsAreOld /\ ReplyIsKnown
SyncInv == StoreInv /\ CommentsInv /\ DraftIsOfNow


(* ------------------------- functions that grow and shrink --------------- *)
LEMMA FunctionsAre ==
  ASSUME NEW D, NEW R, NEW f \in Functions(D, R)
  PROVE  DOMAIN f \subseteq D /\ \A x \in DOMAIN f : f[x] \in R
BY DEF Functions

LEMMA FunctionsHold ==
  ASSUME NEW D, NEW R, NEW E \in SUBSET D, NEW f \in [E -> R]
  PROVE  f \in Functions(D, R)
BY DEF Functions

(* Putting a value into a function. *)
LEMMA PutDomain == \A f, x, v : DOMAIN Put(f, x, v) = DOMAIN f \cup {x}
BY DEF Put

LEMMA PutThere == \A f, x, v : Put(f, x, v)[x] = v
BY DEF Put

LEMMA PutElsewhere == \A f, x, v : \A y \in DOMAIN f : y # x => Put(f, x, v)[y] = f[y]
BY DEF Put

LEMMA PutKeeps ==
  ASSUME NEW D, NEW R, NEW f \in Functions(D, R), NEW x \in D, NEW v \in R
  PROVE  Put(f, x, v) \in Functions(D, R)
<1>1. DOMAIN f \subseteq D /\ \A y \in DOMAIN f : f[y] \in R
  BY FunctionsAre
<1>2. Put(f, x, v) \in [DOMAIN f \cup {x} -> R] /\ DOMAIN f \cup {x} \in SUBSET D
  BY <1>1 DEF Put
<1> QED  BY <1>2, FunctionsHold

(* Taking an element out of the domain of a function. *)
LEMMA WithoutDomain == \A f, x : DOMAIN Without(f, x) = DOMAIN f \ {x}
BY DEF Without

LEMMA WithoutElsewhere == \A f, x : \A y \in DOMAIN f : y # x => Without(f, x)[y] = f[y]
BY DEF Without

LEMMA WithoutKeeps ==
  ASSUME NEW D, NEW R, NEW f \in Functions(D, R), NEW x
  PROVE  Without(f, x) \in Functions(D, R)
<1>1. DOMAIN f \subseteq D /\ \A y \in DOMAIN f : f[y] \in R
  BY FunctionsAre
<1>2. Without(f, x) \in [DOMAIN f \ {x} -> R] /\ DOMAIN f \ {x} \in SUBSET D
  BY <1>1 DEF Without
<1> QED  BY <1>2, FunctionsHold

(* -------------------- the identities of some comments ------------------- *)
LEMMA IdsAreFinite ==
  ASSUME NEW s \in Seq(Comment)
  PROVE  IsFiniteSet({c.id : c \in ToSet(s)}) /\ {c.id : c \in ToSet(s)} \subseteq Ids
<1>1. Len(s) \in Nat /\ \A i \in 1..Len(s) : s[i] \in Comment
  OBVIOUS
<1>2. {c.id : c \in ToSet(s)} = {s[i].id : i \in 1..Len(s)}
  BY DEF ToSet
<1>3. IsFiniteSet(1..Len(s))
  BY <1>1, FS_Interval
<1> DEFINE F == [i \in 1..Len(s) |-> s[i].id]
           T == {s[i].id : i \in 1..Len(s)}
<1>4. F \in Surjection(1..Len(s), T)
  BY DEF Surjection
<1> HIDE DEF F
<1>5. IsFiniteSet(T)
  BY <1>3, <1>4, FS_Surjection
<1>6. T \subseteq Ids
  BY <1>1 DEF Comment
<1> QED  BY <1>2, <1>5, <1>6

LEMMA LargestIs ==
  ASSUME NEW s \in Seq(Comment)
  PROVE  LargestNumber(s) \in Nat /\ \A c \in ToSet(s) : c.id[2] <= LargestNumber(s)
<1> DEFINE n == Len(s)
           q == [i \in 1..n |-> s[i].id[2]]
           N == {c.id[2] : c \in ToSet(s)} \cup {0}
<1>1. n \in Nat /\ \A i \in 1..n : s[i] \in Comment
  OBVIOUS
<1>2. \A i \in 1..n : s[i].id[2] \in Nat
  BY <1>1 DEF Comment, Ids
<1>3. q \in [1..n -> Nat]
  BY <1>2
<1>4. PICK b \in Nat : \A i \in 1..n : q[i] <= b
  <2> HIDE DEF n, q
  <2> QED  BY <1>1, <1>3, NumbersAreBounded
<1>5. N = {s[i].id[2] : i \in 1..n} \cup {0}
  BY DEF ToSet
<1>6. N \in SUBSET Nat /\ N # {} /\ \A k \in N : k <= b
  <2>1. \A i \in 1..n : s[i].id[2] \in Nat /\ s[i].id[2] <= b
    BY <1>2, <1>4
  <2> HIDE DEF N
  <2>2. \A k \in N : k \in Nat /\ k <= b
    BY <1>5, <2>1
  <2>3. 0 \in N
    BY <1>5
  <2> QED  BY <2>2, <2>3
<1> HIDE DEF N
<1>7. \E k \in N : \A j \in N : j <= k
  BY <1>6, GreatestNumber
<1>8. LargestNumber(s) \in N /\ \A j \in N : j <= LargestNumber(s)
  BY <1>7 DEF LargestNumber, N
<1>9. \A c \in ToSet(s) : c.id[2] \in N
  BY DEF N
<1> QED  BY <1>6, <1>8, <1>9

(* The next message is one of those that are left. *)
LEMMA NextIs ==
  ASSUME NEW r \in Reviews, NEW left \in SUBSET (DOMAIN r.messages), left # {}
  PROVE  NextOf(r, left) \in left
<1> DEFINE th(m) == r.messages[m].thread
           T == {th(m) : m \in left}
<1>1. DOMAIN r.messages \subseteq Nat /\ \A m \in DOMAIN r.messages : th(m) \in Nat
  <2>1. r.messages \in Functions(Nat, Message)
    BY DEF Reviews
  <2>2. DOMAIN r.messages \subseteq Nat /\ \A m \in DOMAIN r.messages : r.messages[m] \in Message
    BY <2>1, FunctionsAre
  <2> QED  BY <2>2 DEF Message
<1>2. T \in SUBSET Nat /\ T # {}
  BY <1>1
<1>3. PICK t \in T : \A u \in T : t <= u
  <2> HIDE DEF T
  <2> QED  BY <1>2, LeastNumber
<1> DEFINE M == {m \in left : th(m) = t}
<1>4. M \in SUBSET Nat /\ M # {}
  BY <1>1, <1>3
<1>5. PICK m \in M : \A n \in M : m <= n
  <2> HIDE DEF M
  <2> QED  BY <1>4, LeastNumber
<1>6. ASSUME NEW n \in left
      PROVE  th(m) < th(n) \/ (th(m) = th(n) /\ m <= n)
  <2>1. th(m) = t /\ th(n) \in Nat /\ th(n) \in T /\ t \in Nat
    BY <1>1, <1>2, <1>5
  <2>2. t <= th(n)
    BY <1>3, <2>1
  <2>3. CASE th(n) = t
    BY <1>5, <2>1, <2>3
  <2>4. CASE th(n) # t
    BY <2>1, <2>2, <2>4
  <2> QED  BY <2>3, <2>4
<1>7. m \in left
  OBVIOUS
<1> QED  BY <1>6, <1>7 DEF NextOf

(* ------------------------------ the review ------------------------------ *)
(* What a sound record holds. *)
LEMMA RecordIs ==
  ASSUME NEW r \in Reviews, Sound(r)
  PROVE  /\ r = [revision |-> r.revision, messages |-> r.messages,
                 dispositions |-> r.dispositions, marks |-> r.marks]
         /\ r.revision \in Nat /\ r.marks \subseteq Files
         /\ r.messages \in Functions(Nat, Message) /\ r.dispositions \in Functions(Nat, States)
         /\ \A m \in DOMAIN r.messages :
               /\ m \in 1..r.revision /\ r.messages[m] \in Message
               /\ r.messages[m].thread \in DOMAIN r.messages \cap DOMAIN r.dispositions
               /\ DispositionOf(r, m) \in States
<1>1. /\ r = [revision |-> r.revision, messages |-> r.messages,
              dispositions |-> r.dispositions, marks |-> r.marks]
      /\ r.revision \in Nat /\ r.marks \subseteq Files
      /\ r.messages \in Functions(Nat, Message) /\ r.dispositions \in Functions(Nat, States)
  BY DEF Reviews
<1>2. ASSUME NEW m \in DOMAIN r.messages
      PROVE  /\ m \in 1..r.revision /\ r.messages[m] \in Message
             /\ r.messages[m].thread \in DOMAIN r.messages \cap DOMAIN r.dispositions
             /\ DispositionOf(r, m) \in States
  <2>1. m \in 1..r.revision /\ r.messages[m].thread \in DOMAIN r.messages \cap DOMAIN r.dispositions
    BY DEF Sound
  <2>2. r.messages[m] \in Message
    BY <1>1, FunctionsAre
  <2>3. r.dispositions[r.messages[m].thread] \in States
    BY <1>1, <2>1, FunctionsAre
  <2> QED  BY <2>1, <2>2, <2>3 DEF DispositionOf
<1> QED  BY <1>1, <1>2

(* The calls that can be made on a review. *)
Callable(r, call) ==
    \/ /\ call.method = "comment.add"
       /\ call.at \in Lines /\ call.origin \in Origins /\ call.body \in Texts
    \/ /\ call.method = "comment.reply"
       /\ call.thread \in DOMAIN r.messages \cap DOMAIN r.dispositions
       /\ call.origin \in Origins /\ call.body \in Texts
    \/ call.method = "comment.edit" /\ call.body \in Texts
    \/ call.method = "comment.remove"
    \/ call.method = "review.disposition" /\ call.disposition \in States
    \/ call.method = "review.progress" /\ call.marks \subseteq Files

(* A review of its parts. *)
LEMMA ReviewOf ==
  ASSUME NEW revision \in Nat, NEW messages \in Functions(Nat, Message),
         NEW dispositions \in Functions(Nat, States), NEW marks \in SUBSET Files
  PROVE  [revision |-> revision, messages |-> messages, dispositions |-> dispositions, marks |-> marks]
            \in Reviews
BY DEF Reviews

(* A message that is added to a review. *)
Grown(r, id, thread, line, origin, body, who) ==
    [revision |-> id,
     messages |-> Put(r.messages, id, [thread |-> thread, at |-> line, origin |-> origin,
                                       body |-> body, deleted |-> FALSE, by |-> who]),
     dispositions |-> IF thread \in DOMAIN r.dispositions THEN r.dispositions
                      ELSE Put(r.dispositions, thread, "open"),
     marks |-> r.marks]

LEMMA WithMessageIs ==
  ASSUME NEW r \in Reviews, Sound(r), NEW id, id = r.revision + 1,
         NEW thread, thread = id \/ thread \in DOMAIN r.messages \cap DOMAIN r.dispositions,
         NEW line \in Lines, NEW origin \in Origins,
         NEW body \in Texts, NEW who \in {"view", "remote"}, "open" \in States,
         NEW next, next = Grown(r, id, thread, line, origin, body, who)
  PROVE  /\ next \in Reviews /\ Sound(next) /\ next.revision = id
         /\ DOMAIN next.messages = DOMAIN r.messages \cup {id}
         /\ next.messages[id].by = who
         /\ \A m \in DOMAIN r.messages : next.messages[m] = r.messages[m]
<1> DEFINE new == [thread |-> thread, at |-> line, origin |-> origin, body |-> body,
                   deleted |-> FALSE, by |-> who]
           messages == Put(r.messages, id, new)
           dispositions == IF thread \in DOMAIN r.dispositions THEN r.dispositions
                           ELSE Put(r.dispositions, thread, "open")
<1>a. /\ r = [revision |-> r.revision, messages |-> r.messages,
              dispositions |-> r.dispositions, marks |-> r.marks]
      /\ r.revision \in Nat /\ r.marks \subseteq Files
      /\ r.messages \in Functions(Nat, Message) /\ r.dispositions \in Functions(Nat, States)
      /\ \A m \in DOMAIN r.messages :
            m \in 1..r.revision /\ r.messages[m].thread \in DOMAIN r.messages \cap DOMAIN r.dispositions
  BY RecordIs
<1>1. next = [revision |-> id, messages |-> messages, dispositions |-> dispositions, marks |-> r.marks]
  BY DEF Grown
<1>2. id \in Nat /\ id \notin DOMAIN r.messages /\ DOMAIN r.messages \subseteq 1..id /\ id \in 1..id
  <2>1. r.revision \in Nat /\ \A m \in DOMAIN r.messages : m \in 1..r.revision
    BY <1>a
  <2>2. id \in Nat /\ id \in 1..id /\ \A m \in 1..r.revision : m \in 1..id /\ m # id
    BY <2>1
  <2> QED  BY <2>1, <2>2
<1>3. thread \in Nat
  BY <1>2
<1>4. new \in Message /\ new.by = who /\ new.thread = thread
  BY <1>3 DEF Message
<1> HIDE DEF new
<1>5. messages \in Functions(Nat, Message)
  BY <1>a, <1>2, <1>4, PutKeeps
<1>b. messages[id] = new
  BY PutThere
<1>6. DOMAIN messages = DOMAIN r.messages \cup {id} /\ messages[id] = new
  <2>1. DOMAIN messages = DOMAIN r.messages \cup {id}
    BY PutDomain
  <2> QED  BY <1>b, <2>1
<1>7. \A m \in DOMAIN r.messages : messages[m] = r.messages[m]
  BY <1>2, PutElsewhere
<1>8. /\ dispositions \in Functions(Nat, States)
      /\ thread \in DOMAIN dispositions /\ DOMAIN r.dispositions \subseteq DOMAIN dispositions
  <2>1. CASE thread \in DOMAIN r.dispositions
    BY <1>a, <2>1
  <2>2. CASE thread \notin DOMAIN r.dispositions
    <3>1. dispositions = Put(r.dispositions, thread, "open")
      BY <2>2
    <3>2. DOMAIN dispositions = DOMAIN r.dispositions \cup {thread}
      BY <3>1, PutDomain
    <3>3. dispositions \in Functions(Nat, States)
      BY <1>a, <1>3, <3>1, PutKeeps
    <3> QED  BY <3>2, <3>3
  <2> QED  BY <2>1, <2>2
<1> HIDE DEF messages, dispositions
<1>9. next \in Reviews
  <2>1. r.marks \in SUBSET Files /\ id \in Nat
    BY <1>a, <1>2
  <2>2. messages \in Functions(Nat, Message) /\ dispositions \in Functions(Nat, States)
    BY <1>5, <1>8
  <2> QED  BY <1>1, <2>1, <2>2, ReviewOf
<1>10. Sound(next)
  <2>1. DOMAIN messages \subseteq 1..id
    BY <1>2, <1>6
  <2>2. ASSUME NEW m \in DOMAIN messages
        PROVE  messages[m].thread \in DOMAIN messages \cap DOMAIN dispositions
    <3>1. CASE m = id
      BY <1>4, <1>6, <1>8, <3>1
    <3>2. CASE m # id
      BY <1>a, <1>6, <1>7, <1>8, <3>2
    <3> QED  BY <3>1, <3>2
  <2> QED  BY <1>1, <2>1, <2>2 DEF Sound
<1> QED  BY <1>1, <1>4, <1>6, <1>7, <1>9, <1>10

(* What a call makes of a review. *)
LEMMA ApplyIs ==
  ASSUME NEW r \in Reviews, Sound(r), NEW call, Callable(r, call), Accepts(r, call),
         NEW who \in {"view", "remote"}, "open" \in States, NEW id, id = r.revision + 1
  PROVE  LET next == Apply(r, call, who)
         IN  /\ next \in Reviews /\ Sound(next) /\ next.revision = id
             /\ DOMAIN r.messages \subseteq DOMAIN next.messages
             /\ Publishes(call) => /\ Made(call, [revision |-> id]) \in DOMAIN next.messages
                                   /\ next.messages[Made(call, [revision |-> id])].by = who
             /\ \A m \in DOMAIN r.messages :
                   ~(call.method = "comment.edit" /\ call.message = m)
                       => /\ next.messages[m].by = r.messages[m].by
                          /\ next.messages[m].body = r.messages[m].body
<1> DEFINE next == Apply(r, call, who)
           Good ==
             /\ next \in Reviews /\ Sound(next) /\ next.revision = id
             /\ DOMAIN r.messages \subseteq DOMAIN next.messages
             /\ Publishes(call) => /\ Made(call, [revision |-> id]) \in DOMAIN next.messages
                                   /\ next.messages[Made(call, [revision |-> id])].by = who
             /\ \A m \in DOMAIN r.messages :
                   ~(call.method = "comment.edit" /\ call.message = m)
                       => /\ next.messages[m].by = r.messages[m].by
                          /\ next.messages[m].body = r.messages[m].body
<1>1. /\ id \in Nat /\ r = [revision |-> r.revision, messages |-> r.messages,
              dispositions |-> r.dispositions, marks |-> r.marks]
      /\ r.revision \in Nat /\ r.marks \subseteq Files
      /\ r.messages \in Functions(Nat, Message) /\ r.dispositions \in Functions(Nat, States)
  BY RecordIs
<1>2. \A m \in DOMAIN r.messages :
        /\ m \in 1..id /\ r.messages[m] \in Message
        /\ r.messages[m].thread \in DOMAIN r.messages \cap DOMAIN r.dispositions
  <2>1. \A m \in 1..r.revision : m \in 1..id
    <3>1. r.revision \in Nat
      BY <1>1
    <3> QED  BY <3>1
  <2> QED  BY <2>1, RecordIs
<1>n. next = [(CASE call.method = "comment.add" ->
                        WithMessage(r, id, call.at, call.origin, call.body, who)
                    [] call.method = "comment.reply" ->
                        WithMessage(r, call.thread, r.messages[call.thread].at, call.origin, call.body, who)
                    [] call.method = "comment.edit" ->
                        [r EXCEPT !.messages[call.message].body = call.body,
                                  !.messages[call.message].by = who]
                    [] call.method = "comment.remove" ->
                        [r EXCEPT !.messages[call.message].deleted = TRUE]
                    [] call.method = "review.disposition" ->
                        [r EXCEPT !.dispositions[call.thread] = call.disposition]
                    [] call.method = "review.progress" -> [r EXCEPT !.marks = call.marks])
                  EXCEPT !.revision = id]
  BY DEF Apply
<1> HIDE DEF next, Good
<1>3. ASSUME call.method = "comment.add" PROVE Good
  <2>0. next = [WithMessage(r, id, call.at, call.origin, call.body, who) EXCEPT !.revision = id]
    BY <1>3, <1>n
  <2>1. next = Grown(r, id, id, call.at, call.origin, call.body, who)
    BY <1>1, <2>0 DEF WithMessage, Grown
  <2>2. call.at \in Lines /\ call.origin \in Origins /\ call.body \in Texts
    BY <1>3 DEF Callable
  <2>3. /\ next \in Reviews /\ Sound(next) /\ next.revision = id
        /\ DOMAIN next.messages = DOMAIN r.messages \cup {id}
        /\ next.messages[id].by = who
        /\ \A m \in DOMAIN r.messages : next.messages[m] = r.messages[m]
    BY <2>1, <2>2, WithMessageIs
  <2>4. Made(call, [revision |-> id]) = id
    BY <1>3, <2>3 DEF Made
  <2> QED  BY <2>3, <2>4 DEF Good
<1>4. ASSUME call.method = "comment.reply" PROVE Good
  <2>0. next = [WithMessage(r, call.thread, r.messages[call.thread].at, call.origin, call.body, who)
                  EXCEPT !.revision = id]
    BY <1>4, <1>n
  <2>1. next = Grown(r, id, call.thread, r.messages[call.thread].at, call.origin, call.body, who)
    BY <1>1, <2>0 DEF WithMessage, Grown
  <2>2. /\ call.origin \in Origins /\ call.body \in Texts
        /\ call.thread \in DOMAIN r.messages \cap DOMAIN r.dispositions
    BY <1>4 DEF Callable
  <2>3. PICK line \in Lines : line = r.messages[call.thread].at
    BY <1>2, <2>2 DEF Message
  <2>a. PICK thread \in DOMAIN r.messages \cap DOMAIN r.dispositions : thread = call.thread
    BY <2>2
  <2>b. next = Grown(r, id, thread, line, call.origin, call.body, who)
    BY <2>1, <2>3, <2>a
  <2>4. /\ next \in Reviews /\ Sound(next) /\ next.revision = id
        /\ DOMAIN next.messages = DOMAIN r.messages \cup {id}
        /\ next.messages[id].by = who
        /\ \A m \in DOMAIN r.messages : next.messages[m] = r.messages[m]
    BY <2>2, <2>b, WithMessageIs
  <2>5. Made(call, [revision |-> id]) = id
    BY <1>4, <2>4 DEF Made
  <2> QED  BY <2>4, <2>5 DEF Good
<1>5. ASSUME call.method = "comment.edit" PROVE Good
  <2> DEFINE c == call.message
             messages == [r.messages EXCEPT ![c].body = call.body, ![c].by = who]
  <2>1. c \in DOMAIN r.messages /\ call.body \in Texts
    BY <1>5 DEF Accepts, EditAccepts, RemoveAccepts, Callable
  <2>2. next = [revision |-> id, messages |-> messages,
                dispositions |-> r.dispositions, marks |-> r.marks]
    BY <1>1, <1>5, <1>n
  <2>3. DOMAIN messages = DOMAIN r.messages /\ messages \in [DOMAIN r.messages -> {messages[m] : m \in DOMAIN r.messages}]
    OBVIOUS
  <2>4. messages[c] = [r.messages[c] EXCEPT !.body = call.body, !.by = who]
    BY <2>1
  <2>5. r.messages[c] \in Message
    BY <1>2, <2>1
  <2>6. messages[c] \in Message /\ messages[c].by = who /\ messages[c].thread = r.messages[c].thread
    BY <2>1, <2>4, <2>5 DEF Message
  <2>7. \A m \in DOMAIN r.messages \ {c} : messages[m] = r.messages[m]
    OBVIOUS
  <2> HIDE DEF messages, c
  <2>8. messages \in Functions(Nat, Message)
    <3>1. \A m \in DOMAIN messages : messages[m] \in Message
      BY <1>2, <2>3, <2>6, <2>7
    <3>2. DOMAIN messages \subseteq Nat
      BY <1>1, <2>3, FunctionsAre
    <3>3. messages \in [DOMAIN r.messages -> Message]
      BY <2>3, <3>1
    <3> QED  BY <2>3, <3>2, <3>3, FunctionsHold
  <2>9. next \in Reviews
    BY <1>1, <2>2, <2>8 DEF Reviews
  <2>10. Sound(next)
    <3>1. \A m \in DOMAIN messages : messages[m].thread \in DOMAIN messages \cap DOMAIN r.dispositions
      BY <1>2, <2>3, <2>6, <2>7
    <3>2. DOMAIN messages \subseteq 1..id
      BY <1>2, <2>3
    <3> QED  BY <2>2, <3>1, <3>2 DEF Sound
  <2>11. Made(call, [revision |-> id]) = c
    BY <1>5 DEF Made, c
  <2> QED  BY <1>5, <2>1, <2>2, <2>3, <2>6, <2>7, <2>9, <2>10, <2>11 DEF Good, c
<1>6. ASSUME call.method = "comment.remove" PROVE Good
  <2> DEFINE c == call.message
             messages == [r.messages EXCEPT ![c].deleted = TRUE]
  <2>1. c \in DOMAIN r.messages
    BY <1>6 DEF Accepts, RemoveAccepts
  <2>2. next = [revision |-> id, messages |-> messages,
                dispositions |-> r.dispositions, marks |-> r.marks]
    BY <1>1, <1>6, <1>n
  <2>3. DOMAIN messages = DOMAIN r.messages /\ messages \in [DOMAIN r.messages -> {messages[m] : m \in DOMAIN r.messages}]
    OBVIOUS
  <2>4. messages[c] = [r.messages[c] EXCEPT !.deleted = TRUE]
    BY <2>1
  <2>5. r.messages[c] \in Message
    BY <1>2, <2>1
  <2>6. messages[c] \in Message /\ messages[c].by = r.messages[c].by
        /\ messages[c].thread = r.messages[c].thread /\ messages[c].body = r.messages[c].body
    BY <2>1, <2>4, <2>5 DEF Message
  <2>7. \A m \in DOMAIN r.messages \ {c} : messages[m] = r.messages[m]
    OBVIOUS
  <2> HIDE DEF messages, c
  <2>8. messages \in Functions(Nat, Message)
    <3>1. \A m \in DOMAIN messages : messages[m] \in Message
      BY <1>2, <2>3, <2>6, <2>7
    <3>2. DOMAIN messages \subseteq Nat
      BY <1>1, <2>3, FunctionsAre
    <3>3. messages \in [DOMAIN r.messages -> Message]
      BY <2>3, <3>1
    <3> QED  BY <2>3, <3>2, <3>3, FunctionsHold
  <2>9. next \in Reviews
    BY <1>1, <2>2, <2>8 DEF Reviews
  <2>10. Sound(next)
    <3>1. \A m \in DOMAIN messages : messages[m].thread \in DOMAIN messages \cap DOMAIN r.dispositions
      BY <1>2, <2>3, <2>6, <2>7
    <3>2. DOMAIN messages \subseteq 1..id
      BY <1>2, <2>3
    <3> QED  BY <2>2, <3>1, <3>2 DEF Sound
  <2>11. ~Publishes(call)
    BY <1>6 DEF Publishes
  <2> QED  BY <2>2, <2>3, <2>6, <2>7, <2>9, <2>10, <2>11 DEF Good
<1>7. ASSUME call.method = "review.disposition" PROVE Good
  <2> DEFINE dispositions == [r.dispositions EXCEPT ![call.thread] = call.disposition]
  <2>1. call.disposition \in States
    BY <1>7 DEF Callable
  <2>2. next = [revision |-> id, messages |-> r.messages,
                dispositions |-> dispositions, marks |-> r.marks]
    BY <1>1, <1>7, <1>n
  <2>3. /\ DOMAIN dispositions = DOMAIN r.dispositions
        /\ dispositions \in [DOMAIN r.dispositions -> {dispositions[m] : m \in DOMAIN r.dispositions}]
    OBVIOUS
  <2>4. DOMAIN r.dispositions \subseteq Nat /\ \A m \in DOMAIN r.dispositions : r.dispositions[m] \in States
    BY <1>1, FunctionsAre
  <2>5. \A m \in DOMAIN r.dispositions : dispositions[m] \in States
    BY <2>1, <2>4
  <2> HIDE DEF dispositions
  <2>6. dispositions \in Functions(Nat, States)
    <3>1. dispositions \in [DOMAIN r.dispositions -> States]
      BY <2>3, <2>5
    <3> QED  BY <2>4, <3>1, FunctionsHold
  <2>7. next \in Reviews
    BY <1>1, <2>2, <2>6 DEF Reviews
  <2>8. Sound(next)
    BY <1>1, <1>2, <2>2, <2>3 DEF Sound
  <2>9. ~Publishes(call)
    BY <1>7 DEF Publishes
  <2> QED  BY <2>2, <2>7, <2>8, <2>9 DEF Good
<1>8. ASSUME call.method = "review.progress" PROVE Good
  <2>1. call.marks \subseteq Files
    BY <1>8 DEF Callable
  <2>2. next = [revision |-> id, messages |-> r.messages,
                dispositions |-> r.dispositions, marks |-> call.marks]
    BY <1>1, <1>8, <1>n
  <2>3. next \in Reviews
    BY <1>1, <2>1, <2>2 DEF Reviews
  <2>4. Sound(next)
    BY <1>1, <1>2, <2>2 DEF Sound
  <2>5. ~Publishes(call)
    BY <1>8 DEF Publishes
  <2> QED  BY <2>2, <2>3, <2>4, <2>5 DEF Good
<1> QED  BY <1>3, <1>4, <1>5, <1>6, <1>7, <1>8 DEF Callable, Good, next

(* ------------------------------- import --------------------------------- *)
(* A sequence of comments that are made of others. *)
LEMMA MapIs ==
  ASSUME NEW C, NEW s \in Seq(C), NEW R, NEW t \in [DOMAIN s -> R]
  PROVE  t \in Seq(R) /\ Len(t) = Len(s) /\ ToSet(t) = {t[i] : i \in DOMAIN s}
<1>1. Len(s) \in Nat /\ DOMAIN s = 1..Len(s)
  OBVIOUS
<1>2. t \in [1..Len(s) -> R]
  BY <1>1
<1>3. t \in Seq(R) /\ Len(t) = Len(s) /\ DOMAIN t = DOMAIN s
  BY <1>1, <1>2
<1> QED  BY <1>3 DEF ToSet

(* What is known of the comments and their bases in the middle of an import. *)
IdsOf(S) == {c.id : c \in ToSet(S.comments)}
TextsSeen(S) ==
    \A c \in ToSet(S.comments) :
        c.id \in DOMAIN S.imported =>
            \/ c.text = S.imported[c.id].text
            \/ Knows(c.basis, S.imported[c.id].text)
            \/ S.imported[c.id].message \in discarded
(* What an import takes as the new base of a comment whose text it leaves.    *)
BasesSeen(S) ==
    \A c \in Comments, d \in ToSet(S.comments) :
        c.id = d.id /\ c.text = d.text /\ d.id \in DOMAIN S.imported =>
            /\ Imported(c.id) /\ S.imported[d.id].message = Base(c.id).message
            /\ S.imported[d.id].text \in {Base(c.id).text, c.text}
ImportIs(r, S) ==
    /\ S.left \subseteq DOMAIN r.messages /\ IsFiniteSet(S.left) /\ S.next \in Nat
    /\ S.ids \subseteq Ids /\ IsFiniteSet(S.ids) /\ IdsOf(S) \subseteq S.ids
    /\ S.comments \in Seq(Comment)
    /\ \A c, d \in ToSet(S.comments) : c.id = d.id => c = d
    /\ S.imported \in Bases
    /\ \A id \in DOMAIN S.imported :
          /\ S.imported[id].message \in DOMAIN r.messages
          /\ S.imported[id].text = r.messages[S.imported[id].message].body
    /\ \A id \in DOMAIN S.imported \ IdsOf(S) : S.imported[id].message \in discarded
    /\ TextsSeen(S)
    /\ CurrentIds \subseteq S.ids /\ BasesSeen(S)

(* The messages of a review are finitely many. *)
LEMMA MessagesAreFinite ==
  ASSUME NEW r \in Reviews, Sound(r), NEW left \in SUBSET (DOMAIN r.messages)
  PROVE  IsFiniteSet(left)
<1>1. r.revision \in Nat /\ DOMAIN r.messages \subseteq 1..r.revision
  BY RecordIs DEF Sound
<1>2. \A n \in Nat : IsFiniteSet(1..n)
  BY FS_Interval
<1>3. PICK n \in Nat : n = r.revision
  BY <1>1
<1>4. IsFiniteSet(1..n) /\ left \subseteq 1..n
  BY <1>1, <1>2, <1>3
<1> QED  BY <1>4, FS_Subset

(* A base that is taken of a message. *)
LEMMA BaselineIs ==
  ASSUME NEW r \in Reviews, Sound(r), NEW m \in DOMAIN r.messages
  PROVE  /\ Baseline(r, m) \in BaseOf
         /\ Baseline(r, m).message = m /\ Baseline(r, m).text = r.messages[m].body
<1>1. /\ m \in Nat /\ r.messages[m].body \in Texts /\ DispositionOf(r, m) \in States
  <2>1. /\ m \in 1..r.revision /\ r.messages[m] \in Message /\ DispositionOf(r, m) \in States
    BY RecordIs
  <2>2. r.revision \in Nat
    BY RecordIs
  <2> QED  BY <2>1, <2>2 DEF Message
<1> QED  BY <1>1 DEF Baseline, BaseOf

(* Adopting a message. *)
LEMMA AdoptIs ==
  ASSUME NEW r \in Reviews, Sound(r), NEW S, ImportIs(r, S), S.left # {}
  PROVE  /\ ImportIs(r, Adopt(r, S))
         /\ \E m \in S.left : Adopt(r, S).left = S.left \ {m}
<1> DEFINE m == NextOf(r, S.left)
           origin == r.messages[m].origin
           n == FirstFree(origin, S.next, S.ids)
           id == <<origin, n>>
           comment == [id |-> id, at |-> r.messages[m].at, text |-> r.messages[m].body,
                       disp |-> DispositionOf(r, m), basis |-> {}]
           T == Adopt(r, S)
<1>1. /\ S.left \subseteq DOMAIN r.messages /\ IsFiniteSet(S.left) /\ S.next \in Nat
      /\ S.ids \subseteq Ids /\ IsFiniteSet(S.ids) /\ IdsOf(S) \subseteq S.ids
      /\ S.comments \in Seq(Comment) /\ S.imported \in Bases
  BY DEF ImportIs
<1>2. m \in S.left /\ m \in DOMAIN r.messages
  <2>1. S.left \in SUBSET (DOMAIN r.messages)
    BY <1>1
  <2>2. m \in S.left
    BY <2>1, NextIs
  <2> QED  BY <2>1, <2>2
<1> HIDE DEF m
<1>3. /\ origin \in Origins /\ r.messages[m].at \in Lines /\ r.messages[m].body \in Texts
      /\ DispositionOf(r, m) \in States
  <2>1. r.messages[m] \in Message /\ DispositionOf(r, m) \in States
    BY <1>2, RecordIs
  <2> QED  BY <2>1 DEF Message
<1> HIDE DEF origin
<1>4. n \in Nat /\ id \notin S.ids
  BY <1>1, FirstFreeIs
<1> HIDE DEF n
<1>5. id \in Ids
  BY <1>3, <1>4 DEF Ids
<1> HIDE DEF id
<1>6. comment \in Comment /\ comment.id = id /\ comment.text = r.messages[m].body
  BY <1>3, <1>5 DEF Comment
<1> HIDE DEF comment
<1>7. /\ T.left = S.left \ {m} /\ T.next = n /\ T.ids = S.ids \cup {id}
      /\ T.comments = Append(S.comments, comment)
      /\ T.imported = Put(S.imported, id, Baseline(r, m))
  BY DEF Adopt, m, origin, n, id, comment
<1> HIDE DEF T
<1>8. T.comments \in Seq(Comment) /\ ToSet(T.comments) = ToSet(S.comments) \cup {comment}
  BY <1>1, <1>6, <1>7, ToSetOfMore
<1>9. IdsOf(T) = IdsOf(S) \cup {id}
  BY <1>6, <1>8 DEF IdsOf
<1>10. Baseline(r, m) \in BaseOf /\ Baseline(r, m).message = m /\ Baseline(r, m).text = r.messages[m].body
  BY <1>2, BaselineIs
<1>11. T.imported \in Bases
  BY <1>1, <1>5, <1>7, <1>10, PutKeeps DEF Bases
<1>12. DOMAIN T.imported = DOMAIN S.imported \cup {id}
  <2>1. T.imported = Put(S.imported, id, Baseline(r, m))
    BY <1>7
  <2>2. DOMAIN Put(S.imported, id, Baseline(r, m)) = DOMAIN S.imported \cup {id}
    BY PutDomain, Zenon
  <2> QED  BY <2>1, <2>2, Zenon
<1>13. T.imported[id] = Baseline(r, m)
  BY <1>7, PutThere
<1>14. \A other \in DOMAIN S.imported : other # id => T.imported[other] = S.imported[other]
  BY <1>7, PutElsewhere
<1>15. IsFiniteSet(T.left) /\ IsFiniteSet(T.ids) /\ T.left \subseteq DOMAIN r.messages
  <2>1. IsFiniteSet(T.ids)
    BY <1>1, <1>7, FS_AddElement
  <2>2. IsFiniteSet(T.left)
    <3>1. IsFiniteSet(S.left \ {m})
      BY <1>1, FS_RemoveElement
    <3> QED  BY <1>7, <3>1
  <2>3. T.left \subseteq DOMAIN r.messages
    BY <1>1, <1>7
  <2> QED  BY <2>1, <2>2, <2>3
<1>16. \A c \in ToSet(S.comments) : c.id # id
  BY <1>1, <1>4 DEF IdsOf
<1>17. \A c, d \in ToSet(T.comments) : c.id = d.id => c = d
  <2>1. \A c, d \in ToSet(S.comments) : c.id = d.id => c = d
    BY DEF ImportIs
  <2> QED  BY <1>6, <1>8, <1>16, <2>1
<1>18. ASSUME NEW other \in DOMAIN T.imported
       PROVE  /\ T.imported[other].message \in DOMAIN r.messages
              /\ T.imported[other].text = r.messages[T.imported[other].message].body
  <2>1. CASE other = id
    BY <1>2, <1>10, <1>13, <2>1
  <2>2. CASE other # id
    <3>1. other \in DOMAIN S.imported /\ T.imported[other] = S.imported[other]
      BY <1>12, <1>14, <2>2
    <3> QED  BY <3>1 DEF ImportIs
  <2> QED  BY <2>1, <2>2
<1>19. ASSUME NEW other \in DOMAIN T.imported \ IdsOf(T)
       PROVE  T.imported[other].message \in discarded
  <2>1. other \in DOMAIN S.imported \ IdsOf(S) /\ T.imported[other] = S.imported[other]
    BY <1>9, <1>12, <1>14
  <2> QED  BY <2>1 DEF ImportIs
<1>20. TextsSeen(T)
  <2> SUFFICES ASSUME NEW c \in ToSet(T.comments), c.id \in DOMAIN T.imported
               PROVE  \/ c.text = T.imported[c.id].text
                      \/ Knows(c.basis, T.imported[c.id].text)
                      \/ T.imported[c.id].message \in discarded
    BY DEF TextsSeen
  <2>1. CASE c = comment
    BY <1>6, <1>10, <1>13, <2>1
  <2>2. CASE c # comment
    <3>1. c \in ToSet(S.comments) /\ c.id # id
      BY <1>8, <1>16, <2>2
    <3>2. c.id \in DOMAIN S.imported /\ T.imported[c.id] = S.imported[c.id]
      BY <1>12, <1>14, <3>1
    <3> QED  BY <3>1, <3>2 DEF ImportIs, TextsSeen
  <2> QED  BY <2>1, <2>2
<1>21. T.next \in Nat /\ T.ids \subseteq Ids /\ IdsOf(T) \subseteq T.ids
  BY <1>1, <1>4, <1>5, <1>7, <1>9
<1>22. CurrentIds \subseteq T.ids /\ BasesSeen(T)
  <2>1. CurrentIds \subseteq S.ids /\ BasesSeen(S)
    BY DEF ImportIs
  <2>2. \A c \in Comments : c.id # id
    BY <1>4, <2>1 DEF CurrentIds
  <2> SUFFICES ASSUME NEW c \in Comments, NEW d \in ToSet(T.comments),
                      c.id = d.id, c.text = d.text, d.id \in DOMAIN T.imported
               PROVE  /\ Imported(c.id) /\ T.imported[d.id].message = Base(c.id).message
                      /\ T.imported[d.id].text \in {Base(c.id).text, c.text}
    BY <1>7, <2>1 DEF BasesSeen
  <2>3. d.id # id /\ d \in ToSet(S.comments)
    BY <1>6, <1>8, <2>2
  <2>4. d.id \in DOMAIN S.imported /\ T.imported[d.id] = S.imported[d.id]
    BY <1>12, <1>14, <2>3
  <2> QED  BY <2>1, <2>3, <2>4 DEF BasesSeen
<1>23. ImportIs(r, T)
  BY <1>8, <1>11, <1>15, <1>17, <1>18, <1>19, <1>20, <1>21, <1>22 DEF ImportIs
<1> QED  BY <1>2, <1>7, <1>23 DEF T

(* What the view's variables are. *)
LEMMA StateIs ==
  ASSUME Types
  PROVE  /\ review \in Reviews /\ Sound(review) /\ sync.record \in Reviews /\ Sound(sync.record)
         /\ ui.comments \in Seq(Comment) /\ ui.nextId \in Nat /\ ui.marks \subseteq Files /\ ui.draft \in Draft
         /\ ui = [comments |-> ui.comments, nextId |-> ui.nextId, marks |-> ui.marks,
                  draft |-> ui.draft, dirty |-> ui.dirty]
         /\ sync.imported \in Bases /\ sync.nextUi \in Nat
BY DEF Types

LEMMA BasesAre ==
  ASSUME Types, NEW id \in DOMAIN sync.imported
  PROVE  /\ id \in Ids /\ Base(id) \in BaseOf
         /\ Base(id).message \in Nat /\ Base(id).text \in Texts /\ Base(id).disp \in States
<1>1. id \in Ids /\ Base(id) \in BaseOf
  BY StateIs, FunctionsAre DEF Bases, Base
<1> QED  BY <1>1 DEF BaseOf

LEMMA CommentsAre ==
  ASSUME Types, NEW c \in Comments
  PROVE  c \in Comment /\ \E i \in DOMAIN ui.comments : c = ui.comments[i]
<1>1. ui.comments \in Seq(Comment) /\ \E i \in DOMAIN ui.comments : c = ui.comments[i]
  BY StateIs DEF Comments, ToSet
<1> QED  BY <1>1

(* What a comment becomes that is merged. *)
MergeOf(r, c, merged) ==
    /\ Imported(c.id) => There(r, Base(c.id).message)
    /\ merged = IF Imported(c.id)
                THEN [c EXCEPT !.text = Field(Base(c.id).text, @, r.messages[Base(c.id).message].body),
                               !.disp = Field(Base(c.id).disp, @, DispositionOf(r, Base(c.id).message))]
                ELSE c

LEMMA MergeOfIs ==
  ASSUME Types, NEW r \in Reviews, Sound(r),
         \A id \in DOMAIN sync.imported : Base(id).message \in DOMAIN r.messages,
         NEW c \in Comments, NEW merged, MergeOf(r, c, merged)
  PROVE  /\ merged \in Comment /\ merged.id = c.id /\ merged.at = c.at /\ merged.basis = c.basis
         /\ merged.text = IF Imported(c.id)
                          THEN Field(Base(c.id).text, c.text, r.messages[Base(c.id).message].body)
                          ELSE c.text
<1>1. c \in Comment
  BY CommentsAre
<1>2. CASE ~Imported(c.id)
  <2>1. merged = c
    BY <1>2 DEF MergeOf
  <2> QED  BY <1>1, <1>2, <2>1
<1>3. CASE Imported(c.id)
  <2> DEFINE text == Field(Base(c.id).text, c.text, r.messages[Base(c.id).message].body)
             disp == Field(Base(c.id).disp, c.disp, DispositionOf(r, Base(c.id).message))
  <2>1. Base(c.id).message \in DOMAIN r.messages
    BY <1>3 DEF Imported
  <2>2. r.messages[Base(c.id).message] \in Message /\ DispositionOf(r, Base(c.id).message) \in States
    BY <2>1, RecordIs
  <2>3. r.messages[Base(c.id).message].body \in Texts
    BY <2>2 DEF Message
  <2>4. c.text \in Texts /\ c.disp \in States
    BY <1>1 DEF Comment
  <2>5. text \in Texts /\ disp \in States
    BY <2>2, <2>3, <2>4 DEF Field
  <2>6. merged = [c EXCEPT !.text = text, !.disp = disp]
    BY <1>3 DEF MergeOf
  <2> HIDE DEF text, disp
  <2>7. merged \in Comment /\ merged.id = c.id /\ merged.at = c.at /\ merged.basis = c.basis
        /\ merged.text = text
    BY <1>1, <2>5, <2>6 DEF Comment
  <2> QED  BY <1>3, <2>7 DEF text
<1> QED  BY <1>2, <1>3

LEMMA MergedAre ==
  ASSUME Types, NEW r \in Reviews, Sound(r),
         \A id \in DOMAIN sync.imported : Base(id).message \in DOMAIN r.messages
  PROVE  /\ Merged(r) \in Seq(Comment)
         /\ \A merged \in ToSet(Merged(r)) : \E c \in Comments : MergeOf(r, c, merged)
         /\ \A c \in Comments :
               (Imported(c.id) => There(r, Base(c.id).message))
                  => \E merged \in ToSet(Merged(r)) : MergeOf(r, c, merged)
<1> DEFINE K == {c \in Comments : Imported(c.id) => There(r, Base(c.id).message)}
           merge(c) == IF ~Imported(c.id) THEN c
                       ELSE [c EXCEPT !.text = Field(Base(c.id).text, @, r.messages[Base(c.id).message].body),
                                      !.disp = Field(Base(c.id).disp, @, DispositionOf(r, Base(c.id).message))]
           list == Keep(ui.comments, K)
           t == [i \in DOMAIN list |-> merge(list[i])]
<1>1. Merged(r) = t
  BY Zenon DEF Merged
<1>2. list \in Seq(Comment) /\ ToSet(list) = K
  <2>1. ui.comments \in Seq(Comment)
    BY StateIs
  <2>2. list \in Seq(Comment) /\ ToSet(list) = ToSet(ui.comments) \cap K
    BY <2>1, KeepIs
  <2> QED  BY <2>2 DEF Comments
<1> HIDE DEF list
<1>3. \A i \in DOMAIN list : list[i] \in K
  BY <1>2 DEF ToSet
<1>4. \A c \in K : c \in Comments /\ MergeOf(r, c, merge(c))
  BY DEF MergeOf
<1> HIDE DEF merge
<1>5. \A i \in DOMAIN list : MergeOf(r, list[i], t[i]) /\ t[i] \in Comment
  <2> SUFFICES ASSUME NEW i \in DOMAIN list
               PROVE  MergeOf(r, list[i], t[i]) /\ t[i] \in Comment
    OBVIOUS
  <2>1. t[i] = merge(list[i]) /\ list[i] \in Comments
    BY <1>3, <1>4
  <2>2. MergeOf(r, list[i], t[i])
    BY <1>3, <1>4, <2>1
  <2> QED  BY <2>1, <2>2, MergeOfIs
<1>6. t \in [DOMAIN list -> Comment]
  BY <1>5
<1> HIDE DEF t
<1>7. t \in Seq(Comment) /\ ToSet(t) = {t[i] : i \in DOMAIN list}
  <2>1. list \in Seq(Comment)
    BY <1>2
  <2> QED  BY <1>6, <2>1, MapIs
<1>8. ASSUME NEW merged \in ToSet(t)
      PROVE  \E c \in Comments : MergeOf(r, c, merged)
  <2>1. PICK i \in DOMAIN list : merged = t[i]
    BY <1>7
  <2> QED  BY <1>3, <1>4, <1>5, <2>1
<1>9. ASSUME NEW c \in Comments, Imported(c.id) => There(r, Base(c.id).message)
      PROVE  \E merged \in ToSet(t) : MergeOf(r, c, merged)
  <2>1. c \in K
    BY <1>9
  <2>2. PICK i \in DOMAIN list : c = list[i]
    BY <1>2, <2>1 DEF ToSet
  <2>3. t[i] \in ToSet(t)
    BY <1>7
  <2> QED  BY <1>5, <2>2, <2>3
<1> QED  BY <1>1, <1>7, <1>8, <1>9

(* An import starts from what is merged. *)
LEMMA MetIs ==
  ASSUME Types, CommentsInv, NEW r \in Reviews, Sound(r), ~ImportConflicts(r),
         \A id \in DOMAIN sync.imported : Base(id).message \in DOMAIN r.messages
  PROVE  ImportIs(r, Met(r)) /\ Met(r).left = Unmet(r)
<1> DEFINE S == Met(r)
           met == {id \in DOMAIN sync.imported : There(r, Base(id).message)}
<1>1. /\ S.left = Unmet(r) /\ S.next = sync.nextUi /\ S.ids = CurrentIds /\ S.comments = Merged(r)
      /\ S.imported = [id \in met |-> Baseline(r, Base(id).message)]
  BY DEF Met
<1> HIDE DEF S
<1>2. S.left \subseteq DOMAIN r.messages /\ IsFiniteSet(S.left) /\ S.next \in Nat
  <2>1. Unmet(r) \in SUBSET (DOMAIN r.messages)
    BY DEF Unmet
  <2>2. IsFiniteSet(Unmet(r))
    BY <2>1, MessagesAreFinite
  <2> QED  BY <1>1, <2>1, <2>2, StateIs
<1>3. S.ids \subseteq Ids /\ IsFiniteSet(S.ids)
  BY <1>1, StateIs, IdsAreFinite DEF CurrentIds, Comments
<1>4. S.comments \in Seq(Comment)
  BY <1>1, MergedAre
<1>5. \A merged \in ToSet(S.comments) : \E c \in Comments : MergeOf(r, c, merged)
  BY <1>1, MergedAre
<1>6. \A c \in Comments : (Imported(c.id) => There(r, Base(c.id).message))
                             => \E merged \in ToSet(S.comments) : MergeOf(r, c, merged)
  BY <1>1, MergedAre
<1>7. IdsOf(S) \subseteq S.ids
  <2> SUFFICES ASSUME NEW merged \in ToSet(S.comments) PROVE merged.id \in S.ids
    BY DEF IdsOf
  <2>1. PICK c \in Comments : MergeOf(r, c, merged)
    BY <1>5
  <2>2. merged.id = c.id
    BY <2>1, MergeOfIs
  <2> QED  BY <1>1, <2>2 DEF CurrentIds
<1>8. ASSUME NEW a \in ToSet(S.comments), NEW b \in ToSet(S.comments), a.id = b.id
      PROVE  a = b
  <2>1. PICK c \in Comments : MergeOf(r, c, a)
    BY <1>5
  <2>2. PICK d \in Comments : MergeOf(r, d, b)
    BY <1>5
  <2>3. a.id = c.id
    BY <2>1, MergeOfIs
  <2>4. b.id = d.id
    BY <2>2, MergeOfIs
  <2>5. c = d
    BY <1>8, <2>3, <2>4 DEF CommentsInv, OneEach
  <2> QED  BY <2>1, <2>2, <2>5 DEF MergeOf
<1>9. /\ DOMAIN S.imported = met
      /\ \A id \in met : S.imported[id] = Baseline(r, Base(id).message)
  BY <1>1
<1>10. \A id \in met : /\ id \in DOMAIN sync.imported /\ Base(id).message \in DOMAIN r.messages
                       /\ There(r, Base(id).message)
  OBVIOUS
<1>11. \A id \in DOMAIN S.imported :
         /\ S.imported[id] \in BaseOf /\ S.imported[id].message = Base(id).message
         /\ S.imported[id].text = r.messages[Base(id).message].body
  BY <1>9, <1>10, BaselineIs
<1>12. S.imported \in Bases
  <2>1. S.imported \in [met -> BaseOf]
    BY <1>1, <1>9, <1>11
  <2>2. met \in SUBSET Ids
    BY BasesAre
  <2> QED  BY <2>1, <2>2, FunctionsHold DEF Bases
<1>13. ASSUME NEW id \in DOMAIN S.imported \ IdsOf(S)
       PROVE  S.imported[id].message \in discarded
  <2>1. id \in DOMAIN sync.imported /\ There(r, Base(id).message) /\ S.imported[id].message = Base(id).message
    BY <1>9, <1>10, <1>11
  <2>2. id \notin CurrentIds
    <3> SUFFICES ASSUME id \in CurrentIds PROVE FALSE
      OBVIOUS
    <3>1. PICK c \in Comments : c.id = id
      BY DEF CurrentIds
    <3>2. PICK merged \in ToSet(S.comments) : MergeOf(r, c, merged)
      BY <1>6, <2>1, <3>1
    <3>3. merged.id = id
      BY <3>1, <3>2, MergeOfIs
    <3> QED  BY <3>2, <3>3 DEF IdsOf
  <2> QED  BY <2>1, <2>2 DEF CommentsInv, GoneAreDiscarded
<1>14. TextsSeen(S)
  <2> SUFFICES ASSUME NEW merged \in ToSet(S.comments), merged.id \in DOMAIN S.imported
               PROVE  \/ merged.text = S.imported[merged.id].text
                      \/ Knows(merged.basis, S.imported[merged.id].text)
                      \/ S.imported[merged.id].message \in discarded
    BY DEF TextsSeen
  <2>1. PICK c \in Comments : MergeOf(r, c, merged)
    BY <1>5
  <2>2. merged.id = c.id /\ merged.basis = c.basis
    BY <2>1, MergeOfIs
  <2>3. Imported(c.id) /\ There(r, Base(c.id).message)
    BY <1>9, <1>10, <2>2 DEF Imported
  <2> DEFINE base == Base(c.id).text
             remote == r.messages[Base(c.id).message].body
  <2>4. merged.text = Field(base, c.text, remote)
    BY <2>1, <2>3, MergeOfIs
  <2>5. S.imported[merged.id].text = remote /\ S.imported[merged.id].message = Base(c.id).message
    BY <1>11, <2>2
  <2>6. ~Clash(base, c.text, remote)
    BY <2>3 DEF ImportConflicts, CommentConflicts
  <2>7. c.text = base \/ Knows(c.basis, base) \/ Base(c.id).message \in discarded
    BY <2>3 DEF CommentsInv, WritersSaw
  <2> HIDE DEF base, remote
  <2> QED  BY <2>2, <2>4, <2>5, <2>6, <2>7 DEF Field, Clash
<1>15. \A id \in DOMAIN S.imported :
          /\ S.imported[id].message \in DOMAIN r.messages
          /\ S.imported[id].text = r.messages[S.imported[id].message].body
  BY <1>9, <1>10, <1>11
<1>16. BasesSeen(S)
  <2> SUFFICES ASSUME NEW c \in Comments, NEW d \in ToSet(S.comments),
                      c.id = d.id, c.text = d.text, d.id \in DOMAIN S.imported
               PROVE  /\ Imported(c.id) /\ S.imported[d.id].message = Base(c.id).message
                      /\ S.imported[d.id].text \in {Base(c.id).text, c.text}
    BY DEF BasesSeen
  <2>1. PICK merging \in Comments : MergeOf(r, merging, d)
    BY <1>5
  <2>2. merging = c
    <3>1. merging.id = c.id
      BY <2>1, MergeOfIs
    <3> QED  BY <3>1 DEF CommentsInv, OneEach
  <2>3. Imported(c.id) /\ There(r, Base(c.id).message)
    BY <1>9, <1>10 DEF Imported
  <2> DEFINE base == Base(c.id).text
             remote == r.messages[Base(c.id).message].body
  <2>4. c.text = Field(base, c.text, remote)
    BY <2>1, <2>2, <2>3, MergeOfIs
  <2>5. S.imported[d.id].text = remote /\ S.imported[d.id].message = Base(c.id).message
    BY <1>11
  <2>6. ~Clash(base, c.text, remote)
    BY <2>3 DEF ImportConflicts, CommentConflicts
  <2>7. remote \in {base, c.text}
    <3> HIDE DEF base, remote
    <3> QED  BY <2>4, <2>6 DEF Field, Clash
  <2> QED  BY <2>3, <2>5, <2>7
<1>17. CurrentIds \subseteq S.ids
  BY <1>1
<1>18. ImportIs(r, S)
  BY <1>2, <1>3, <1>4, <1>7, <1>8, <1>12, <1>13, <1>14, <1>15, <1>16, <1>17 DEF ImportIs
<1> QED  BY <1>1, <1>18 DEF S

(* The messages are adopted one after the other. *)
Steps == [left: SUBSET Nat, next: Nat, ids: SUBSET Ids, comments: Seq(Comment), imported: Bases]
Adopted(r, f, n) == f[0] = Met(r) /\ \A k \in 1..n : f[k] = Adopt(r, f[k - 1])
AllGood(r, f, n) ==
    \A k \in 0..n : ImportIs(r, f[k]) /\ Cardinality(f[k].left) = Cardinality(Unmet(r)) - k

LEMMA StepsHold ==
  ASSUME NEW r \in Reviews, Sound(r)
  PROVE  /\ ImportIs(r, Met(r)) => Met(r) \in Steps
         /\ \A S : ImportIs(r, Adopt(r, S)) => Adopt(r, S) \in Steps
<1>1. \A L : L \subseteq DOMAIN r.messages => L \subseteq Nat
  BY RecordIs, FunctionsAre
<1>2. ASSUME NEW S, ImportIs(r, S),
             S = [left |-> S.left, next |-> S.next, ids |-> S.ids, comments |-> S.comments,
                  imported |-> S.imported]
      PROVE  S \in Steps
  <2>1. /\ S.left \in SUBSET Nat /\ S.next \in Nat /\ S.ids \in SUBSET Ids
        /\ S.comments \in Seq(Comment) /\ S.imported \in Bases
    BY <1>1, <1>2 DEF ImportIs
  <2> QED  BY <1>2, <2>1 DEF Steps
<1>3. ASSUME ImportIs(r, Met(r)) PROVE Met(r) \in Steps
  <2> DEFINE S == Met(r)
  <2>1. S = [left |-> S.left, next |-> S.next, ids |-> S.ids, comments |-> S.comments,
             imported |-> S.imported]
    BY DEF Met
  <2> HIDE DEF S
  <2>2. ImportIs(r, S)
    BY <1>3 DEF S
  <2> QED  BY <1>2, <2>1, <2>2 DEF S
<1>4. ASSUME NEW T, ImportIs(r, Adopt(r, T)) PROVE Adopt(r, T) \in Steps
  <2> DEFINE S == Adopt(r, T)
  <2>1. S = [left |-> S.left, next |-> S.next, ids |-> S.ids, comments |-> S.comments,
             imported |-> S.imported]
    BY DEF Adopt
  <2> HIDE DEF S
  <2>2. ImportIs(r, S)
    BY <1>4 DEF S
  <2> QED  BY <1>2, <2>1, <2>2 DEF S
<1> QED  BY <1>3, <1>4

LEMMA AdoptedExists ==
  ASSUME NEW r \in Reviews, Sound(r), ImportIs(r, Met(r)), Met(r).left = Unmet(r),
         NEW u \in Nat, u = Cardinality(Unmet(r))
  PROVE  \E f \in [0..u -> Steps] : Adopted(r, f, u) /\ AllGood(r, f, u)
<1> DEFINE Exists(n) == \E f \in [0..n -> Steps] : Adopted(r, f, n) /\ AllGood(r, f, n)
           Bad == {n \in 0..u : ~Exists(n)}
<1> HIDE DEF Exists
<1>1. Bad = {}
  <2> SUFFICES ASSUME Bad # {} PROVE FALSE
    OBVIOUS
  <2>1. Bad \in SUBSET Nat
    OBVIOUS
  <2> HIDE DEF Bad
  <2>2. PICK n \in Bad : \A m \in Bad : n <= m
    BY <2>1, LeastNumber
  <2>3. n \in 0..u /\ ~Exists(n)
    BY <2>2 DEF Bad
  <2>4. CASE n = 0
    <3> DEFINE f == [k \in 0..0 |-> Met(r)]
    <3>1. Met(r) \in Steps
      BY StepsHold
    <3>2. f \in [0..0 -> Steps] /\ f[0] = Met(r)
      BY <3>1
    <3> HIDE DEF f
    <3>3. Adopted(r, f, 0)
      BY <3>2 DEF Adopted
    <3>4. AllGood(r, f, 0)
      BY <3>2 DEF AllGood
    <3> QED  BY <2>3, <2>4, <3>2, <3>3, <3>4 DEF Exists
  <2>5. CASE n # 0
    <3>1. n \in 1..u /\ n - 1 \in 0..u /\ n - 1 \notin Bad
      BY <2>2, <2>3, <2>5
    <3>2. PICK f \in [0..(n - 1) -> Steps] : Adopted(r, f, n - 1) /\ AllGood(r, f, n - 1)
      BY <3>1 DEF Bad, Exists
    <3> DEFINE S == f[n - 1]
               T == Adopt(r, S)
    <3>3. ImportIs(r, S) /\ Cardinality(S.left) = u - (n - 1)
      BY <3>1, <3>2 DEF AllGood
    <3> HIDE DEF S
    <3>4. IsFiniteSet(S.left) /\ S.left # {}
      <4>1. IsFiniteSet(S.left)
        BY <3>3 DEF ImportIs
      <4>2. Cardinality(S.left) # 0
        BY <3>1, <3>3
      <4> QED  BY <4>1, <4>2, FS_EmptySet
    <3>5. ImportIs(r, T) /\ \E m \in S.left : T.left = S.left \ {m}
      BY <3>3, <3>4, AdoptIs
    <3>6. Cardinality(T.left) = u - n
      <4>1. PICK m \in S.left : T.left = S.left \ {m}
        BY <3>5
      <4>2. Cardinality(S.left \ {m}) = Cardinality(S.left) - 1
        BY <3>4, FS_RemoveElement
      <4> QED  BY <3>1, <3>3, <4>1, <4>2
    <3>7. T \in Steps
      BY <3>5, StepsHold
    <3> HIDE DEF T
    <3> DEFINE g == [k \in 0..n |-> IF k = n THEN T ELSE f[k]]
    <3>8. \A k \in 0..n : k # n => k \in 0..(n - 1)
      BY <2>3
    <3>9. g \in [0..n -> Steps]
      BY <3>7, <3>8
    <3>10. g[n] = T /\ \A k \in 0..(n - 1) : g[k] = f[k]
      BY <3>1
    <3> HIDE DEF g
    <3>11. Adopted(r, g, n)
      <4>1. g[0] = Met(r)
        <5>1. 0 \in 0..(n - 1)
          BY <3>1
        <5> QED  BY <3>2, <3>10, <5>1 DEF Adopted
      <4>2. ASSUME NEW k \in 1..n PROVE g[k] = Adopt(r, g[k - 1])
        <5>1. g[k - 1] = f[k - 1]
          <6>1. k - 1 \in 0..(n - 1)
            BY <3>1
          <6> QED  BY <3>10, <6>1
        <5>2. CASE k = n
          BY <3>10, <5>1, <5>2 DEF S, T
        <5>3. CASE k # n
          <6>1. k \in 1..(n - 1) /\ k \in 0..(n - 1)
            BY <3>1, <5>3
          <6> QED  BY <3>2, <3>10, <5>1, <6>1 DEF Adopted
        <5> QED  BY <5>2, <5>3
      <4> QED  BY <4>1, <4>2 DEF Adopted
    <3>12. AllGood(r, g, n)
      <4> SUFFICES ASSUME NEW k \in 0..n
                   PROVE  ImportIs(r, g[k]) /\ Cardinality(g[k].left) = u - k
        BY DEF AllGood
      <4>1. CASE k = n
        BY <3>5, <3>6, <3>10, <4>1
      <4>2. CASE k # n
        BY <3>2, <3>8, <3>10, <4>2 DEF AllGood
      <4> QED  BY <4>1, <4>2
    <3>13. Exists(n)
      BY <3>9, <3>11, <3>12 DEF Exists
    <3> QED  BY <2>3, <3>13
  <2> QED  BY <2>4, <2>5
<1>2. Exists(u)
  BY <1>1
<1> QED  BY <1>2 DEF Exists

(* What an import leaves. *)
LEMMA ImportHolds ==
  ASSUME Types, CommentsInv, NEW r \in Reviews, Sound(r), ~ImportConflicts(r),
         \A id \in DOMAIN sync.imported : Base(id).message \in DOMAIN r.messages
  PROVE  ImportIs(r, Import(r))
<1> DEFINE u == Cardinality(Unmet(r))
           adopted[n \in 0..u] == IF n = 0 THEN Met(r) ELSE Adopt(r, adopted[n - 1])
<1>1. Import(r) = adopted[u]
  BY DEF Import
<1>2. ImportIs(r, Met(r)) /\ Met(r).left = Unmet(r)
  BY MetIs
<1>3. u \in Nat
  <2>1. IsFiniteSet(Unmet(r))
    BY <1>2 DEF ImportIs
  <2> QED  BY <2>1, FS_CardinalityType
<1>4. PICK f \in [0..u -> Steps] : Adopted(r, f, u) /\ AllGood(r, f, u)
  BY <1>2, <1>3, AdoptedExists
<1>5. f = [n \in 0..u |-> IF n = 0 THEN Met(r) ELSE Adopt(r, f[n - 1])]
  <2>1. f[0] = Met(r)
    BY <1>4 DEF Adopted
  <2>2. ASSUME NEW k \in 0..u, k # 0 PROVE f[k] = Adopt(r, f[k - 1])
    <3>1. k \in 1..u
      BY <1>3, <2>2
    <3> QED  BY <1>4, <3>1 DEF Adopted
  <2>3. f = [k \in 0..u |-> f[k]]
    OBVIOUS
  <2> QED  BY <2>1, <2>2, <2>3, Zenon
<1>6. adopted = [n \in 0..u |-> IF n = 0 THEN Met(r) ELSE Adopt(r, adopted[n - 1])]
  BY <1>5
<1> HIDE DEF adopted, u
<1>7. adopted[0] = Met(r)
  BY <1>3, <1>6
<1>8. ASSUME NEW k \in 1..u PROVE adopted[k] = Adopt(r, adopted[k - 1])
  <2>1. k \in 0..u /\ k # 0
    BY <1>3
  <2> QED  BY <1>6, <2>1
<1> DEFINE Bad == {k \in 0..u : adopted[k] # f[k]}
<1>9. Bad = {}
  <2> SUFFICES ASSUME Bad # {} PROVE FALSE
    OBVIOUS
  <2>1. Bad \in SUBSET Nat
    BY <1>3
  <2> HIDE DEF Bad
  <2>2. PICK k \in Bad : \A j \in Bad : k <= j
    BY <2>1, LeastNumber
  <2>3. k \in 0..u /\ adopted[k] # f[k]
    BY <2>2 DEF Bad
  <2>4. k # 0
    BY <1>4, <1>7, <2>3 DEF Adopted
  <2>5. k \in 1..u /\ k - 1 \in 0..u /\ k - 1 \notin Bad
    BY <1>3, <2>2, <2>3, <2>4
  <2>6. adopted[k - 1] = f[k - 1]
    BY <2>5 DEF Bad
  <2> QED  BY <1>4, <1>8, <2>3, <2>5, <2>6 DEF Adopted
<1>10. adopted[u] = f[u]
  BY <1>3, <1>9
<1>11. ImportIs(r, f[u])
  BY <1>3, <1>4 DEF AllGood
<1> QED  BY <1>1, <1>10, <1>11 DEF u

(* ------------------------------ the reader ------------------------------ *)
(* What a scenario has for the reader. *)
LEMMA ScenarioIs ==
  ASSUME Types
  PROVE  /\ Anchor \subseteq Lines /\ Body \subseteq Texts /\ Disposition \subseteq States
         /\ File \subseteq Files /\ "open" \in States /\ RemoteOrigin \subseteq Origins
<1>1. used.of \in Scenarios
  BY DEF Types
<1>2. "open" \in used.of.dispositions /\ RemoteOrigin \subseteq Origins
  BY <1>1, ViewAssumption DEF Origins
<1>3. used.of.dispositions \subseteq States
  BY <1>1 DEF States
<1>4. used.of.anchors \subseteq Lines
  BY <1>1 DEF Lines
<1>5. used.of.bodies \subseteq Texts
  BY <1>1 DEF Texts
<1>6. used.of.files \subseteq Files
  BY <1>1 DEF Files
<1> QED  BY <1>2, <1>3, <1>4, <1>5, <1>6 DEF Anchor, Body, Disposition, File

(* The last comment of a human among those of a line. *)
LEMMA LastHumanOf ==
  ASSUME NEW C, NEW s \in Seq(C), NEW a, HumansIn(s, a) # {}
  PROVE  s[Max(HumansIn(s, a))] \in ToSet(s)
<1>1. Len(s) \in Nat /\ DOMAIN s = 1..Len(s)
  OBVIOUS
<1>2. HumansIn(s, a) \in SUBSET (1..Len(s))
  BY <1>1 DEF HumansIn, ShownIn
<1>3. Max(HumansIn(s, a)) \in HumansIn(s, a)
  BY <1>1, <1>2, LastPosition
<1>4. Max(HumansIn(s, a)) \in DOMAIN s
  BY <1>1, <1>2, <1>3
<1> QED  BY <1>4 DEF ToSet

LEMMA LastHumanIs ==
  ASSUME Types, NEW a, HumansAt(a) # {}
  PROVE  LastHumanAt(a) \in Comments
BY StateIs, LastHumanOf DEF HumansAt, LastHumanAt, Comments

LEMMA BasisIs ==
  ASSUME Types, NEW c \in Comments
  PROVE  BasisOf(c) \subseteq Shown
<1>1. c.text \in Texts /\ c.basis \subseteq Shown
  BY CommentsAre DEF Comment
<1> QED  BY <1>1 DEF BasisOf, Shown

(* Who begins to write on a comment knows its text and the one it replaces. *)
LEMMA BasisKnows ==
  ASSUME CommentsInv, NEW c \in Comments
  PROVE  /\ Knows(BasisOf(c), c.text)
         /\ Imported(c.id) => Knows(BasisOf(c), Base(c.id).text) \/ Base(c.id).message \in discarded
<1>1. Imported(c.id) => c.text = Base(c.id).text \/ Knows(c.basis, Base(c.id).text)
                           \/ Base(c.id).message \in discarded
  BY DEF CommentsInv, WritersSaw
<1> QED  BY <1>1 DEF BasisOf, Knows

(* An event of the reader leaves what is known of the store. *)
LEMMA TakingKeepsStore ==
  ASSUME StoreInv, Taking
  PROVE  StoreInv'
<1>1. review' = review /\ sync' = sync /\ at' = at /\ step' = step /\ at = "events"
  BY DEF Taking
<1>2. BasesAreThere' /\ RecordIsOld'
  BY <1>1 DEF StoreInv, BasesAreThere, RecordIsOld, TextsAreOf, Base
<1>3. RequestsAreOld'
  BY <1>1 DEF StoreInv, RequestsAreOld, Answers
<1>4. ReplyIsKnown'
  BY <1>1 DEF ReplyIsKnown
<1> QED  BY <1>2, <1>3, <1>4 DEF StoreInv

(* The comments of the reader stay. *)
LEMMA CommentsFrame ==
  ASSUME CommentsInv, ui'.comments = ui.comments, ui'.nextId = ui.nextId,
         sync'.imported = sync.imported, discarded' = discarded
  PROVE  CommentsInv'
BY DEF CommentsInv, OneEach, Numbered, GoneAreDiscarded, WritersSaw, Comments, CurrentIds, Imported, Base

LEMMA DraftFrame ==
  ASSUME DraftIsOfNow, ui'.comments = ui.comments, ui'.draft = ui.draft,
         sync'.imported = sync.imported, discarded' = discarded
  PROVE  DraftIsOfNow'
<1>1. \A a : HumansAt(a)' = HumansAt(a)
  BY DEF HumansAt, HumansIn, ShownIn
<1>2. HumansAt(ui.draft.at)' = HumansAt(ui.draft.at) /\ LastHumanAt(ui.draft.at)' = LastHumanAt(ui.draft.at)
  BY <1>1 DEF LastHumanAt
<1>3. \A id : (Imported(id)' <=> Imported(id)) /\ Base(id)' = Base(id)
  BY DEF Imported, Base
<1> QED  BY <1>2, <1>3 DEF DraftIsOfNow

LEMMA NoDraftFrame ==
  ASSUME ui'.draft = NoDraft
  PROVE  DraftIsOfNow'
BY DEF DraftIsOfNow, NoDraft

(* What a view is made of when the reader has acted. *)
LEMMA ReaderTypes ==
  ASSUME Types, Taking, used' = used \/ used' = [used EXCEPT !.events = @ + 1],
         ui' = [comments |-> ui'.comments, nextId |-> ui'.nextId, marks |-> ui'.marks,
                draft |-> ui'.draft, dirty |-> ui'.dirty],
         ui'.comments \in Seq(Comment), ui'.nextId \in Nat, ui'.marks \in SUBSET Files,
         ui'.draft \in Draft, ui'.dirty \in BOOLEAN
  PROVE  Types'
<1>1. review' = review /\ sync' = sync /\ at' = at
  BY DEF Taking
<1>2. ui' \in [comments: Seq(Comment), nextId: Nat, marks: SUBSET Files, draft: Draft, dirty: BOOLEAN]
  OBVIOUS
<1>3. used' \in [of: Scenarios, events: Nat, remote: Nat, failures: Nat]
  <2>1. used \in [of: Scenarios, events: Nat, remote: Nat, failures: Nat]
    BY DEF Types
  <2>2. CASE used' = used
    BY <2>1, <2>2
  <2>3. CASE used' = [used EXCEPT !.events = @ + 1]
    BY <2>1, <2>3
  <2> QED  BY <2>2, <2>3
<1> QED  BY <1>1, <1>2, <1>3 DEF Types

LEMMA OpenDraftStep ==
  ASSUME Types, SyncInv, NEW a \in Anchor, OpenDraft(a)
  PROVE  Types' /\ SyncInv'
<1> DEFINE basis == IF HumansAt(a) = {} THEN {} ELSE BasisOf(LastHumanAt(a))
           draft == [at |-> a, basis |-> basis]
<1>1. /\ Taking /\ used' = used /\ discarded' = discarded
      /\ ui' = [ui EXCEPT !.dirty = TRUE, !.draft = draft]
  BY DEF OpenDraft
<1>2. basis \subseteq Shown
  BY LastHumanIs, BasisIs
<1>3. draft \in Draft
  BY <1>2, ScenarioIs DEF Draft
<1> HIDE DEF draft
<1>4. ui' = [comments |-> ui.comments, nextId |-> ui.nextId, marks |-> ui.marks,
             draft |-> draft, dirty |-> TRUE]
  BY <1>1, StateIs
<1>5. Types'
  BY <1>1, <1>3, <1>4, StateIs, ReaderTypes
<1>6. ui'.comments = ui.comments /\ ui'.nextId = ui.nextId /\ ui'.draft = draft
  BY <1>4
<1>7. sync' = sync /\ at' = "events"
  BY <1>1 DEF Taking
<1>8. CommentsInv'
  BY <1>1, <1>6, <1>7, CommentsFrame DEF SyncInv
<1>9. DraftIsOfNow'
  <2>1. ui'.draft.at = a /\ ui'.draft.basis = basis
    BY <1>6 DEF draft
  <2> HIDE DEF basis
  <2>2. HumansAt(ui.draft.at)' = HumansAt(a)
    BY <1>6, <2>1 DEF HumansAt, HumansIn, ShownIn
  <2>3. LastHumanAt(ui.draft.at)' = LastHumanAt(a)
    BY <1>6, <2>2 DEF LastHumanAt
  <2>4. ASSUME HumansAt(a) # {}
        PROVE  LET c == LastHumanAt(a)
               IN  /\ Knows(basis, c.text)
                   /\ Imported(c.id) => Knows(basis, Base(c.id).text) \/ Base(c.id).message \in discarded
    <3>1. LastHumanAt(a) \in Comments /\ basis = BasisOf(LastHumanAt(a))
      BY <2>4, LastHumanIs DEF basis
    <3> QED  BY <3>1, BasisKnows DEF SyncInv
  <2> QED  BY <1>1, <1>7, <2>1, <2>2, <2>3, <2>4 DEF DraftIsOfNow, Imported, Base
<1>10. StoreInv'
  BY <1>1, TakingKeepsStore DEF SyncInv
<1> QED  BY <1>5, <1>8, <1>9, <1>10 DEF SyncInv

(* Some comments are removed. *)
LEMMA DiscardIs ==
  ASSUME Types, CommentsInv, Taking, NEW gone \in SUBSET Comments, Discard(gone)
  PROVE  /\ ui'.comments \in Seq(Comment) /\ CommentsInv' /\ DraftIsOfNow'
         /\ ui' = [comments |-> ui'.comments, nextId |-> ui.nextId, marks |-> ui.marks,
                   draft |-> NoDraft, dirty |-> TRUE]
<1> DEFINE list == Keep(ui.comments, Comments \ gone)
<1>1. ui' = [comments |-> list, nextId |-> ui.nextId, marks |-> ui.marks, draft |-> NoDraft, dirty |-> TRUE]
  BY StateIs DEF Discard
<1>2. ui.comments \in Seq(Comment)
  BY StateIs
<1>3. list \in Seq(Comment) /\ ToSet(list) = ToSet(ui.comments) \cap (Comments \ gone)
  BY <1>2, KeepIs
<1> HIDE DEF list
<1>4. ui'.comments = list /\ ui'.nextId = ui.nextId /\ ui'.draft = NoDraft
  BY <1>1
<1>5. Comments' = Comments \ gone
  BY <1>3, <1>4 DEF Comments
<1>6. sync' = sync
  BY DEF Taking
<1>7. discarded' = discarded \cup {Base(c.id).message : c \in {d \in gone : Imported(d.id)}}
  BY DEF Discard
<1>8. OneEach' /\ Numbered'
  BY <1>4, <1>5 DEF CommentsInv, OneEach, Numbered
<1>9. ASSUME NEW id \in DOMAIN sync.imported, id \notin CurrentIds'
      PROVE  Base(id).message \in discarded'
  <2>1. CASE id \in CurrentIds
    <3>1. PICK c \in Comments : c.id = id
      BY <2>1 DEF CurrentIds
    <3>2. c \in gone /\ Imported(c.id)
      BY <1>5, <1>9, <3>1 DEF CurrentIds, Imported
    <3> QED  BY <1>7, <3>1, <3>2
  <2>2. CASE id \notin CurrentIds
    BY <1>7, <2>2 DEF CommentsInv, GoneAreDiscarded
  <2> QED  BY <2>1, <2>2
<1>10. GoneAreDiscarded'
  BY <1>6, <1>9 DEF GoneAreDiscarded, Base
<1>11. WritersSaw'
  BY <1>5, <1>6, <1>7 DEF CommentsInv, WritersSaw, Imported, Base
<1>12. DraftIsOfNow'
  BY <1>4, NoDraftFrame
<1> QED  BY <1>1, <1>3, <1>4, <1>8, <1>10, <1>11, <1>12 DEF CommentsInv

LEMMA RewrittenAre ==
  ASSUME NEW s \in Seq(Comment), NEW t \in [DOMAIN s -> Comment]
  PROVE  t \in Seq(Comment) /\ ToSet(t) = {t[i] : i \in DOMAIN s}
BY MapIs

(* The comments are written anew in their places. *)
LEMMA RewrittenKeeps ==
  ASSUME Types, CommentsInv, NEW t \in [DOMAIN ui.comments -> Comment], ui'.comments = t,
         ui'.nextId = ui.nextId, sync'.imported = sync.imported, discarded' = discarded,
         \A i \in DOMAIN ui.comments : t[i].id = ui.comments[i].id,
         \A i, j \in DOMAIN ui.comments : ui.comments[i] = ui.comments[j] => t[i] = t[j],
         \A i \in DOMAIN ui.comments :
            Imported(t[i].id) =>
                \/ t[i].text = Base(t[i].id).text
                \/ Knows(t[i].basis, Base(t[i].id).text)
                \/ Base(t[i].id).message \in discarded
  PROVE  ui'.comments \in Seq(Comment) /\ CommentsInv'
<1>1. ui.comments \in Seq(Comment)
  BY StateIs
<1>2. t \in Seq(Comment) /\ ToSet(t) = {t[i] : i \in DOMAIN ui.comments}
  <2>1. PICK s \in Seq(Comment) : s = ui.comments
    BY <1>1
  <2>2. t \in [DOMAIN s -> Comment]
    BY <2>1
  <2>3. t \in Seq(Comment) /\ ToSet(t) = {t[i] : i \in DOMAIN s}
    BY <2>1, <2>2, RewrittenAre
  <2> QED  BY <2>1, <2>3
<1>3. \A c \in Comments' : \E i \in DOMAIN ui.comments : c = t[i]
  BY <1>2 DEF Comments
<1>4. \A i \in DOMAIN ui.comments : t[i] \in Comments'
  BY <1>2 DEF Comments
<1>5. \A c \in Comments : \E i \in DOMAIN ui.comments : c = ui.comments[i]
  BY CommentsAre
<1>6. \A i \in DOMAIN ui.comments : ui.comments[i] \in Comments
  BY DEF Comments, ToSet
<1>7. CurrentIds' = CurrentIds
  BY <1>3, <1>4, <1>5, <1>6 DEF CurrentIds
<1>8. OneEach'
  <2> SUFFICES ASSUME NEW c \in Comments', NEW d \in Comments', c.id = d.id PROVE c = d
    BY DEF OneEach
  <2>1. PICK i \in DOMAIN ui.comments : c = t[i]
    BY <1>3
  <2>2. PICK j \in DOMAIN ui.comments : d = t[j]
    BY <1>3
  <2>3. ui.comments[i] = ui.comments[j]
    BY <1>6, <2>1, <2>2 DEF CommentsInv, OneEach
  <2> QED  BY <2>1, <2>2, <2>3
<1>9. Numbered'
  <2> SUFFICES ASSUME NEW c \in Comments' PROVE c.id[2] <= ui'.nextId
    BY DEF Numbered
  <2>1. PICK i \in DOMAIN ui.comments : c = t[i]
    BY <1>3
  <2>2. ui.comments[i].id[2] <= ui.nextId
    BY <1>6 DEF CommentsInv, Numbered
  <2> QED  BY <2>1, <2>2
<1>10. GoneAreDiscarded'
  BY <1>7 DEF CommentsInv, GoneAreDiscarded, Base
<1>11. WritersSaw'
  <2> SUFFICES ASSUME NEW c \in Comments', Imported(c.id)'
               PROVE  (\/ c.text = Base(c.id).text
                       \/ Knows(c.basis, Base(c.id).text)
                       \/ Base(c.id).message \in discarded)'
    BY DEF WritersSaw
  <2>1. PICK i \in DOMAIN ui.comments : c = t[i]
    BY <1>3
  <2>2. Imported(t[i].id)
    BY <2>1 DEF Imported
  <2> QED  BY <2>1, <2>2 DEF Base
<1> QED  BY <1>2, <1>8, <1>9, <1>10, <1>11 DEF CommentsInv

LEMMA EventIs ==
  ASSUME Event
  PROVE  Taking /\ used' = [used EXCEPT !.events = @ + 1]
BY DEF Event

LEMMA CommitDraftStep ==
  ASSUME Types, SyncInv, NEW text \in Body, CommitDraft(text)
  PROVE  Types' /\ SyncInv'
<1> DEFINE a == ui.draft.at
           new == [id |-> <<"human", ui.nextId + 1>>, at |-> a, text |-> text,
                   disp |-> "open", basis |-> {}]
           last == LastHumanAt(a)
           written(c) == IF c.id = last.id THEN [c EXCEPT !.text = text, !.basis = ui.draft.basis] ELSE c
<1>1. Taking /\ used' = [used EXCEPT !.events = @ + 1] /\ ui.draft # NoDraft /\ discarded' = discarded
  BY EventIs DEF CommitDraft
<1>2. sync' = sync /\ at' = at
  BY <1>1 DEF Taking
<1>3. text \in Texts /\ a \in Lines /\ ui.draft.basis \subseteq Shown /\ "open" \in States
  BY <1>1, StateIs, ScenarioIs DEF Draft
<1>4. ui.comments \in Seq(Comment)
  BY StateIs
<1>5. StoreInv'
  BY <1>1, TakingKeepsStore DEF SyncInv
<1>6. CommentsInv
  BY DEF SyncInv
<1>7. CASE HumansAt(a) = {}
  <2>1. ui' = [ui EXCEPT !.comments = Append(@, new), !.nextId = @ + 1, !.draft = NoDraft, !.dirty = TRUE]
    BY <1>7, Zenon DEF CommitDraft
  <2> DEFINE id == ui.nextId + 1
  <2>2. id \in Nat /\ ui.nextId \in Nat /\ ui.nextId < id
    BY StateIs
  <2>3. new \in Comment /\ new.id = <<"human", id>> /\ new.id[2] = id
    BY <1>3, <2>2 DEF Comment, Ids, Origins
  <2> DEFINE comments == Append(ui.comments, new)
  <2>4. ui' = [comments |-> comments, nextId |-> id, marks |-> ui.marks, draft |-> NoDraft, dirty |-> TRUE]
    BY <2>1, StateIs
  <2> HIDE DEF new, id
  <2>5. comments \in Seq(Comment) /\ ToSet(comments) = ToSet(ui.comments) \cup {new}
    BY <1>4, <2>3, ToSetOfMore
  <2> HIDE DEF comments
  <2>6. /\ ui'.comments = comments /\ ui'.nextId = id /\ ui'.marks = ui.marks
        /\ ui'.draft = NoDraft /\ ui'.dirty = TRUE
    BY <2>4
  <2>7. Types'
    <3>1. NoDraft \in Draft
      BY DEF Draft
    <3> QED  BY <1>1, <2>2, <2>4, <2>5, <2>6, <3>1, StateIs, ReaderTypes
  <2>8. Comments' = Comments \cup {new}
    BY <2>5, <2>6 DEF Comments
  <2>9. \A c \in Comments : c.id # new.id
    <3> SUFFICES ASSUME NEW c \in Comments, c.id = new.id PROVE FALSE
      OBVIOUS
    <3>1. c.id[2] <= ui.nextId
      BY <1>6 DEF CommentsInv, Numbered
    <3> QED  BY <2>2, <2>3, <3>1
  <2>10. OneEach'
    BY <1>6, <2>8, <2>9 DEF CommentsInv, OneEach
  <2>11. Numbered'
    <3> SUFFICES ASSUME NEW c \in Comments' PROVE c.id[2] <= id
      BY <2>6 DEF Numbered
    <3>1. CASE c = new
      BY <2>2, <2>3, <3>1
    <3>2. CASE c # new
      <4>1. c \in Comments
        BY <2>8, <3>2
      <4>2. c \in Comment
        BY <4>1, CommentsAre
      <4>3. c.id[2] \in Nat /\ c.id[2] <= ui.nextId
        BY <1>6, <4>1, <4>2 DEF CommentsInv, Numbered, Comment, Ids
      <4> QED  BY <2>2, <4>3
    <3> QED  BY <3>1, <3>2
  <2>12. CurrentIds' = CurrentIds \cup {new.id}
    BY <2>8 DEF CurrentIds
  <2>13. GoneAreDiscarded'
    BY <1>1, <1>2, <1>6, <2>12 DEF CommentsInv, GoneAreDiscarded, Base
  <2>14. WritersSaw'
    <3> SUFFICES ASSUME NEW c \in Comments', Imported(c.id)
                 PROVE  \/ c.text = Base(c.id).text
                        \/ Knows(c.basis, Base(c.id).text)
                        \/ Base(c.id).message \in discarded
      BY <1>1, <1>2 DEF WritersSaw, Imported, Base
    <3>1. CASE c = new
      <4>1. new.id \in DOMAIN sync.imported \ CurrentIds
        BY <2>9, <3>1 DEF CurrentIds, Imported
      <4> QED  BY <1>6, <3>1, <4>1 DEF CommentsInv, GoneAreDiscarded
    <3>2. CASE c # new
      BY <1>6, <2>8, <3>2 DEF CommentsInv, WritersSaw
    <3> QED  BY <3>1, <3>2
  <2>15. DraftIsOfNow'
    BY <2>6, NoDraftFrame
  <2> QED  BY <1>5, <2>7, <2>10, <2>11, <2>13, <2>14, <2>15 DEF SyncInv, CommentsInv
<1>8. CASE HumansAt(a) # {}
  <2> DEFINE t == [i \in DOMAIN ui.comments |-> written(ui.comments[i])]
  <2>1. ui' = [ui EXCEPT !.comments = t, !.draft = NoDraft, !.dirty = TRUE]
    BY <1>8, Zenon DEF CommitDraft
  <2>2. last \in Comments
    BY <1>8, LastHumanIs
  <2>3. Imported(last.id) => Knows(ui.draft.basis, Base(last.id).text) \/ Base(last.id).message \in discarded
    BY <1>1, <1>8 DEF SyncInv, DraftIsOfNow
  <2> HIDE DEF last
  <2>4. \A i \in DOMAIN ui.comments : ui.comments[i] \in Comments /\ ui.comments[i] \in Comment
    <3>1. \A i \in DOMAIN ui.comments : ui.comments[i] \in Comments
      BY DEF Comments, ToSet
    <3> QED  BY <3>1, CommentsAre
  <2>5. \A c \in Comment : written(c) \in Comment /\ written(c).id = c.id
    BY <1>3 DEF Comment
  <2>6. \A i \in DOMAIN ui.comments : t[i] = written(ui.comments[i])
    OBVIOUS
  <2>7. ASSUME NEW i \in DOMAIN ui.comments, Imported(ui.comments[i].id)
        PROVE  \/ written(ui.comments[i]).text = Base(ui.comments[i].id).text
               \/ Knows(written(ui.comments[i]).basis, Base(ui.comments[i].id).text)
               \/ Base(ui.comments[i].id).message \in discarded
    <3> DEFINE c == ui.comments[i]
    <3>1. c \in Comments /\ c \in Comment
      BY <2>4
    <3>2. c.text = Base(c.id).text \/ Knows(c.basis, Base(c.id).text) \/ Base(c.id).message \in discarded
      BY <1>6, <2>7, <3>1 DEF CommentsInv, WritersSaw
    <3> HIDE DEF c
    <3>3. CASE c.id = last.id
      <4>1. c = last
        BY <1>6, <2>2, <3>1, <3>3 DEF CommentsInv, OneEach
      <4>2. written(c).basis = ui.draft.basis
        BY <3>1, <3>3 DEF Comment
      <4>3. Knows(ui.draft.basis, Base(c.id).text) \/ Base(c.id).message \in discarded
        BY <2>3, <2>7, <4>1 DEF c
      <4> QED  BY <4>2, <4>3 DEF c
    <3>4. CASE c.id # last.id
      BY <3>2, <3>4 DEF c
    <3> QED  BY <3>3, <3>4
  <2> HIDE DEF written
  <2>8. t \in [DOMAIN ui.comments -> Comment]
    BY <2>4, <2>5
  <2>9. \A i \in DOMAIN ui.comments : t[i].id = ui.comments[i].id
    BY <2>4, <2>5, <2>6
  <2>10. \A i, j \in DOMAIN ui.comments : ui.comments[i] = ui.comments[j] => t[i] = t[j]
    BY <2>6
  <2>11. \A i \in DOMAIN ui.comments :
            Imported(t[i].id) =>
                \/ t[i].text = Base(t[i].id).text
                \/ Knows(t[i].basis, Base(t[i].id).text)
                \/ Base(t[i].id).message \in discarded
    BY <2>6, <2>7, <2>9
  <2> HIDE DEF t
  <2>12. ui' = [comments |-> t, nextId |-> ui.nextId, marks |-> ui.marks, draft |-> NoDraft, dirty |-> TRUE]
    BY <2>1, StateIs
  <2>13. /\ ui'.comments = t /\ ui'.nextId = ui.nextId /\ ui'.marks = ui.marks
         /\ ui'.draft = NoDraft /\ ui'.dirty = TRUE
    BY <2>12
  <2>14. sync'.imported = sync.imported
    BY <1>2
  <2>15. ui'.comments \in Seq(Comment) /\ CommentsInv'
    BY <1>1, <1>6, <2>8, <2>9, <2>10, <2>11, <2>13, <2>14, RewrittenKeeps
  <2>16. Types'
    <3>1. NoDraft \in Draft
      BY DEF Draft
    <3> QED  BY <1>1, <2>12, <2>13, <2>15, <3>1, StateIs, ReaderTypes
  <2>17. DraftIsOfNow'
    BY <2>13, NoDraftFrame
  <2> QED  BY <1>5, <2>15, <2>16, <2>17 DEF SyncInv
<1> QED  BY <1>7, <1>8

LEMMA EmptyDraftStep ==
  ASSUME Types, SyncInv, EmptyDraft
  PROVE  Types' /\ SyncInv'
<1> DEFINE a == ui.draft.at
           gone == IF HumansAt(a) = {} THEN {} ELSE {LastHumanAt(a)}
<1>1. Taking /\ used' = [used EXCEPT !.events = @ + 1] /\ Discard(gone)
  BY EventIs DEF EmptyDraft
<1>2. gone \in SUBSET Comments
  BY LastHumanIs
<1> HIDE DEF gone
<1>3. /\ ui'.comments \in Seq(Comment) /\ CommentsInv' /\ DraftIsOfNow'
      /\ ui' = [comments |-> ui'.comments, nextId |-> ui.nextId, marks |-> ui.marks,
                draft |-> NoDraft, dirty |-> TRUE]
  BY <1>1, <1>2, DiscardIs DEF SyncInv
<1>4. ui'.nextId = ui.nextId /\ ui'.marks = ui.marks /\ ui'.draft = NoDraft /\ ui'.dirty = TRUE
  BY <1>3
<1>5. Types'
  <2>1. NoDraft \in Draft
    BY DEF Draft
  <2> QED  BY <1>1, <1>3, <1>4, <2>1, StateIs, ReaderTypes
<1>6. StoreInv'
  BY <1>1, TakingKeepsStore DEF SyncInv
<1> QED  BY <1>3, <1>5, <1>6 DEF SyncInv

LEMMA RemoveMarkStep ==
  ASSUME Types, SyncInv, NEW a \in Anchor, RemoveMark(a)
  PROVE  Types' /\ SyncInv'
<1> DEFINE gone == {ui.comments[i] : i \in ShownAt(a)}
<1>1. Taking /\ used' = [used EXCEPT !.events = @ + 1] /\ Discard(gone)
  BY EventIs DEF RemoveMark
<1>2. gone \in SUBSET Comments
  BY DEF ShownAt, ShownIn, Comments, ToSet
<1> HIDE DEF gone
<1>3. /\ ui'.comments \in Seq(Comment) /\ CommentsInv' /\ DraftIsOfNow'
      /\ ui' = [comments |-> ui'.comments, nextId |-> ui.nextId, marks |-> ui.marks,
                draft |-> NoDraft, dirty |-> TRUE]
  BY <1>1, <1>2, DiscardIs DEF SyncInv
<1>4. ui'.nextId = ui.nextId /\ ui'.marks = ui.marks /\ ui'.draft = NoDraft /\ ui'.dirty = TRUE
  BY <1>3
<1>5. Types'
  <2>1. NoDraft \in Draft
    BY DEF Draft
  <2> QED  BY <1>1, <1>3, <1>4, <2>1, StateIs, ReaderTypes
<1>6. StoreInv'
  BY <1>1, TakingKeepsStore DEF SyncInv
<1> QED  BY <1>3, <1>5, <1>6 DEF SyncInv

LEMMA CancelDraftStep ==
  ASSUME Types, SyncInv, CancelDraft
  PROVE  Types' /\ SyncInv'
<1>1. /\ Taking /\ used' = [used EXCEPT !.events = @ + 1] /\ discarded' = discarded
      /\ ui' = [ui EXCEPT !.draft = NoDraft, !.dirty = TRUE]
  BY EventIs DEF CancelDraft
<1>2. ui' = [comments |-> ui.comments, nextId |-> ui.nextId, marks |-> ui.marks,
             draft |-> NoDraft, dirty |-> TRUE]
  BY <1>1, StateIs
<1>3. /\ ui'.comments = ui.comments /\ ui'.nextId = ui.nextId /\ ui'.marks = ui.marks
      /\ ui'.draft = NoDraft /\ ui'.dirty = TRUE
  BY <1>2
<1>4. Types'
  <2>1. NoDraft \in Draft
    BY DEF Draft
  <2> QED  BY <1>1, <1>2, <1>3, <2>1, StateIs, ReaderTypes
<1>5. StoreInv'
  BY <1>1, TakingKeepsStore DEF SyncInv
<1>6. sync'.imported = sync.imported
  BY <1>1 DEF Taking
<1>7. CommentsInv' /\ DraftIsOfNow'
  BY <1>1, <1>3, <1>6, CommentsFrame, NoDraftFrame DEF SyncInv
<1> QED  BY <1>4, <1>5, <1>7 DEF SyncInv

LEMMA ToggleReviewedStep ==
  ASSUME Types, SyncInv, NEW f \in File, ToggleReviewed(f)
  PROVE  Types' /\ SyncInv'
<1> DEFINE marks == IF f \in ui.marks THEN ui.marks \ {f} ELSE ui.marks \cup {f}
<1>1. /\ Taking /\ used' = [used EXCEPT !.events = @ + 1] /\ discarded' = discarded
      /\ ui.draft = NoDraft /\ ui' = [ui EXCEPT !.marks = marks, !.dirty = TRUE]
  BY EventIs DEF ToggleReviewed
<1>2. marks \in SUBSET Files
  BY StateIs, ScenarioIs
<1> HIDE DEF marks
<1>3. ui' = [comments |-> ui.comments, nextId |-> ui.nextId, marks |-> marks,
             draft |-> NoDraft, dirty |-> TRUE]
  BY <1>1, StateIs
<1>4. /\ ui'.comments = ui.comments /\ ui'.nextId = ui.nextId /\ ui'.marks = marks
      /\ ui'.draft = NoDraft /\ ui'.dirty = TRUE
  BY <1>3
<1>5. Types'
  <2>1. NoDraft \in Draft
    BY DEF Draft
  <2> QED  BY <1>1, <1>2, <1>3, <1>4, <2>1, StateIs, ReaderTypes
<1>6. StoreInv'
  BY <1>1, TakingKeepsStore DEF SyncInv
<1>7. sync'.imported = sync.imported
  BY <1>1 DEF Taking
<1>8. CommentsInv' /\ DraftIsOfNow'
  BY <1>1, <1>4, <1>7, CommentsFrame, NoDraftFrame DEF SyncInv
<1> QED  BY <1>5, <1>6, <1>8 DEF SyncInv

LEMMA DisposeStep ==
  ASSUME Types, SyncInv, NEW a \in Anchor, NEW disposition \in Disposition, Dispose(a, disposition)
  PROVE  Types' /\ SyncInv'
<1> DEFINE disposed(c) == IF c.at = a /\ Visible(c) /\ ~IsHuman(c)
                          THEN [c EXCEPT !.disp = disposition] ELSE c
           t == [i \in DOMAIN ui.comments |-> disposed(ui.comments[i])]
<1>1. /\ Taking /\ used' = [used EXCEPT !.events = @ + 1] /\ discarded' = discarded
      /\ ui.draft = NoDraft
  BY EventIs DEF Dispose
<1>2. ui' = [ui EXCEPT !.comments = t, !.dirty = TRUE]
  BY Zenon DEF Dispose
<1>3. disposition \in States
  BY ScenarioIs
<1>4. \A i \in DOMAIN ui.comments : ui.comments[i] \in Comments /\ ui.comments[i] \in Comment
  <2>1. \A i \in DOMAIN ui.comments : ui.comments[i] \in Comments
    BY DEF Comments, ToSet
  <2> QED  BY <2>1, CommentsAre
<1>5. \A c \in Comment : /\ disposed(c) \in Comment /\ disposed(c).id = c.id
                         /\ disposed(c).text = c.text /\ disposed(c).basis = c.basis
  BY <1>3 DEF Comment
<1> HIDE DEF disposed
<1>6. \A i \in DOMAIN ui.comments : t[i] = disposed(ui.comments[i])
  OBVIOUS
<1>7. t \in [DOMAIN ui.comments -> Comment]
  BY <1>4, <1>5
<1>8. \A i \in DOMAIN ui.comments : t[i].id = ui.comments[i].id /\ t[i].text = ui.comments[i].text
                                    /\ t[i].basis = ui.comments[i].basis
  BY <1>4, <1>5, <1>6
<1>9. \A i, j \in DOMAIN ui.comments : ui.comments[i] = ui.comments[j] => t[i] = t[j]
  BY <1>6
<1>10. \A i \in DOMAIN ui.comments :
          Imported(t[i].id) =>
              \/ t[i].text = Base(t[i].id).text
              \/ Knows(t[i].basis, Base(t[i].id).text)
              \/ Base(t[i].id).message \in discarded
  BY <1>4, <1>8 DEF SyncInv, CommentsInv, WritersSaw
<1> HIDE DEF t
<1>11. ui' = [comments |-> t, nextId |-> ui.nextId, marks |-> ui.marks, draft |-> NoDraft, dirty |-> TRUE]
  BY <1>1, <1>2, StateIs
<1>12. /\ ui'.comments = t /\ ui'.nextId = ui.nextId /\ ui'.marks = ui.marks
       /\ ui'.draft = NoDraft /\ ui'.dirty = TRUE
  BY <1>11
<1>13. sync'.imported = sync.imported
  BY <1>1 DEF Taking
<1>14. ui'.comments \in Seq(Comment) /\ CommentsInv'
  <2>1. CommentsInv /\ \A i \in DOMAIN ui.comments : t[i].id = ui.comments[i].id
    BY <1>8 DEF SyncInv
  <2> QED  BY <1>1, <1>7, <1>9, <1>10, <1>12, <1>13, <2>1, RewrittenKeeps
<1>15. Types'
  <2>1. NoDraft \in Draft
    BY DEF Draft
  <2> QED  BY <1>1, <1>11, <1>12, <1>14, <2>1, StateIs, ReaderTypes
<1>16. StoreInv'
  BY <1>1, TakingKeepsStore DEF SyncInv
<1>17. DraftIsOfNow'
  BY <1>12, NoDraftFrame
<1> QED  BY <1>14, <1>15, <1>16, <1>17 DEF SyncInv

(* -------------------------- the turn of the loop ------------------------ *)
UsedIs(u) == u \in [of: Scenarios, events: Nat, remote: Nat, failures: Nat]

LEMMA SyncParts ==
  ASSUME Types
  PROVE  /\ sync = [imported |-> sync.imported, nextUi |-> sync.nextUi, record |-> sync.record,
                    signature |-> sync.signature, needsImport |-> sync.needsImport,
                    conflict |-> sync.conflict, pending |-> sync.pending]
         /\ sync.signature \in [comments: Seq(Comment), marks: SUBSET Files]
         /\ sync.needsImport \in BOOLEAN /\ sync.conflict \in BOOLEAN /\ sync.pending \in Pending
         /\ ui.dirty \in BOOLEAN
BY DEF Types

LEMMA FailsIs ==
  ASSUME Types, used' = used \/ Fails
  PROVE  UsedIs(used')
<1>1. used \in [of: Scenarios, events: Nat, remote: Nat, failures: Nat]
  BY DEF Types
<1>2. CASE used' = used
  BY <1>1, <1>2 DEF UsedIs
<1>3. CASE Fails
  <2>1. used' = [used EXCEPT !.failures = @ + 1]
    BY <1>3 DEF Fails
  <2> QED  BY <1>1, <2>1 DEF UsedIs
<1> QED  BY <1>2, <1>3

(* The parts of a state of the right kind. *)
UiIs(u) == u \in [comments: Seq(Comment), nextId: Nat, marks: SUBSET Files, draft: Draft, dirty: BOOLEAN]
SyncIs(s) ==
    s \in [imported: Bases, nextUi: Nat, record: Reviews,
           signature: [comments: Seq(Comment), marks: SUBSET Files],
           needsImport: BOOLEAN, conflict: BOOLEAN, pending: Pending]

LEMMA PartsAre ==
  ASSUME Types
  PROVE  UiIs(ui) /\ SyncIs(sync) /\ UsedIs(used) /\ at \in Phases
BY DEF Types, UiIs, SyncIs, UsedIs

LEMMA PartsHold ==
  ASSUME UiIs(ui'), SyncIs(sync'), UsedIs(used'), at' \in Phases,
         review' \in Reviews, Sound(review'), Sound(sync'.record)
  PROVE  Types'
BY DEF Types, UiIs, SyncIs, UsedIs

LEMMA UiOf ==
  ASSUME NEW u,
         u = [comments |-> u.comments, nextId |-> u.nextId, marks |-> u.marks, draft |-> u.draft,
              dirty |-> u.dirty],
         u.comments \in Seq(Comment), u.nextId \in Nat, u.marks \in SUBSET Files, u.draft \in Draft,
         u.dirty \in BOOLEAN
  PROVE  UiIs(u)
BY DEF UiIs

LEMMA SyncOf ==
  ASSUME NEW s,
         s = [imported |-> s.imported, nextUi |-> s.nextUi, record |-> s.record,
              signature |-> s.signature, needsImport |-> s.needsImport, conflict |-> s.conflict,
              pending |-> s.pending],
         s.imported \in Bases, s.nextUi \in Nat, s.record \in Reviews,
         s.signature \in [comments: Seq(Comment), marks: SUBSET Files],
         s.needsImport \in BOOLEAN, s.conflict \in BOOLEAN, s.pending \in Pending
  PROVE  SyncIs(s)
BY DEF SyncIs

(* The requests that were made before. *)
LEMMA PendingAre ==
  ASSUME Types, NEW call \in DOMAIN sync.pending
  PROVE  /\ call \in Call
         /\ sync.pending[call] \in [expected: Nat, receipt: {NONE} \cup Answer]
<1>1. PICK R : R = [expected: Nat, receipt: {NONE} \cup Answer]
  OBVIOUS
<1>2. sync.pending \in Functions(Call, R)
  BY <1>1, SyncParts DEF Pending
<1>3. DOMAIN sync.pending \subseteq Call /\ sync.pending[call] \in R
  BY <1>2, FunctionsAre
<1>4. call \in Call
  BY <1>3
<1> QED  BY <1>1, <1>3, <1>4, Zenon

(* A frame is drawn. *)
LEMMA DrawnUi ==
  ASSUME Types, NEW dirty \in BOOLEAN, ui' = [ui EXCEPT !.dirty = dirty]
  PROVE  /\ UiIs(ui') /\ ui'.comments = ui.comments /\ ui'.draft = ui.draft
         /\ ui'.nextId = ui.nextId /\ ui'.marks = ui.marks
<1>1. ui' = [comments |-> ui.comments, nextId |-> ui.nextId, marks |-> ui.marks,
             draft |-> ui.draft, dirty |-> dirty]
  BY StateIs
<1> QED  BY <1>1, StateIs DEF UiIs

(* What is known of the store stays where the baseline, the record and the   *)
(* review do.                                                                *)
LEMMA StoreFrame ==
  ASSUME StoreInv, review' = review, sync'.imported = sync.imported, sync'.record = sync.record,
         sync'.needsImport = sync.needsImport
  PROVE  BasesAreThere' /\ RecordIsOld'
BY DEF StoreInv, BasesAreThere, RecordIsOld, TextsAreOf, Base

LEMMA RequestsFrame ==
  ASSUME StoreInv, review' = review, sync'.pending = sync.pending, sync'.record = sync.record,
         at' = "saving" => at = "saving"
  PROVE  RequestsAreOld'
BY DEF StoreInv, RequestsAreOld, Answers, Made, Publishes

LEMMA NoReplyFrame ==
  ASSUME at' # "reply"
  PROVE  ReplyIsKnown'
BY DEF ReplyIsKnown

LEMMA SkipPollStep ==
  ASSUME Types, SyncInv, SkipPoll
  PROVE  Types' /\ SyncInv'
<1>1. /\ review' = review /\ ui' = ui /\ sync' = sync /\ step' = step /\ discarded' = discarded
      /\ used' = used /\ at' = "draw" /\ at = "events"
  BY DEF SkipPoll
<1>2. Types'
  BY <1>1 DEF Types, Phases
<1>3. StoreInv'
  BY <1>1, StoreFrame, RequestsFrame, NoReplyFrame DEF StoreInv, SyncInv
<1>4. CommentsInv'
  BY <1>1, CommentsFrame DEF SyncInv
<1>5. DraftIsOfNow'
  BY <1>1, DraftFrame DEF SyncInv
<1> QED  BY <1>2, <1>3, <1>4, <1>5 DEF SyncInv

LEMMA DrawOnlyStep ==
  ASSUME Types, SyncInv, DrawOnly
  PROVE  Types' /\ SyncInv'
<1>1. /\ review' = review /\ sync' = sync /\ discarded' = discarded /\ at' = "events"
      /\ at \in {"draw", "polled"} /\ ui' = [ui EXCEPT !.dirty = FALSE]
      /\ (used' = used \/ Fails)
  BY DEF DrawOnly, Drawn
<1>2. /\ UiIs(ui') /\ ui'.comments = ui.comments /\ ui'.draft = ui.draft /\ ui'.nextId = ui.nextId
  BY <1>1, DrawnUi
<1>3. Types'
  <2>1. UsedIs(used')
    BY <1>1, FailsIs
  <2>2. SyncIs(sync') /\ Sound(sync'.record) /\ review' \in Reviews /\ Sound(review')
    BY <1>1, PartsAre, StateIs
  <2> QED  BY <1>1, <1>2, <2>1, <2>2, PartsHold DEF Phases
<1>4. StoreInv'
  BY <1>1, StoreFrame, RequestsFrame, NoReplyFrame DEF StoreInv, SyncInv
<1>5. CommentsInv'
  BY <1>1, <1>2, CommentsFrame DEF SyncInv
<1>6. DraftIsOfNow'
  BY <1>1, <1>2, DraftFrame DEF SyncInv
<1> QED  BY <1>3, <1>4, <1>5, <1>6 DEF SyncInv

LEMMA FinishSaveStep ==
  ASSUME Types, SyncInv, FinishSave
  PROVE  Types' /\ SyncInv'
<1>1. /\ review' = review /\ discarded' = discarded /\ at' = "events" /\ used' = used
      /\ at = "saving" /\ ui' = [ui EXCEPT !.dirty = FALSE]
      /\ sync' = [sync EXCEPT !.signature = Signature]
  BY DEF FinishSave, Drawn
<1>2. /\ UiIs(ui') /\ ui'.comments = ui.comments /\ ui'.draft = ui.draft /\ ui'.nextId = ui.nextId
  BY <1>1, DrawnUi
<1>3. Signature \in [comments: Seq(Comment), marks: SUBSET Files]
  <2> DEFINE t == [i \in DOMAIN ui.comments |-> [ui.comments[i] EXCEPT !.basis = {}]]
  <2>1. \A i \in DOMAIN ui.comments : ui.comments[i] \in Comment
    BY CommentsAre DEF Comments, ToSet
  <2>2. \A c \in Comment : [c EXCEPT !.basis = {}] \in Comment
    BY DEF Comment
  <2>3. t \in [DOMAIN ui.comments -> Comment]
    BY <2>1, <2>2
  <2>4. PICK s \in Seq(Comment) : s = ui.comments
    BY StateIs
  <2>5. t \in [DOMAIN s -> Comment]
    BY <2>3, <2>4
  <2>6. Signature = [comments |-> t, marks |-> ui.marks]
    BY DEF Signature
  <2> HIDE DEF t
  <2>7. t \in Seq(Comment)
    BY <2>4, <2>5, RewrittenAre
  <2>8. ui.marks \in SUBSET Files
    BY StateIs
  <2> QED  BY <2>6, <2>7, <2>8
<1> DEFINE signature == Signature
<1> HIDE DEF signature
<1>4. sync' = [imported |-> sync.imported, nextUi |-> sync.nextUi, record |-> sync.record,
               signature |-> signature, needsImport |-> sync.needsImport,
               conflict |-> sync.conflict, pending |-> sync.pending]
  BY <1>1, SyncParts DEF signature
<1>5. SyncIs(sync')
  BY <1>3, <1>4, SyncParts, StateIs DEF SyncIs, signature
<1>6. /\ sync'.imported = sync.imported /\ sync'.record = sync.record
      /\ sync'.needsImport = sync.needsImport /\ sync'.pending = sync.pending
  BY <1>4
<1>7. Types'
  <2>1. Sound(sync'.record) /\ review' \in Reviews /\ Sound(review') /\ UsedIs(used')
    BY <1>1, <1>6, PartsAre, StateIs
  <2> QED  BY <1>1, <1>2, <1>5, <2>1, PartsHold DEF Phases
<1>8. StoreInv'
  BY <1>1, <1>6, StoreFrame, RequestsFrame, NoReplyFrame DEF StoreInv, SyncInv
<1>9. CommentsInv'
  BY <1>1, <1>2, <1>6, CommentsFrame DEF SyncInv
<1>10. DraftIsOfNow'
  BY <1>1, <1>2, <1>6, DraftFrame DEF SyncInv
<1> QED  BY <1>7, <1>8, <1>9, <1>10 DEF SyncInv

(* A draft under which nothing has changed is still one of now. *)
LEMMA DraftAfterIs ==
  ASSUME Types, SyncInv, NEW S, ImportIs(review, S),
         ui'.comments = S.comments, ui'.draft = DraftAfter(S), sync'.imported = S.imported,
         discarded' = discarded
  PROVE  DraftAfter(S) \in Draft /\ DraftIsOfNow'
<1> DEFINE D == DraftAfter(S)
           a == ui.draft.at
           same == LastAt(S.comments, a) = LastAt(ui.comments, a)
<1>1. S.comments \in Seq(Comment) /\ ui.comments \in Seq(Comment) /\ ui.draft \in Draft
  BY StateIs DEF ImportIs
<1>2. CASE ui.draft = NoDraft
  <2>1. D = NoDraft
    BY <1>2 DEF DraftAfter
  <2> QED  BY <2>1, NoDraftFrame DEF Draft
<1>3. CASE ui.draft # NoDraft /\ ~same
  <2>1. ui.draft \in [at: Lines, basis: SUBSET Shown]
    BY <1>1, <1>3 DEF Draft
  <2>2. D = [ui.draft EXCEPT !.basis = @ \cup {OVERTAKEN}]
    BY <1>3 DEF DraftAfter
  <2>3. D = [at |-> a, basis |-> ui.draft.basis \cup {OVERTAKEN}]
    BY <2>1, <2>2
  <2>4. D \in Draft
    BY <2>1, <2>3 DEF Draft, Shown
  <2>5. OVERTAKEN \in ui'.draft.basis
    BY <2>3
  <2>6. \A text : Knows(ui'.draft.basis, text)
    BY <2>5 DEF Knows
  <2> QED  BY <2>4, <2>6 DEF DraftIsOfNow
<1>4. CASE ui.draft # NoDraft /\ same
  <2>1. D = ui.draft
    BY <1>4 DEF DraftAfter
  <2> DEFINE d == S.comments[Max(HumansIn(S.comments, a))]
             c == ui.comments[Max(HumansIn(ui.comments, a))]
  <2> SUFFICES ASSUME HumansIn(S.comments, a) # {}
               PROVE  /\ Knows(ui.draft.basis, d.text)
                      /\ d.id \in DOMAIN S.imported =>
                            \/ Knows(ui.draft.basis, S.imported[d.id].text)
                            \/ S.imported[d.id].message \in discarded
    <3>1. HumansAt(a)' = HumansIn(S.comments, a)'
      BY DEF HumansAt, HumansIn, ShownIn
    <3> QED  BY <1>1, <2>1 DEF DraftIsOfNow, HumansAt, LastHumanAt, HumansIn, ShownIn, Imported, Base
  <2>2. LastAt(S.comments, a) = <<d.id, d.text>>
    BY DEF LastAt
  <2>3. (\A x, y : <<x, y>> # <<>>) /\ \A x, y, u, v : <<x, y>> = <<u, v>> => x = u /\ y = v
    OBVIOUS
  <2>4. HumansIn(ui.comments, a) # {}
    <3> SUFFICES ASSUME HumansIn(ui.comments, a) = {} PROVE FALSE
      OBVIOUS
    <3>1. LastAt(ui.comments, a) = <<>>
      BY DEF LastAt
    <3> HIDE DEF d
    <3>2. <<d.id, d.text>> = <<>>
      BY <1>4, <2>2, <3>1, Zenon
    <3> QED  BY <2>3, <3>2, Zenon
  <2>5. LastAt(ui.comments, a) = <<c.id, c.text>>
    BY <2>4 DEF LastAt
  <2>6. c = LastHumanAt(a) /\ HumansAt(a) # {} /\ c \in Comments /\ d \in ToSet(S.comments)
    BY <1>1, <2>4, LastHumanOf, LastHumanIs DEF LastHumanAt, HumansAt
  <2> HIDE DEF c, d
  <2>7. c.id = d.id /\ c.text = d.text
    <3>1. <<c.id, c.text>> = <<d.id, d.text>>
      BY <1>4, <2>2, <2>5, Zenon
    <3> QED  BY <2>3, <3>1, Zenon
  <2>8. /\ Knows(ui.draft.basis, c.text)
        /\ Imported(c.id) => Knows(ui.draft.basis, Base(c.id).text) \/ Base(c.id).message \in discarded
    BY <1>4, <2>6 DEF SyncInv, DraftIsOfNow
  <2>9. d.id \in DOMAIN S.imported =>
          /\ Imported(c.id) /\ S.imported[d.id].message = Base(c.id).message
          /\ S.imported[d.id].text \in {Base(c.id).text, c.text}
    BY <2>6, <2>7 DEF ImportIs, BasesSeen
  <2>10. /\ Knows(ui.draft.basis, d.text)
         /\ d.id \in DOMAIN S.imported =>
               \/ Knows(ui.draft.basis, S.imported[d.id].text)
               \/ S.imported[d.id].message \in discarded
    BY <2>7, <2>8, <2>9
  <2> QED  BY <2>10
<1> QED  BY <1>2, <1>3, <1>4

(* The record of the store takes the place of the one before. *)
LEMMA ImportStep ==
  ASSUME Types, SyncInv, ~ImportConflicts(review),
         NEW dirty \in BOOLEAN, NEW conflict \in BOOLEAN, NEW S, S = Import(review),
         ui' = [comments |-> S.comments, nextId |-> LargestNumber(S.comments), marks |-> ui.marks,
                draft |-> DraftAfter(S), dirty |-> dirty],
         sync' = [imported |-> S.imported, nextUi |-> S.next, record |-> review,
                  signature |-> sync.signature, needsImport |-> FALSE,
                  conflict |-> conflict, pending |-> sync.pending],
         review' = review, discarded' = discarded, used' = used, at' \in {"polled", "saving"}
  PROVE  Types' /\ SyncInv'
<1>1. \A id \in DOMAIN sync.imported : Base(id).message \in DOMAIN review.messages
  BY DEF SyncInv, StoreInv, BasesAreThere, RecordIsOld
<1>2. ImportIs(review, S)
  BY <1>1, StateIs, ImportHolds DEF SyncInv
<1>3. /\ S.comments \in Seq(Comment) /\ S.imported \in Bases /\ S.next \in Nat
      /\ \A c, d \in ToSet(S.comments) : c.id = d.id => c = d
      /\ \A id \in DOMAIN S.imported : /\ S.imported[id].message \in DOMAIN review.messages
                                       /\ S.imported[id].text = review.messages[S.imported[id].message].body
      /\ \A id \in DOMAIN S.imported \ IdsOf(S) : S.imported[id].message \in discarded
      /\ TextsSeen(S)
  BY <1>2 DEF ImportIs
<1>4. /\ ui'.comments = S.comments /\ ui'.draft = DraftAfter(S) /\ ui'.nextId = LargestNumber(S.comments)
  OBVIOUS
<1>5. /\ sync'.imported = S.imported /\ sync'.record = review /\ sync'.needsImport = FALSE
      /\ sync'.pending = sync.pending
  OBVIOUS
<1>6. LargestNumber(S.comments) \in Nat /\ \A c \in ToSet(S.comments) : c.id[2] <= LargestNumber(S.comments)
  BY <1>3, LargestIs
<1>7. DraftAfter(S) \in Draft /\ DraftIsOfNow'
  BY <1>2, <1>4, <1>5, DraftAfterIs
<1>8. Types'
  <2>1. UiIs(ui')
    <3>1. ui.marks \in SUBSET Files
      BY StateIs
    <3>2. /\ ui'.comments = S.comments /\ ui'.nextId = LargestNumber(S.comments)
          /\ ui'.marks = ui.marks /\ ui'.draft = DraftAfter(S) /\ ui'.dirty = dirty
          /\ ui' = [comments |-> ui'.comments, nextId |-> ui'.nextId, marks |-> ui'.marks,
                    draft |-> ui'.draft, dirty |-> ui'.dirty]
      OBVIOUS
    <3> QED  BY <1>3, <1>6, <1>7, <3>1, <3>2, UiOf
  <2>2. SyncIs(sync')
    <3>1. /\ sync.signature \in [comments: Seq(Comment), marks: SUBSET Files]
          /\ sync.pending \in Pending /\ review \in Reviews /\ S.imported \in Bases /\ S.next \in Nat
      BY <1>3, SyncParts, StateIs
    <3>2. /\ sync'.imported = S.imported /\ sync'.nextUi = S.next /\ sync'.record = review
          /\ sync'.signature = sync.signature /\ sync'.needsImport = FALSE
          /\ sync'.conflict = conflict /\ sync'.pending = sync.pending
          /\ sync' = [imported |-> sync'.imported, nextUi |-> sync'.nextUi, record |-> sync'.record,
                      signature |-> sync'.signature, needsImport |-> sync'.needsImport,
                      conflict |-> sync'.conflict, pending |-> sync'.pending]
      OBVIOUS
    <3> QED  BY <3>1, <3>2, SyncOf
  <2>3. Sound(sync'.record) /\ review' \in Reviews /\ Sound(review') /\ UsedIs(used')
    BY <1>5, PartsAre, StateIs
  <2> QED  BY <2>1, <2>2, <2>3, PartsHold DEF Phases
<1>9. Comments' = ToSet(S.comments)
  BY <1>4 DEF Comments
<1>10. CurrentIds' = IdsOf(S)
  BY <1>9 DEF CurrentIds, IdsOf
<1>11. CommentsInv'
  <2>1. OneEach' /\ Numbered'
    BY <1>3, <1>4, <1>6, <1>9 DEF OneEach, Numbered
  <2>2. GoneAreDiscarded'
    BY <1>3, <1>5, <1>10 DEF GoneAreDiscarded, Base
  <2>3. WritersSaw'
    BY <1>3, <1>5, <1>9 DEF WritersSaw, TextsSeen, Imported, Base
  <2> QED  BY <2>1, <2>2, <2>3 DEF CommentsInv
<1>12. BasesAreThere'
  BY <1>3, <1>5 DEF BasesAreThere, Base
<1>13. RecordIsOld'
  <2>1. TextsAreOf(sync.record)'
    BY <1>3, <1>5 DEF TextsAreOf, Base
  <2>2. review.revision \in Nat
    BY StateIs, RecordIs
  <2> QED  BY <1>5, <2>1, <2>2 DEF RecordIsOld
<1>14. RequestsAreOld'
  <2> SUFFICES ASSUME NEW call \in DOMAIN sync.pending
               PROVE  /\ sync.pending[call].expected <= review.revision
                      /\ sync.pending[call].receipt # NONE =>
                            /\ Answers(review, call, sync.pending[call].receipt)
                            /\ sync.pending[call].receipt.revision <= review.revision
    BY <1>5 DEF RequestsAreOld, Answers, Publishes, Made
  <2>1. /\ sync.pending[call].expected <= sync.record.revision
        /\ sync.pending[call].receipt # NONE => Answers(review, call, sync.pending[call].receipt)
    BY DEF SyncInv, StoreInv, RequestsAreOld
  <2>2. sync.pending[call].expected \in Nat
    <3>1. sync.pending[call] \in [expected: Nat, receipt: {NONE} \cup Answer]
      BY PendingAre
    <3> QED  BY <3>1
  <2>3. /\ sync.record.revision \in Nat /\ review.revision \in Nat
        /\ sync.record.revision <= review.revision
    BY StateIs, RecordIs DEF SyncInv, StoreInv, RecordIsOld
  <2> QED  BY <2>1, <2>2, <2>3 DEF Answers
<1>15. ReplyIsKnown'
  BY NoReplyFrame
<1> QED  BY <1>8, <1>11, <1>12, <1>13, <1>14, <1>15, <1>7 DEF SyncInv, StoreInv

(* Nothing of what is known changes but flags. *)
LEMMA FlagsStep ==
  ASSUME Types, SyncInv, NEW dirty \in BOOLEAN, NEW conflict \in BOOLEAN,
         ui' = [ui EXCEPT !.dirty = dirty], sync' = [sync EXCEPT !.conflict = conflict],
         review' = review, discarded' = discarded, used' = used \/ Fails,
         at' \in {"events", "polled"}
  PROVE  Types' /\ SyncInv'
<1>1. /\ UiIs(ui') /\ ui'.comments = ui.comments /\ ui'.draft = ui.draft /\ ui'.nextId = ui.nextId
  BY DrawnUi
<1>2. sync' = [imported |-> sync.imported, nextUi |-> sync.nextUi, record |-> sync.record,
               signature |-> sync.signature, needsImport |-> sync.needsImport,
               conflict |-> conflict, pending |-> sync.pending]
  BY SyncParts
<1>3. SyncIs(sync')
  BY <1>2, SyncParts, StateIs DEF SyncIs
<1>4. /\ sync'.imported = sync.imported /\ sync'.record = sync.record
      /\ sync'.needsImport = sync.needsImport /\ sync'.pending = sync.pending
  BY <1>2
<1>5. Types'
  <2>1. Sound(sync'.record) /\ review' \in Reviews /\ Sound(review') /\ UsedIs(used')
    BY <1>4, FailsIs, StateIs
  <2> QED  BY <1>1, <1>3, <2>1, PartsHold DEF Phases
<1>6. StoreInv'
  BY <1>4, StoreFrame, RequestsFrame, NoReplyFrame DEF StoreInv, SyncInv
<1>7. CommentsInv'
  BY <1>1, <1>4, CommentsFrame DEF SyncInv
<1>8. DraftIsOfNow'
  BY <1>1, <1>4, DraftFrame DEF SyncInv
<1> QED  BY <1>5, <1>6, <1>7, <1>8 DEF SyncInv

LEMMA PollStep ==
  ASSUME Types, SyncInv, Poll
  PROVE  Types' /\ SyncInv'
<1>1. /\ at' = "polled" /\ ui.draft = NoDraft /\ review' = review /\ discarded' = discarded
  BY DEF Poll
<1>2. sync = [sync EXCEPT !.conflict = sync.conflict] /\ sync.conflict \in BOOLEAN
      /\ ui = [ui EXCEPT !.dirty = ui.dirty] /\ ui.dirty \in BOOLEAN
  BY SyncParts, StateIs
<1>3. CASE ~ImportConflicts(review) /\ used' = used
           /\ sync' = [SyncAfter(Import(review), review) EXCEPT !.conflict = FALSE]
           /\ ui' = [UiAfter(Import(review)) EXCEPT !.dirty = TRUE]
  <2> DEFINE S == Import(review)
  <2> HIDE DEF S
  <2>1. ui' = [comments |-> S.comments, nextId |-> LargestNumber(S.comments), marks |-> ui.marks,
               draft |-> DraftAfter(S), dirty |-> TRUE]
    BY <1>1, <1>3, StateIs DEF UiAfter, DraftAfter, S
  <2>2. sync' = [imported |-> S.imported, nextUi |-> S.next, record |-> review,
                 signature |-> sync.signature, needsImport |-> FALSE,
                 conflict |-> FALSE, pending |-> sync.pending]
    BY <1>3, SyncParts DEF SyncAfter, S
  <2>3. S = Import(review)
    BY DEF S
  <2> QED  BY <1>1, <1>3, <2>1, <2>2, <2>3, ImportStep
<1>4. CASE used' = used /\ ui' = ui /\ sync' = sync
  BY <1>1, <1>2, <1>4, FlagsStep
<1>5. CASE used' = used /\ sync' = [sync EXCEPT !.conflict = TRUE] /\ ui' = [ui EXCEPT !.dirty = TRUE]
  BY <1>1, <1>5, FlagsStep
<1>6. CASE Fails /\ ui' = [ui EXCEPT !.dirty = TRUE] /\ sync' = sync
  BY <1>1, <1>2, <1>6, FlagsStep
<1>7. (TakeReview /\ used' = used) \/ (Fails /\ ui' = [ui EXCEPT !.dirty = TRUE] /\ sync' = sync)
  BY DEF Poll
<1> QED  BY <1>3, <1>4, <1>5, <1>6, <1>7 DEF TakeReview

LEMMA StartSaveStep ==
  ASSUME Types, SyncInv, StartSave
  PROVE  Types' /\ SyncInv'
<1>1. /\ at \in {"draw", "polled"} /\ review' = review /\ discarded' = discarded /\ used' = used
  BY DEF StartSave
<1>2. CASE review.revision = sync.record.revision /\ at' = "saving" /\ ui' = ui /\ sync' = sync
  <2>1. Types'
    BY <1>1, <1>2 DEF Types, Phases
  <2>2. RequestsAreOld'
    <3> SUFFICES ASSUME NEW call \in DOMAIN sync.pending
                 PROVE  /\ sync.pending[call].expected <= sync.record.revision
                        /\ sync.pending[call].receipt # NONE =>
                              /\ Answers(review, call, sync.pending[call].receipt)
                              /\ sync.pending[call].receipt.revision <= sync.record.revision
      BY <1>1, <1>2 DEF RequestsAreOld, Answers, Publishes, Made
    <3> QED  BY <1>2 DEF SyncInv, StoreInv, RequestsAreOld, Answers
  <2>3. StoreInv'
    BY <1>1, <1>2, <2>2, StoreFrame, NoReplyFrame DEF StoreInv, SyncInv
  <2>4. CommentsInv'
    BY <1>1, <1>2, CommentsFrame DEF SyncInv
  <2>5. DraftIsOfNow'
    BY <1>1, <1>2, DraftFrame DEF SyncInv
  <2> QED  BY <2>1, <2>3, <2>4, <2>5 DEF SyncInv
<1>3. CASE at' = "events" /\ ui' = [ui EXCEPT !.dirty = FALSE] /\ sync' = [sync EXCEPT !.conflict = TRUE]
  BY <1>1, <1>3, FlagsStep
<1>4. CASE ~ImportConflicts(review) /\ at' = "saving"
           /\ ui' = [UiAfter(Import(review)) EXCEPT !.draft = DraftAfter(Import(review))]
           /\ sync' = SyncAfter(Import(review), review)
  <2> DEFINE S == Import(review)
  <2> HIDE DEF S
  <2>1. ui' = [comments |-> S.comments, nextId |-> LargestNumber(S.comments), marks |-> ui.marks,
               draft |-> DraftAfter(S), dirty |-> ui.dirty]
    BY <1>1, <1>4, StateIs DEF UiAfter, S
  <2>2. sync' = [imported |-> S.imported, nextUi |-> S.next, record |-> review,
                 signature |-> sync.signature, needsImport |-> FALSE,
                 conflict |-> sync.conflict, pending |-> sync.pending]
    BY <1>4, SyncParts DEF SyncAfter, S
  <2>3. S = Import(review) /\ ui.dirty \in BOOLEAN /\ sync.conflict \in BOOLEAN
    BY SyncParts DEF S
  <2> QED  BY <1>1, <1>4, <2>1, <2>2, <2>3, ImportStep
<1> QED  BY <1>2, <1>3, <1>4 DEF StartSave, Drawn

(* ------------------------------- a save --------------------------------- *)
(* What a comment is published with. *)
LEMMA PublicationIs ==
  ASSUME Types, SyncInv, NEW c \in Comments, Unpublished(c)
  PROVE  LET next == Publication(c)
         IN  /\ next.of = c.id /\ next.call \in Call /\ Callable(sync.record, next.call)
             /\ next.call.method = "comment.edit"
                  => /\ Imported(c.id) /\ Base(c.id).text # c.text
                     /\ next.call.message = Base(c.id).message /\ next.call.body = c.text
<1> DEFINE r == sync.record
           threads == {t \in Threads(r) : r.messages[t].at = c.at}
           first == CHOOSE t \in threads : \A u \in threads : t <= u
           there == {m \in DOMAIN r.messages : There(r, m) /\ r.messages[m].thread = first}
           last == CHOOSE m \in there : \A n \in there : n <= m
           edit == [method |-> "comment.edit", message |-> Base(c.id).message, body |-> c.text]
           reply == [method |-> "comment.reply", thread |-> first, body |-> c.text,
                     reply_to |-> last, origin |-> c.id[1]]
           add == [method |-> "comment.add", at |-> c.at, body |-> c.text, origin |-> c.id[1]]
           next == Publication(c)
<1>1. next = [of |-> c.id,
              call |-> IF Imported(c.id) THEN edit
                       ELSE IF threads # {} /\ there # {} THEN reply ELSE add]
  BY Zenon DEF Publication
<1> HIDE DEF next
<1>2. c.text \in Texts /\ c.at \in Lines /\ c.id[1] \in Origins
  BY CommentsAre DEF Comment, Ids
<1>3. r.revision \in Nat /\ \A m \in DOMAIN r.messages :
         m \in 1..r.revision /\ r.messages[m].thread \in DOMAIN r.messages \cap DOMAIN r.dispositions
  BY StateIs, RecordIs
<1>4. CASE Imported(c.id)
  <2>1. next.of = c.id /\ next.call = edit
    BY <1>1, <1>4
  <2>2. Base(c.id).message \in Nat
    BY <1>4, BasesAre DEF Imported
  <2>3. edit \in Call /\ Callable(r, edit)
    BY <1>2, <2>2 DEF Call, Callable
  <2>4. Base(c.id).text # c.text
    BY <1>4 DEF Unpublished
  <2> QED  BY <1>4, <2>1, <2>3, <2>4 DEF next
<1>5. CASE ~Imported(c.id) /\ threads # {} /\ there # {}
  <2>1. next.of = c.id /\ next.call = reply
    BY <1>1, <1>5
  <2>2. first \in DOMAIN r.messages \cap DOMAIN r.dispositions /\ first \in Nat
    <3>1. \A t \in threads : t \in DOMAIN r.messages \cap DOMAIN r.dispositions /\ t \in Nat
      BY <1>3 DEF Threads
    <3>2. threads \in SUBSET Nat
      BY <3>1
    <3> HIDE DEF threads
    <3>3. first \in threads
      BY <1>5, <3>2, LeastNumber
    <3> QED  BY <3>1, <3>3
  <2> HIDE DEF first
  <2>3. last \in Nat
    <3>1. there \in SUBSET Nat /\ \A m \in there : m <= r.revision
      BY <1>3
    <3> HIDE DEF there
    <3>2. last \in there
      BY <1>3, <1>5, <3>1, GreatestNumber
    <3> QED  BY <3>1, <3>2
  <2> HIDE DEF last
  <2>4. reply \in Call /\ Callable(r, reply) /\ reply.method # "comment.edit"
    BY <1>2, <2>2, <2>3 DEF Call, Callable
  <2> QED  BY <2>1, <2>4 DEF next
<1>6. CASE ~Imported(c.id) /\ ~(threads # {} /\ there # {})
  <2>1. next.of = c.id /\ next.call = add
    BY <1>1, <1>6
  <2>2. add \in Call /\ Callable(r, add) /\ add.method # "comment.edit"
    BY <1>2 DEF Call, Callable
  <2> QED  BY <2>1, <2>2 DEF next
<1> QED  BY <1>4, <1>5, <1>6

(* What the save does next. *)
LEMMA NextStepIs ==
  ASSUME Types, SyncInv, NEW next \in NextSteps
  PROVE  /\ next.call \in Call /\ Callable(sync.record, next.call)
         /\ Publishes(next.call) => next.of \in CurrentIds
         /\ next.call.method = "comment.remove" => next.of \in Ids
         /\ next.call.method = "comment.edit"
              => \E c \in Comments :
                    /\ Imported(c.id) /\ Base(c.id).text # c.text
                    /\ next.call.message = Base(c.id).message /\ next.call.body = c.text
<1> DEFINE unpublished == {i \in DOMAIN ui.comments : Unpublished(ui.comments[i])}
           progress == [method |-> "review.progress", marks |-> ui.marks]
<1>1. \/ \E id \in Removed : next = RemovalOf(id)
      \/ unpublished # {} /\ next = Publication(ui.comments[Least(unpublished)])
      \/ /\ unpublished = {} /\ Redisposed # {}
         /\ next = DispositionOfComment(ui.comments[Least(Redisposed)])
      \/ next = [of |-> NONE, call |-> progress]
  BY DEF NextSteps
<1>2. \A P \in SUBSET (DOMAIN ui.comments) : P # {} => Least(P) \in P
  <2> SUFFICES ASSUME NEW P \in SUBSET (DOMAIN ui.comments), P # {} PROVE Least(P) \in P
    OBVIOUS
  <2>1. P \in SUBSET Nat
    BY StateIs
  <2>2. \E k \in P : \A j \in P : k <= j
    BY <2>1, LeastNumber
  <2> QED  BY <2>2 DEF Least
<1>3. \A i \in DOMAIN ui.comments : ui.comments[i] \in Comments
  BY DEF Comments, ToSet
<1>4. CASE \E id \in Removed : next = RemovalOf(id)
  <2>1. PICK id \in Removed : next = RemovalOf(id)
    BY <1>4
  <2>2. id \in DOMAIN sync.imported
    BY <2>1 DEF Removed
  <2>3. id \in Ids /\ Base(id).message \in Nat
    BY <2>2, BasesAre
  <2>4. next.of = id /\ next.call = [method |-> "comment.remove", message |-> Base(id).message]
    BY <2>1 DEF RemovalOf
  <2> QED  BY <2>3, <2>4 DEF Call, Callable, Publishes
<1>5. CASE unpublished # {} /\ next = Publication(ui.comments[Least(unpublished)])
  <2>1. Least(unpublished) \in unpublished
    <3>1. unpublished \in SUBSET (DOMAIN ui.comments)
      OBVIOUS
    <3> HIDE DEF unpublished
    <3> QED  BY <1>2, <1>5, <3>1
  <2>2. PICK c \in Comments : Unpublished(c) /\ next = Publication(c)
    BY <1>3, <1>5, <2>1
  <2>3. /\ next.of = c.id /\ next.call \in Call /\ Callable(sync.record, next.call)
        /\ next.call.method = "comment.edit"
             => /\ Imported(c.id) /\ Base(c.id).text # c.text
                /\ next.call.message = Base(c.id).message /\ next.call.body = c.text
    BY <2>2, PublicationIs
  <2>4. next.of \in CurrentIds /\ next.of \in Ids
    BY <2>3, CommentsAre DEF CurrentIds, Comment
  <2> QED  BY <2>3, <2>4
<1>6. CASE unpublished = {} /\ Redisposed # {}
           /\ next = DispositionOfComment(ui.comments[Least(Redisposed)])
  <2>1. Least(Redisposed) \in Redisposed
    BY <1>2, <1>6 DEF Redisposed
  <2>2. PICK i \in DOMAIN ui.comments : next = DispositionOfComment(ui.comments[i])
    BY <1>6, <2>1 DEF Redisposed
  <2> DEFINE c == ui.comments[i]
  <2>3. Imported(c.id)
    BY <1>6, <2>2 DEF Unpublished
  <2>4. c \in Comments /\ c.disp \in States
    BY <1>3, <2>2, CommentsAre DEF Comment
  <2> HIDE DEF c
  <2>5. ThreadOf(c) \in Nat
    <3>1. Base(c.id).message \in DOMAIN sync.record.messages
      BY <2>3 DEF SyncInv, StoreInv, BasesAreThere, Imported
    <3>2. sync.record.messages[Base(c.id).message] \in Message
      BY <3>1, StateIs, RecordIs
    <3> QED  BY <3>2 DEF ThreadOf, Message
  <2>6. next.call = [method |-> "review.disposition", thread |-> ThreadOf(c), disposition |-> c.disp]
    BY <2>2 DEF DispositionOfComment, c
  <2> QED  BY <2>4, <2>5, <2>6 DEF Call, Callable, Publishes
<1>7. CASE next = [of |-> NONE, call |-> progress]
  <2>1. next.call = progress /\ ui.marks \in SUBSET Files
    BY <1>7, StateIs
  <2> QED  BY <2>1 DEF Call, Callable, Publishes
<1> QED  BY <1>1, <1>4, <1>5, <1>6, <1>7

(* The review is as it was, or has been written once. *)
Grows ==
    \/ review' = review
    \/ review'.revision = review.revision + 1 /\ DOMAIN review.messages \subseteq DOMAIN review'.messages

LEMMA AnswersKeep ==
  ASSUME Types, Grows, review' \in Reviews, NEW call, NEW answer \in Answer, Answers(review, call, answer)
  PROVE  Answers(review', call, answer)
<1>1. answer.revision \in Nat /\ review.revision \in Nat /\ review'.revision \in Nat
  BY StateIs, RecordIs DEF Answer, Reviews
<1>2. CASE review' = review
  BY <1>2 DEF Answers
<1>3. CASE review'.revision = review.revision + 1 /\ DOMAIN review.messages \subseteq DOMAIN review'.messages
  <2>1. answer.revision <= review'.revision /\ answer.revision # review'.revision
    BY <1>1, <1>3 DEF Answers
  <2> QED  BY <1>3, <2>1 DEF Answers
<1> QED  BY <1>2, <1>3 DEF Grows

LEMMA RecordKeeps ==
  ASSUME Types, StoreInv, Grows, sync'.imported = sync.imported, sync'.record = sync.record,
         sync'.needsImport = sync.needsImport
  PROVE  BasesAreThere' /\ RecordIsOld'
<1>1. CASE review' = review
  BY <1>1, StoreFrame
<1>2. CASE review'.revision = review.revision + 1 /\ DOMAIN review.messages \subseteq DOMAIN review'.messages
  <2>1. sync.record.revision \in Nat /\ review.revision \in Nat /\ sync.record.revision <= review.revision
    BY StateIs, RecordIs DEF StoreInv, RecordIsOld
  <2>2. sync.record.revision <= review'.revision /\ sync.record.revision # review'.revision
    BY <1>2, <2>1
  <2>3. BasesAreThere'
    BY DEF StoreInv, BasesAreThere, Base
  <2>4. ~sync.needsImport => TextsAreOf(sync.record)'
    BY DEF StoreInv, RecordIsOld, TextsAreOf, Base
  <2>5. DOMAIN sync.record.messages \subseteq DOMAIN review'.messages
    BY <1>2 DEF StoreInv, RecordIsOld
  <2> QED  BY <2>2, <2>3, <2>4, <2>5 DEF RecordIsOld
<1> QED  BY <1>1, <1>2 DEF Grows

(* A call that is made, or the error it ends with. *)
LEMMA CallStep ==
  ASSUME Types, SyncInv, at # "events", NEW pending \in Pending, Grows,
         review' \in Reviews, Sound(review'), discarded' = discarded, used' = used \/ Fails,
         ui' = ui \/ ui' = [ui EXCEPT !.dirty = FALSE],
         sync' = [sync EXCEPT !.pending = pending], at' \in {"events", "reply"}, ReplyIsKnown',
         \A call \in DOMAIN pending :
            /\ pending[call].expected <= sync.record.revision
            /\ pending[call].receipt # NONE => Answers(review', call, pending[call].receipt)
  PROVE  Types' /\ SyncInv'
<1>1. ui' = [ui EXCEPT !.dirty = ui.dirty] \/ ui' = [ui EXCEPT !.dirty = FALSE]
  BY StateIs
<1>2. /\ UiIs(ui') /\ ui'.comments = ui.comments /\ ui'.draft = ui.draft /\ ui'.nextId = ui.nextId
  BY <1>1, SyncParts, DrawnUi
<1>3. sync' = [imported |-> sync.imported, nextUi |-> sync.nextUi, record |-> sync.record,
               signature |-> sync.signature, needsImport |-> sync.needsImport,
               conflict |-> sync.conflict, pending |-> pending]
  BY SyncParts
<1>4. /\ sync'.imported = sync.imported /\ sync'.record = sync.record
      /\ sync'.needsImport = sync.needsImport /\ sync'.pending = pending
  BY <1>3
<1>5. Types'
  <2>1. SyncIs(sync')
    BY <1>3, SyncParts, StateIs DEF SyncIs
  <2>2. Sound(sync'.record) /\ UsedIs(used')
    BY <1>4, FailsIs, StateIs
  <2> QED  BY <1>2, <2>1, <2>2, PartsHold DEF Phases
<1>6. BasesAreThere' /\ RecordIsOld'
  BY <1>4, RecordKeeps DEF SyncInv
<1>7. RequestsAreOld'
  <2> SUFFICES ASSUME NEW call \in DOMAIN pending
               PROVE  /\ pending[call].expected <= sync.record.revision
                      /\ pending[call].receipt # NONE => Answers(review', call, pending[call].receipt)
    BY <1>4 DEF RequestsAreOld, Answers
  <2> QED  OBVIOUS
<1>8. CommentsInv'
  BY <1>2, <1>4, CommentsFrame DEF SyncInv
<1>9. DraftIsOfNow'
  BY <1>2, <1>4, DraftFrame DEF SyncInv
<1> QED  BY <1>5, <1>6, <1>7, <1>8, <1>9 DEF SyncInv, StoreInv

(* The request a call is made with. *)
LEMMA RequestIs ==
  ASSUME Types, SyncInv, NEW call \in Call
  PROVE  /\ Request(call) \in [expected: Nat, receipt: {NONE} \cup Answer]
         /\ Request(call).expected <= sync.record.revision
         /\ Request(call).receipt # NONE =>
               /\ Request(call).receipt \in Answer /\ Answers(review, call, Request(call).receipt)
               /\ at = "saving" => Request(call).receipt.revision <= sync.record.revision
<1>1. CASE call \in DOMAIN sync.pending
  <2>1. Request(call) = sync.pending[call]
    BY <1>1 DEF Request
  <2>2. sync.pending[call] \in [expected: Nat, receipt: {NONE} \cup Answer]
    BY <1>1, PendingAre
  <2>3. /\ sync.pending[call].expected <= sync.record.revision
        /\ sync.pending[call].receipt # NONE =>
              /\ Answers(review, call, sync.pending[call].receipt)
              /\ at = "saving" => sync.pending[call].receipt.revision <= sync.record.revision
    BY <1>1 DEF SyncInv, StoreInv, RequestsAreOld
  <2>4. sync.pending[call].receipt \in {NONE} \cup Answer
    BY <2>2
  <2> QED  BY <2>1, <2>2, <2>3, <2>4
<1>2. CASE call \notin DOMAIN sync.pending
  <2>1. Request(call) = [expected |-> sync.record.revision, receipt |-> NONE]
    BY <1>2 DEF Request
  <2>2. sync.record.revision \in Nat
    BY StateIs, RecordIs
  <2> QED  BY <2>1, <2>2
<1> QED  BY <1>1, <1>2

(* What is kept of a request. *)
LEMMA KeptRequestIs ==
  ASSUME Types, SyncInv, Grows, review' \in Reviews, NEW call \in Call,
         NEW receipt \in {NONE} \cup Answer, receipt # NONE => Answers(review', call, receipt),
         NEW pending, pending = Put(sync.pending, call, [Request(call) EXCEPT !.receipt = receipt])
  PROVE  /\ pending \in Pending
         /\ \A k \in DOMAIN pending :
               /\ pending[k].expected <= sync.record.revision
               /\ pending[k].receipt # NONE => Answers(review', k, pending[k].receipt)
<1> DEFINE request == [Request(call) EXCEPT !.receipt = receipt]
<1>1. PICK R : R = [expected: Nat, receipt: {NONE} \cup Answer]
  OBVIOUS
<1>2. Request(call) \in [expected: Nat, receipt: {NONE} \cup Answer]
      /\ Request(call).expected <= sync.record.revision
  BY RequestIs
<1>3. /\ request \in [expected: Nat, receipt: {NONE} \cup Answer]
      /\ request.expected = Request(call).expected /\ request.receipt = receipt
  BY <1>2
<1> HIDE DEF request
<1>4. sync.pending \in Functions(Call, R)
  BY <1>1, SyncParts DEF Pending
<1>5. request \in R
  BY <1>1, <1>3
<1>a. pending = Put(sync.pending, call, request)
  BY DEF request
<1>6. pending \in Functions(Call, R)
  BY <1>4, <1>5, <1>a, PutKeeps
<1>7. pending \in Pending
  BY <1>1, <1>6 DEF Pending
<1>8. DOMAIN pending = DOMAIN sync.pending \cup {call}
  <2>1. DOMAIN Put(sync.pending, call, request) = DOMAIN sync.pending \cup {call}
    BY PutDomain, Zenon
  <2> QED  BY <1>a, <2>1, Zenon
<1>9. pending[call] = request
  BY <1>a, PutThere
<1>10. \A k \in DOMAIN sync.pending : k # call => pending[k] = sync.pending[k]
  BY <1>a, PutElsewhere
<1>11. ASSUME NEW k \in DOMAIN pending
       PROVE  /\ pending[k].expected <= sync.record.revision
              /\ pending[k].receipt # NONE => Answers(review', k, pending[k].receipt)
  <2>1. CASE k = call
    BY <1>2, <1>3, <1>9, <2>1
  <2>2. CASE k # call
    <3>1. k \in DOMAIN sync.pending /\ pending[k] = sync.pending[k]
      BY <1>8, <1>10, <2>2
    <3>2. k \in Call /\ sync.pending[k] \in [expected: Nat, receipt: {NONE} \cup Answer]
      BY <3>1, PendingAre
    <3>3. /\ sync.pending[k].expected <= sync.record.revision
          /\ sync.pending[k].receipt # NONE => Answers(review, k, sync.pending[k].receipt)
      BY <3>1 DEF SyncInv, StoreInv, RequestsAreOld
    <3>4. sync.pending[k].receipt # NONE => sync.pending[k].receipt \in Answer
      BY <3>2
    <3>5. sync.pending[k].receipt # NONE => Answers(review', k, sync.pending[k].receipt)
      BY <3>3, <3>4, AnswersKeep
    <3> QED  BY <3>1, <3>3, <3>5
  <2> QED  BY <2>1, <2>2
<1> QED  BY <1>7, <1>11

(* The store has answered. *)
LEMMA ReplyIsNew ==
  ASSUME Types, SyncInv, NEW next \in NextSteps, NEW answer \in Answer, Answered(next, answer),
         sync'.needsImport = sync.needsImport, ~sync.needsImport,
         Answers(review', next.call, answer),
         answer.revision = review'.revision => TextsAreOf(review)'
  PROVE  ReplyIsKnown'
<1>1. /\ next.call \in Call
      /\ Publishes(next.call) => next.of \in CurrentIds
      /\ next.call.method = "comment.remove" => next.of \in Ids
  BY NextStepIs
<1>2. /\ at' = "reply" /\ ui' = ui /\ step' = [of |-> next.of, call |-> next.call, answer |-> answer]
  BY DEF Answered
<1>3. step'.of = next.of /\ step'.call = next.call /\ step'.answer = answer
  BY <1>2
<1>4. CurrentIds' = CurrentIds
  BY <1>2 DEF CurrentIds, Comments
<1>5. sync'.needsImport = FALSE
  BY DEF Types
<1>6. Answers(review', step'.call, step'.answer)
  BY <1>3
<1>7. step'.answer.revision = review'.revision => TextsAreOf(review)'
  BY <1>3
<1>8. step'.call \in Call /\ step'.answer \in Answer
  BY <1>1, <1>3
<1>9. Publishes(step'.call) => step'.of \in CurrentIds'
  BY <1>1, <1>3, <1>4
<1>10. step'.call.method = "comment.remove" => step'.of \in Ids
  BY <1>1, <1>3
<1> QED  BY <1>5, <1>6, <1>7, <1>8, <1>9, <1>10 DEF ReplyIsKnown

(* A call that the store makes of the review the view knows. *)
LEMMA AppliedIs ==
  ASSUME Types, SyncInv, at = "saving", NEW next \in NextSteps, ~sync.needsImport,
         Request(next.call).expected = review.revision, Accepts(review, next.call),
         review' = Apply(review, next.call, "view"),
         NEW receipt, receipt = [revision |-> review.revision + 1]
  PROVE  /\ sync.record = review /\ Grows /\ review' \in Reviews /\ Sound(review')
         /\ receipt \in Answer /\ Answers(review', next.call, receipt)
         /\ sync'.imported = sync.imported => TextsAreOf(review)'
         /\ \A m \in DOMAIN review.messages :
               ~(next.call.method = "comment.edit" /\ next.call.message = m)
                   => review'.messages[m].body = review.messages[m].body
<1>1. /\ next.call \in Call /\ Callable(sync.record, next.call)
  BY NextStepIs
<1>2. Request(next.call).expected <= sync.record.revision
  BY <1>1, RequestIs
<1>3. /\ sync.record.revision \in Nat /\ review.revision \in Nat
      /\ sync.record.revision <= review.revision
  BY StateIs, RecordIs DEF SyncInv, StoreInv, RecordIsOld
<1>4. sync.record.revision = review.revision
  BY <1>2, <1>3
<1>5. sync.record = review
  BY <1>4 DEF SyncInv, StoreInv, RecordIsOld
<1>6. PICK id : id = review.revision + 1
  OBVIOUS
<1>7. review \in Reviews /\ Sound(review) /\ "open" \in States /\ Callable(review, next.call)
  BY <1>1, <1>5, StateIs, ScenarioIs
<1>8. /\ review' \in Reviews /\ Sound(review') /\ review'.revision = id
      /\ DOMAIN review.messages \subseteq DOMAIN review'.messages
      /\ Publishes(next.call) =>
            /\ Made(next.call, [revision |-> id]) \in DOMAIN review'.messages
            /\ review'.messages[Made(next.call, [revision |-> id])].by = "view"
      /\ \A m \in DOMAIN review.messages :
            ~(next.call.method = "comment.edit" /\ next.call.message = m)
                => /\ review'.messages[m].by = review.messages[m].by
                   /\ review'.messages[m].body = review.messages[m].body
  BY <1>6, <1>7, ApplyIs
<1>9. Grows
  BY <1>6, <1>8 DEF Grows
<1>10. receipt = [revision |-> id] /\ receipt.revision = id /\ receipt \in Answer /\ id \in Nat
  BY <1>3, <1>6 DEF Answer
<1>11. Answers(review', next.call, receipt)
  BY <1>8, <1>10 DEF Answers
<1>12. ASSUME sync'.imported = sync.imported PROVE TextsAreOf(review)'
  <2> SUFFICES ASSUME NEW key \in DOMAIN sync.imported,
                      review'.messages[Base(key).message].by = "remote"
               PROVE  Base(key).text = review'.messages[Base(key).message].body
    BY <1>12 DEF TextsAreOf, Base
  <2> DEFINE m == Base(key).message
  <2>1. m \in DOMAIN review.messages
    BY <1>5 DEF SyncInv, StoreInv, BasesAreThere
  <2>2. ~(next.call.method = "comment.edit" /\ next.call.message = m)
    <3> SUFFICES ASSUME next.call.method = "comment.edit", next.call.message = m PROVE FALSE
      OBVIOUS
    <3>1. Publishes(next.call) /\ Made(next.call, [revision |-> id]) = m
      BY DEF Publishes, Made
    <3> QED  BY <1>8, <3>1
  <2>3. review.messages[m].by = "remote" /\ review'.messages[m].body = review.messages[m].body
    BY <1>8, <2>1, <2>2
  <2>4. TextsAreOf(review)
    BY <1>5 DEF SyncInv, StoreInv, RecordIsOld
  <2> QED  BY <2>3, <2>4 DEF TextsAreOf
<1> QED  BY <1>5, <1>8, <1>9, <1>10, <1>11, <1>12

LEMMA MutateStep ==
  ASSUME Types, SyncInv, Mutate
  PROVE  Types' /\ SyncInv'
<1>1. at = "saving" /\ discarded' = discarded
  BY DEF Mutate
<1> DEFINE kept(next, r) == Put(sync.pending, next.call, [Request(next.call) EXCEPT !.receipt = r])
           receipt == [revision |-> review.revision + 1]
<1>2. PICK next \in NextSteps :
        \/ /\ Abort(sync.pending) /\ review' = review /\ used' = used
        \/ /\ ~sync.needsImport /\ Request(next.call).receipt # NONE
           /\ Answered(next, Request(next.call).receipt)
           /\ review' = review /\ sync' = sync /\ used' = used
        \/ /\ Abort(Without(sync.pending, next.call)) /\ review' = review /\ used' = used
        \/ /\ Abort(kept(next, NONE)) /\ review' = review /\ used' = used
        \/ /\ ~sync.needsImport /\ Request(next.call).expected = review.revision
           /\ Accepts(review, next.call) /\ review' = Apply(review, next.call, "view")
           /\ Answered(next, receipt) /\ used' = used
           /\ sync' = [sync EXCEPT !.pending = kept(next, receipt)]
        \/ /\ ~sync.needsImport /\ Request(next.call).expected = review.revision
           /\ Accepts(review, next.call) /\ review' = Apply(review, next.call, "view")
           /\ Fails /\ Abort(kept(next, receipt))
        \/ Fails /\ Abort(kept(next, Request(next.call).receipt)) /\ review' = review
  BY DEF Mutate
<1>3. next.call \in Call
  BY NextStepIs
<1>4. ASSUME NEW pending, Abort(pending)
      PROVE  /\ at' = "events" /\ sync' = [sync EXCEPT !.pending = pending]
             /\ ui' = [ui EXCEPT !.dirty = FALSE] /\ ReplyIsKnown'
  BY <1>4, NoReplyFrame DEF Abort, Drawn
<1>5. review' = review => Grows /\ review' \in Reviews /\ Sound(review')
  BY StateIs DEF Grows
<1>6. sync.pending \in Pending /\ sync = [sync EXCEPT !.pending = sync.pending]
  BY SyncParts
<1>7. review' = review => \A call \in DOMAIN sync.pending :
            /\ sync.pending[call].expected <= sync.record.revision
            /\ sync.pending[call].receipt # NONE => Answers(review', call, sync.pending[call].receipt)
  BY DEF SyncInv, StoreInv, RequestsAreOld
<1> HIDE DEF kept, receipt
<1>8. CASE Abort(sync.pending) /\ review' = review /\ used' = used
  BY <1>1, <1>4, <1>5, <1>6, <1>7, <1>8, CallStep
<1>9. CASE /\ ~sync.needsImport /\ Request(next.call).receipt # NONE
           /\ Answered(next, Request(next.call).receipt)
           /\ review' = review /\ sync' = sync /\ used' = used
  <2> DEFINE answer == Request(next.call).receipt
  <2>1. answer \in Answer /\ Answers(review, next.call, answer)
        /\ answer.revision <= sync.record.revision
    BY <1>1, <1>3, <1>9, RequestIs
  <2> HIDE DEF answer
  <2>2. Answered(next, answer)
    BY <1>9 DEF answer
  <2>3. ASSUME answer.revision = review'.revision PROVE TextsAreOf(review)'
    <3>1. sync.record.revision \in Nat /\ review.revision \in Nat /\ sync.record.revision <= review.revision
      BY StateIs, RecordIs DEF SyncInv, StoreInv, RecordIsOld
    <3>2. sync.record.revision = review.revision
      BY <1>9, <2>1, <2>3, <3>1
    <3>3. sync.record = review /\ TextsAreOf(sync.record)
      BY <1>9, <3>2 DEF SyncInv, StoreInv, RecordIsOld
    <3> QED  BY <1>9, <3>3 DEF TextsAreOf, Base
  <2>4. ReplyIsKnown'
    BY <1>9, <2>1, <2>2, <2>3, ReplyIsNew
  <2>5. at' = "reply" /\ ui' = ui
    BY <2>2 DEF Answered
  <2>6. sync' = [sync EXCEPT !.pending = sync.pending]
    BY <1>6, <1>9
  <2> QED  BY <1>1, <1>5, <1>6, <1>7, <1>9, <2>4, <2>5, <2>6, CallStep
<1>10. CASE Abort(Without(sync.pending, next.call)) /\ review' = review /\ used' = used
  <2> DEFINE pending == Without(sync.pending, next.call)
  <2>1. pending \in Pending
    <3>1. PICK R : R = [expected: Nat, receipt: {NONE} \cup Answer]
      OBVIOUS
    <3>2. sync.pending \in Functions(Call, R)
      BY <1>6, <3>1 DEF Pending
    <3>3. pending \in Functions(Call, R)
      BY <3>2, WithoutKeeps
    <3> QED  BY <3>1, <3>3 DEF Pending
  <2>2. DOMAIN pending = DOMAIN sync.pending \ {next.call}
    BY WithoutDomain, Zenon
  <2>3. \A k \in DOMAIN sync.pending : k # next.call => pending[k] = sync.pending[k]
    BY WithoutElsewhere
  <2>4. Abort(pending)
    BY <1>10
  <2> HIDE DEF pending
  <2>5. \A call \in DOMAIN pending :
            /\ pending[call].expected <= sync.record.revision
            /\ pending[call].receipt # NONE => Answers(review', call, pending[call].receipt)
    BY <1>7, <1>10, <2>2, <2>3
  <2> QED  BY <1>1, <1>4, <1>5, <1>10, <2>1, <2>4, <2>5, CallStep
<1>11. ASSUME NEW r \in {NONE} \cup Answer, r # NONE => Answers(review', next.call, r),
              Grows, review' \in Reviews
       PROVE  /\ kept(next, r) \in Pending
              /\ \A call \in DOMAIN kept(next, r) :
                    /\ kept(next, r)[call].expected <= sync.record.revision
                    /\ kept(next, r)[call].receipt # NONE
                          => Answers(review', call, kept(next, r)[call].receipt)
  <2>1. PICK call \in Call : call = next.call
    BY <1>3
  <2>2. kept(next, r) = Put(sync.pending, call, [Request(call) EXCEPT !.receipt = r])
    BY <2>1 DEF kept
  <2> QED  BY <1>11, <2>1, <2>2, KeptRequestIs
<1>12. CASE Abort(kept(next, NONE)) /\ review' = review /\ used' = used
  BY <1>1, <1>4, <1>5, <1>11, <1>12, CallStep
<1>13. CASE /\ ~sync.needsImport /\ Request(next.call).expected = review.revision
            /\ Accepts(review, next.call) /\ review' = Apply(review, next.call, "view")
            /\ Answered(next, receipt) /\ used' = used
            /\ sync' = [sync EXCEPT !.pending = kept(next, receipt)]
  <2>1. sync' = [imported |-> sync.imported, nextUi |-> sync.nextUi, record |-> sync.record,
                 signature |-> sync.signature, needsImport |-> sync.needsImport,
                 conflict |-> sync.conflict, pending |-> kept(next, receipt)]
    BY <1>13, SyncParts
  <2>2. sync'.imported = sync.imported /\ sync'.needsImport = sync.needsImport
    BY <2>1
  <2>3. /\ Grows /\ review' \in Reviews /\ Sound(review')
        /\ receipt \in Answer /\ Answers(review', next.call, receipt) /\ TextsAreOf(review)'
    BY <1>1, <1>13, <2>2, AppliedIs DEF receipt
  <2>4. ReplyIsKnown'
    BY <1>13, <2>2, <2>3, ReplyIsNew
  <2>5. at' = "reply" /\ ui' = ui
    BY <1>13 DEF Answered
  <2> QED  BY <1>1, <1>11, <1>13, <2>3, <2>4, <2>5, CallStep
<1>14. CASE /\ ~sync.needsImport /\ Request(next.call).expected = review.revision
            /\ Accepts(review, next.call) /\ review' = Apply(review, next.call, "view")
            /\ Fails /\ Abort(kept(next, receipt))
  <2>1. /\ Grows /\ review' \in Reviews /\ Sound(review')
        /\ receipt \in Answer /\ Answers(review', next.call, receipt)
    BY <1>1, <1>14, AppliedIs DEF receipt
  <2> QED  BY <1>1, <1>4, <1>11, <1>14, <2>1, CallStep
<1>15. CASE Fails /\ Abort(kept(next, Request(next.call).receipt)) /\ review' = review
  <2> DEFINE r == Request(next.call).receipt
  <2>1. r \in {NONE} \cup Answer /\ (r # NONE => Answers(review', next.call, r))
    <3>1. Request(next.call).receipt \in {NONE} \cup Answer
      BY <1>3, RequestIs
    <3> QED  BY <1>3, <1>15, <3>1, RequestIs
  <2>2. Abort(kept(next, r))
    BY <1>15
  <2> HIDE DEF r
  <2> QED  BY <1>1, <1>4, <1>5, <1>11, <1>15, <2>1, <2>2, CallStep
<1> QED  BY <1>2, <1>8, <1>9, <1>10, <1>12, <1>13, <1>14, <1>15

(* What the baseline holds once a call has been answered. *)
LEMMA BaselineAfterIs ==
  ASSUME Types, SyncInv, at = "reply",
         NEW imported, imported = BaselineAfter(step.of, step.call, step.answer)
  PROVE  /\ imported \in Bases
         /\ \A id \in DOMAIN imported :
               \/ id \in DOMAIN sync.imported /\ imported[id] = sync.imported[id]
               \/ \E c \in Comments :
                     /\ c.id = id /\ Publishes(step.call)
                     /\ imported[id] = [message |-> Made(step.call, step.answer),
                                        text |-> c.text, disp |-> c.disp]
<1>1. /\ step.call \in Call /\ step.answer \in Answer
      /\ Publishes(step.call) =>
            step.of \in CurrentIds /\ Made(step.call, step.answer) \in DOMAIN review.messages
  BY DEF SyncInv, StoreInv, ReplyIsKnown, Answers
<1>2. sync.imported \in Functions(Ids, BaseOf)
  BY StateIs DEF Bases
<1>3. CASE step.call.method = "comment.remove"
  <2>1. imported = Without(sync.imported, step.of)
    BY <1>3 DEF BaselineAfter
  <2>2. imported \in Functions(Ids, BaseOf)
    BY <1>2, <2>1, WithoutKeeps
  <2>3. DOMAIN imported = DOMAIN sync.imported \ {step.of}
    BY <2>1, WithoutDomain, Zenon
  <2>4. \A id \in DOMAIN sync.imported : id # step.of => imported[id] = sync.imported[id]
    BY <2>1, WithoutElsewhere
  <2> QED  BY <2>2, <2>3, <2>4 DEF Bases
<1>4. CASE Publishes(step.call)
  <2>1. PICK c \in Comments : c = CHOOSE d \in Comments : d.id = step.of
    BY <1>1, <1>4 DEF CurrentIds
  <2>2. c.id = step.of
    BY <1>1, <1>4, <2>1 DEF CurrentIds
  <2>3. c \in Comment /\ c.id \in Ids /\ c.text \in Texts /\ c.disp \in States
    BY CommentsAre DEF Comment
  <2>4. PICK base : base = [message |-> Made(step.call, step.answer), text |-> c.text, disp |-> c.disp]
    OBVIOUS
  <2>5. imported = Put(sync.imported, step.of, base)
    <3>1. step.call.method \in {"comment.add", "comment.reply", "comment.edit"}
      BY <1>4 DEF Publishes
    <3>2. base = [message |-> IF step.call.method \in {"comment.add", "comment.reply"}
                              THEN step.answer.revision ELSE step.call.message,
                  text |-> c.text, disp |-> c.disp]
      BY <2>4, <3>1 DEF Made
    <3> QED  BY <2>1, <3>1, <3>2 DEF BaselineAfter
  <2>6. base \in BaseOf
    <3>1. Made(step.call, step.answer) \in Nat
      <4>1. \A m \in DOMAIN review.messages : m \in 1..review.revision
        BY StateIs, RecordIs
      <4>2. review.revision \in Nat
        BY StateIs, RecordIs
      <4> QED  BY <1>1, <1>4, <4>1, <4>2
    <3> QED  BY <2>3, <2>4, <3>1 DEF BaseOf
  <2>7. step.of \in Ids
    BY <2>2, <2>3
  <2>8. imported \in Functions(Ids, BaseOf)
    BY <1>2, <2>5, <2>6, <2>7, PutKeeps
  <2>9. DOMAIN imported = DOMAIN sync.imported \cup {step.of}
    BY <2>5, PutDomain, Zenon
  <2>10. imported[step.of] = base
    BY <2>5, PutThere
  <2>11. \A id \in DOMAIN sync.imported : id # step.of => imported[id] = sync.imported[id]
    BY <2>5, PutElsewhere
  <2>12. ASSUME NEW id \in DOMAIN imported
         PROVE  \/ id \in DOMAIN sync.imported /\ imported[id] = sync.imported[id]
                \/ \E d \in Comments :
                      /\ d.id = id /\ Publishes(step.call)
                      /\ imported[id] = [message |-> Made(step.call, step.answer),
                                         text |-> d.text, disp |-> d.disp]
    <3>1. CASE id = step.of
      BY <1>4, <2>2, <2>4, <2>10, <3>1
    <3>2. CASE id # step.of
      BY <2>9, <2>11, <3>2
    <3> QED  BY <3>1, <3>2
  <2> QED  BY <2>8, <2>12 DEF Bases
<1>5. CASE step.call.method # "comment.remove" /\ ~Publishes(step.call)
  <2>1. imported = sync.imported
    BY <1>5 DEF BaselineAfter, Publishes
  <2> QED  BY <2>1, StateIs
<1> QED  BY <1>3, <1>4, <1>5

LEMMA ReplyStep ==
  ASSUME Types, SyncInv, Reply
  PROVE  Types' /\ SyncInv'
<1> DEFINE imported == BaselineAfter(step.of, step.call, step.answer)
           pending == Without(sync.pending, step.call)
<1>1. at = "reply" /\ review' = review /\ discarded' = discarded
  BY DEF Reply
<1>2. CASE Fails /\ Abort(sync.pending)
  <2>1. /\ at' = "events" /\ sync' = [sync EXCEPT !.pending = sync.pending]
        /\ ui' = [ui EXCEPT !.dirty = FALSE] /\ ReplyIsKnown'
    BY <1>2, NoReplyFrame DEF Abort, Drawn
  <2>2. sync.pending \in Pending /\ Grows /\ review' \in Reviews /\ Sound(review')
    BY <1>1, SyncParts, StateIs DEF Grows
  <2>3. \A call \in DOMAIN sync.pending :
            /\ sync.pending[call].expected <= sync.record.revision
            /\ sync.pending[call].receipt # NONE => Answers(review', call, sync.pending[call].receipt)
    BY <1>1 DEF SyncInv, StoreInv, RequestsAreOld
  <2> QED  BY <1>1, <1>2, <2>1, <2>2, <2>3, CallStep
<1>3. CASE /\ at' = "saving" /\ ui' = ui /\ used' = used
           /\ sync' = [sync EXCEPT !.record = review, !.imported = imported, !.pending = pending,
                                   !.needsImport = NeedsImportAfter(step.answer)]
  <2> DEFINE needs == NeedsImportAfter(step.answer)
  <2>1. sync' = [imported |-> imported, nextUi |-> sync.nextUi, record |-> review,
                 signature |-> sync.signature, needsImport |-> needs, conflict |-> sync.conflict,
                 pending |-> pending]
    BY <1>3, SyncParts
  <2>2. needs \in BOOLEAN /\ (needs <=> step.answer.revision # review.revision)
    BY DEF NeedsImportAfter
  <2>3. /\ imported \in Bases
        /\ \A id \in DOMAIN imported :
              \/ id \in DOMAIN sync.imported /\ imported[id] = sync.imported[id]
              \/ \E c \in Comments :
                    /\ c.id = id /\ Publishes(step.call)
                    /\ imported[id] = [message |-> Made(step.call, step.answer),
                                       text |-> c.text, disp |-> c.disp]
    BY <1>1, BaselineAfterIs
  <2>4. pending \in Pending
    <3>1. PICK R : R = [expected: Nat, receipt: {NONE} \cup Answer]
      OBVIOUS
    <3>2. sync.pending \in Functions(Call, R)
      BY <3>1, SyncParts DEF Pending
    <3>3. pending \in Functions(Call, R)
      BY <3>2, WithoutKeeps
    <3> QED  BY <3>1, <3>3 DEF Pending
  <2>5. DOMAIN pending = DOMAIN sync.pending \ {step.call}
    BY WithoutDomain, Zenon
  <2>6. \A k \in DOMAIN sync.pending : k # step.call => pending[k] = sync.pending[k]
    BY WithoutElsewhere
  <2> HIDE DEF imported, pending, needs
  <2>7. /\ sync'.imported = imported /\ sync'.record = review /\ sync'.needsImport = needs
        /\ sync'.pending = pending
    BY <2>1
  <2>8. Types'
    <3>1. SyncIs(sync')
      BY <2>1, <2>2, <2>3, <2>4, StateIs, SyncParts DEF SyncIs
    <3> QED  BY <1>1, <1>3, <2>7, <3>1, StateIs, PartsAre, PartsHold DEF Phases
  <2>9. /\ sync.record.revision \in Nat /\ review.revision \in Nat
        /\ sync.record.revision <= review.revision
        /\ DOMAIN sync.record.messages \subseteq DOMAIN review.messages
    BY StateIs, RecordIs DEF SyncInv, StoreInv, RecordIsOld
  <2>10. /\ Answers(review, step.call, step.answer)
         /\ step.answer.revision = review.revision => TextsAreOf(review)
    BY <1>1 DEF SyncInv, StoreInv, ReplyIsKnown
  <2>11. ASSUME NEW id \in DOMAIN imported
         PROVE  imported[id].message \in DOMAIN review.messages
    <3>1. CASE id \in DOMAIN sync.imported /\ imported[id] = sync.imported[id]
      BY <2>9, <3>1 DEF SyncInv, StoreInv, BasesAreThere, Base
    <3>2. CASE Publishes(step.call) /\ imported[id].message = Made(step.call, step.answer)
      BY <2>10, <3>2 DEF Answers
    <3> QED  BY <2>3, <2>11, <3>1, <3>2
  <2>12. BasesAreThere'
    BY <2>7, <2>11 DEF BasesAreThere, Base
  <2>13. ASSUME ~needs, NEW id \in DOMAIN imported,
                review.messages[imported[id].message].by = "remote"
         PROVE  imported[id].text = review.messages[imported[id].message].body
    <3>1. step.answer.revision = review.revision
      BY <2>2, <2>13
    <3>2. CASE id \in DOMAIN sync.imported /\ imported[id] = sync.imported[id]
      BY <2>10, <2>13, <3>1, <3>2 DEF TextsAreOf, Base
    <3>3. CASE Publishes(step.call) /\ imported[id].message = Made(step.call, step.answer)
      BY <2>10, <2>13, <3>1, <3>3 DEF Answers
    <3> QED  BY <2>3, <2>13, <3>2, <3>3
  <2>14. RecordIsOld'
    <3>1. ~sync'.needsImport => TextsAreOf(sync.record)'
      BY <2>7, <2>13 DEF TextsAreOf, Base
    <3> QED  BY <1>1, <2>7, <2>9, <3>1 DEF RecordIsOld
  <2>15. RequestsAreOld'
    <3> SUFFICES ASSUME NEW call \in DOMAIN pending
                 PROVE  /\ pending[call].expected <= review.revision
                        /\ pending[call].receipt # NONE =>
                              /\ Answers(review, call, pending[call].receipt)
                              /\ pending[call].receipt.revision <= review.revision
      BY <1>1, <2>7 DEF RequestsAreOld, Answers
    <3>1. call \in DOMAIN sync.pending /\ pending[call] = sync.pending[call]
      BY <2>5, <2>6
    <3>2. sync.pending[call] \in [expected: Nat, receipt: {NONE} \cup Answer]
      BY <3>1, PendingAre
    <3>3. /\ sync.pending[call].expected <= sync.record.revision
          /\ sync.pending[call].receipt # NONE => Answers(review, call, sync.pending[call].receipt)
      BY <3>1 DEF SyncInv, StoreInv, RequestsAreOld
    <3>4. sync.pending[call].expected \in Nat
      BY <3>2
    <3>5. pending[call].expected <= review.revision
      BY <2>9, <3>1, <3>3, <3>4
    <3>6. sync.pending[call].receipt # NONE => sync.pending[call].receipt.revision <= review.revision
      BY <3>3 DEF Answers
    <3> QED  BY <3>1, <3>3, <3>5, <3>6
  <2>16. ReplyIsKnown'
    BY <1>3, NoReplyFrame
  <2>17. Comments' = Comments /\ CurrentIds' = CurrentIds
    BY <1>3 DEF Comments, CurrentIds
  <2>18. OneEach /\ Numbered /\ GoneAreDiscarded /\ WritersSaw
    BY DEF SyncInv, CommentsInv
  <2>19. OneEach' /\ Numbered'
    BY <1>3, <2>17, <2>18 DEF OneEach, Numbered
  <2>20. GoneAreDiscarded'
    <3> SUFFICES ASSUME NEW id \in DOMAIN imported \ CurrentIds
                 PROVE  imported[id].message \in discarded
      BY <1>1, <2>7, <2>17 DEF GoneAreDiscarded, Base
    <3>1. id \in DOMAIN sync.imported /\ imported[id] = sync.imported[id]
      BY <2>3 DEF CurrentIds
    <3> QED  BY <2>18, <3>1 DEF GoneAreDiscarded, Base
  <2>21. WritersSaw'
    <3> SUFFICES ASSUME NEW c \in Comments, c.id \in DOMAIN imported
                 PROVE  \/ c.text = imported[c.id].text
                        \/ Knows(c.basis, imported[c.id].text)
                        \/ imported[c.id].message \in discarded
      BY <1>1, <2>7, <2>17 DEF WritersSaw, Imported, Base
    <3>1. CASE c.id \in DOMAIN sync.imported /\ imported[c.id] = sync.imported[c.id]
      BY <2>18, <3>1 DEF WritersSaw, Imported, Base
    <3>2. CASE \E d \in Comments : d.id = c.id /\ imported[c.id].text = d.text
      BY <2>18, <3>2 DEF OneEach
    <3> QED  BY <2>3, <3>1, <3>2
  <2>22. DraftIsOfNow'
    <3> DEFINE c == LastHumanAt(ui.draft.at)
    <3> SUFFICES ASSUME ui.draft # NoDraft, HumansAt(ui.draft.at) # {}
                 PROVE  /\ Knows(ui.draft.basis, c.text)
                        /\ c.id \in DOMAIN imported =>
                              \/ Knows(ui.draft.basis, imported[c.id].text)
                              \/ imported[c.id].message \in discarded
      <4>1. ui'.comments = ui.comments /\ ui'.draft = ui.draft /\ sync'.imported = imported
            /\ discarded' = discarded
        BY <1>1, <1>3, <2>7
      <4>2. HumansAt(ui.draft.at)' = HumansAt(ui.draft.at)
            /\ LastHumanAt(ui.draft.at)' = LastHumanAt(ui.draft.at)
        BY <4>1 DEF HumansAt, HumansIn, ShownIn, LastHumanAt
      <4> QED  BY <4>1, <4>2 DEF DraftIsOfNow, Imported, Base
    <3>1. /\ Knows(ui.draft.basis, c.text)
          /\ Imported(c.id) => Knows(ui.draft.basis, Base(c.id).text) \/ Base(c.id).message \in discarded
      BY DEF SyncInv, DraftIsOfNow
    <3>2. c \in Comments
      BY LastHumanIs
    <3> HIDE DEF c
    <3>3. CASE c.id \in DOMAIN sync.imported /\ imported[c.id] = sync.imported[c.id]
      BY <3>1, <3>3 DEF Imported, Base
    <3>4. CASE \E d \in Comments : d.id = c.id /\ imported[c.id].text = d.text
      BY <2>18, <3>1, <3>2, <3>4 DEF OneEach
    <3> QED  BY <2>3, <3>1, <3>3, <3>4
  <2> QED  BY <2>8, <2>12, <2>14, <2>15, <2>16, <2>19, <2>20, <2>21, <2>22
              DEF SyncInv, StoreInv, CommentsInv
<1> QED  BY <1>2, <1>3, Zenon DEF Reply

(* ------------------------------ the others ------------------------------ *)
LEMMA RemoteStep ==
  ASSUME Types, SyncInv, Remote
  PROVE  Types' /\ SyncInv'
<1>1. /\ ui' = ui /\ sync' = sync /\ at' = at /\ step' = step /\ discarded' = discarded
      /\ used' = [used EXCEPT !.remote = @ + 1]
  BY DEF Remote
<1>2. PICK call \in RemoteCalls : Accepts(review, call) /\ review' = Apply(review, call, "remote")
  BY DEF Remote
<1>3. Callable(review, call)
  <2>1. \A thread \in Threads(review) : thread \in DOMAIN review.messages \cap DOMAIN review.dispositions
    BY StateIs DEF Threads, Sound
  <2> QED  BY <2>1, ScenarioIs DEF RemoteCalls, Callable
<1>4. PICK id : id = review.revision + 1
  OBVIOUS
<1>5. review \in Reviews /\ Sound(review) /\ "open" \in States
  BY StateIs, ScenarioIs
<1>6. /\ review' \in Reviews /\ Sound(review') /\ review'.revision = id
      /\ DOMAIN review.messages \subseteq DOMAIN review'.messages
  <2>1. PICK who \in {"view", "remote"} : who = "remote"
    OBVIOUS
  <2>2. review' = Apply(review, call, who) /\ Accepts(review, call)
    BY <1>2, <2>1
  <2>3. /\ review' \in Reviews /\ Sound(review') /\ review'.revision = id
        /\ DOMAIN review.messages \subseteq DOMAIN review'.messages
        /\ Publishes(call) =>
              /\ Made(call, [revision |-> id]) \in DOMAIN review'.messages
              /\ review'.messages[Made(call, [revision |-> id])].by = who
        /\ \A m \in DOMAIN review.messages :
              ~(call.method = "comment.edit" /\ call.message = m)
                  => /\ review'.messages[m].by = review.messages[m].by
                     /\ review'.messages[m].body = review.messages[m].body
    BY <1>3, <1>4, <1>5, <2>2, ApplyIs
  <2> QED  BY <2>3
<1>7. Grows
  BY <1>4, <1>6 DEF Grows
<1>8. Types'
  <2>1. UsedIs(used')
    <3>1. used \in [of: Scenarios, events: Nat, remote: Nat, failures: Nat]
      BY DEF Types
    <3> QED  BY <1>1, <3>1 DEF UsedIs
  <2> QED  BY <1>1, <1>6, <2>1, StateIs, PartsAre, PartsHold
<1>9. BasesAreThere' /\ RecordIsOld'
  BY <1>1, <1>7, RecordKeeps DEF SyncInv
<1>10. RequestsAreOld'
  <2> SUFFICES ASSUME NEW k \in DOMAIN sync.pending
               PROVE  /\ sync.pending[k].expected <= sync.record.revision
                      /\ sync.pending[k].receipt # NONE =>
                            /\ Answers(review', k, sync.pending[k].receipt)
                            /\ at = "saving" => sync.pending[k].receipt.revision <= sync.record.revision
    BY <1>1 DEF RequestsAreOld, Answers
  <2>1. sync.pending[k] \in [expected: Nat, receipt: {NONE} \cup Answer]
    BY PendingAre
  <2>2. sync.pending[k].receipt # NONE => sync.pending[k].receipt \in Answer
    BY <2>1
  <2>3. /\ sync.pending[k].expected <= sync.record.revision
        /\ sync.pending[k].receipt # NONE =>
              /\ Answers(review, k, sync.pending[k].receipt)
              /\ at = "saving" => sync.pending[k].receipt.revision <= sync.record.revision
    BY DEF SyncInv, StoreInv, RequestsAreOld
  <2>4. sync.pending[k].receipt # NONE => Answers(review', k, sync.pending[k].receipt)
    BY <1>6, <1>7, <2>2, <2>3, AnswersKeep
  <2> QED  BY <2>3, <2>4
<1>11. ReplyIsKnown'
  <2> SUFFICES ASSUME at = "reply" PROVE ReplyIsKnown'
    BY <1>1 DEF ReplyIsKnown
  <2>1. /\ step.call \in Call /\ step.answer \in Answer /\ ~sync.needsImport
        /\ Answers(review, step.call, step.answer)
        /\ Publishes(step.call) => step.of \in CurrentIds
        /\ step.call.method = "comment.remove" => step.of \in Ids
    BY DEF SyncInv, StoreInv, ReplyIsKnown
  <2>2. Answers(review', step.call, step.answer)
    BY <1>6, <1>7, <2>1, AnswersKeep
  <2>3. step.answer.revision # review'.revision
    <3>1. step.answer.revision \in Nat /\ review.revision \in Nat
      BY <1>5, <2>1, RecordIs DEF Answer
    <3>2. step.answer.revision <= review.revision
      BY <2>1 DEF Answers
    <3> QED  BY <1>4, <1>6, <3>1, <3>2
  <2>4. CurrentIds' = CurrentIds
    BY <1>1 DEF CurrentIds, Comments
  <2>5. /\ step'.call \in Call /\ step'.answer \in Answer /\ ~sync'.needsImport
        /\ Answers(review', step'.call, step'.answer)
        /\ step'.answer.revision # review'.revision
        /\ Publishes(step'.call) => step'.of \in CurrentIds'
        /\ step'.call.method = "comment.remove" => step'.of \in Ids
    BY <1>1, <2>1, <2>2, <2>3, <2>4
  <2> QED  BY <2>5 DEF ReplyIsKnown
<1>12. CommentsInv'
  BY <1>1, CommentsFrame DEF SyncInv
<1>13. DraftIsOfNow'
  BY <1>1, DraftFrame DEF SyncInv
<1> QED  BY <1>8, <1>9, <1>10, <1>11, <1>12, <1>13 DEF SyncInv, StoreInv

(* ------------------------------ the whole ------------------------------- *)
LEMMA InitHolds ==
  ASSUME Init
  PROVE  Types /\ SyncInv
<1>1. \A D, R : <<>> \in Functions(D, R)
  <2> SUFFICES ASSUME NEW D, NEW R PROVE <<>> \in Functions(D, R)
    OBVIOUS
  <2>1. {} \in SUBSET D /\ <<>> \in [{} -> R]
    OBVIOUS
  <2> QED  BY <2>1, FunctionsHold
<1>2. DOMAIN <<>> = {} /\ <<>> \in Seq(Comment)
  OBVIOUS
<1>3. /\ review = [revision |-> 1, messages |-> <<>>, dispositions |-> <<>>, marks |-> {}]
      /\ ui = [comments |-> <<>>, nextId |-> 0, marks |-> {}, draft |-> NoDraft, dirty |-> FALSE]
      /\ sync = [imported |-> <<>>, nextUi |-> 0, record |-> review,
                 signature |-> [comments |-> <<>>, marks |-> {}],
                 needsImport |-> FALSE, conflict |-> FALSE, pending |-> <<>>]
      /\ at = "events"
  BY DEF Init
<1>4. review.messages = <<>> /\ review \in Reviews /\ Sound(review)
  <2>1. review \in Reviews
    BY <1>1, <1>3 DEF Reviews
  <2> QED  BY <1>2, <1>3, <2>1 DEF Sound
<1>5. Types
  <2>1. used \in [of: Scenarios, events: Nat, remote: Nat, failures: Nat]
    BY DEF Init
  <2>2. ui \in [comments: Seq(Comment), nextId: Nat, marks: SUBSET Files, draft: Draft, dirty: BOOLEAN]
    BY <1>2, <1>3 DEF Draft
  <2>3. sync \in [imported: Bases, nextUi: Nat, record: Reviews,
                  signature: [comments: Seq(Comment), marks: SUBSET Files],
                  needsImport: BOOLEAN, conflict: BOOLEAN, pending: Pending]
    BY <1>1, <1>2, <1>3, <1>4 DEF Bases, Pending
  <2> QED  BY <1>3, <1>4, <2>1, <2>2, <2>3 DEF Types, Phases
<1>6. sync.imported = <<>> /\ sync.pending = <<>> /\ sync.record = review /\ ui.draft = NoDraft
  BY <1>3
<1>7. StoreInv
  <2>1. BasesAreThere /\ TextsAreOf(sync.record) /\ RequestsAreOld /\ ReplyIsKnown
    BY <1>2, <1>3, <1>6 DEF BasesAreThere, TextsAreOf, RequestsAreOld, ReplyIsKnown
  <2>2. sync.record.revision <= review.revision
    BY <1>3
  <2> QED  BY <1>6, <2>1, <2>2 DEF StoreInv, RecordIsOld
<1>8. Comments = {}
  BY <1>2, <1>3 DEF Comments, ToSet
<1>9. CommentsInv
  BY <1>2, <1>6, <1>8 DEF CommentsInv, OneEach, Numbered, GoneAreDiscarded, WritersSaw
<1>10. DraftIsOfNow
  BY <1>6 DEF DraftIsOfNow
<1> QED  BY <1>5, <1>7, <1>9, <1>10 DEF SyncInv

LEMMA StepHolds ==
  ASSUME Types, SyncInv, [Next]_vars
  PROVE  Types' /\ SyncInv'
<1>1. CASE UNCHANGED vars
  <2>1. /\ review' = review /\ ui' = ui /\ sync' = sync /\ at' = at /\ step' = step
        /\ discarded' = discarded /\ used' = used
    BY <1>1 DEF vars
  <2>2. Types'
    BY <2>1 DEF Types
  <2>3. BasesAreThere' /\ RecordIsOld'
    BY <2>1, StoreFrame DEF SyncInv
  <2>4. RequestsAreOld'
    BY <2>1, RequestsFrame DEF SyncInv
  <2>5. ReplyIsKnown'
    BY <2>1 DEF SyncInv, StoreInv, ReplyIsKnown, TextsAreOf, Answers, CurrentIds, Comments, Base
  <2>6. CommentsInv' /\ DraftIsOfNow'
    BY <2>1, CommentsFrame, DraftFrame DEF SyncInv
  <2> QED  BY <2>2, <2>3, <2>4, <2>5, <2>6 DEF SyncInv, StoreInv
<1>2. CASE Reader
  BY <1>2, OpenDraftStep, RemoveMarkStep, DisposeStep, CommitDraftStep, EmptyDraftStep,
     CancelDraftStep, ToggleReviewedStep DEF Reader
<1>3. CASE Turn
  BY <1>3, SkipPollStep, DrawOnlyStep, StartSaveStep, FinishSaveStep, MutateStep, ReplyStep DEF Turn
<1>4. CASE Poll \/ Remote
  BY <1>4, PollStep, RemoteStep
<1> QED  BY <1>1, <1>2, <1>3, <1>4 DEF Next

(* What the view knows of the store, its requests and its readers is so      *)
(* whatever the others write and whichever calls fail.                       *)
THEOREM SyncIsSound == Spec => [](Types /\ SyncInv)
<1>1. Init => Types /\ SyncInv
  BY InitHolds
<1>2. Types /\ SyncInv /\ [Next]_vars => (Types /\ SyncInv)'
  BY StepHolds
<1> QED  BY <1>1, <1>2, PTL DEF Spec

(* The messages a step of a save changes. *)
LEMMA NothingIsOverwritten ==
  ASSUME Types, SyncInv, [Next]_vars, NEW m \in DOMAIN review.messages,
         at = "saving", at' # "saving",
         review.messages[m].by = "remote", review'.messages[m].body # review.messages[m].body
  PROVE  \E c \in Comments : /\ Imported(c.id) /\ Base(c.id).message = m
                             /\ Knows(c.basis, review.messages[m].body) \/ m \in discarded
<1>1. review' # review
  OBVIOUS
<1>2. Mutate
  <2>1. ~(UNCHANGED vars) /\ ~Remote /\ ~Poll
    BY DEF vars, Remote, Poll
  <2>2. ~Reader
    BY DEF Reader, OpenDraft, RemoveMark, Dispose, CommitDraft, EmptyDraft, CancelDraft,
           ToggleReviewed, Event, Taking
  <2>3. ~SkipPoll /\ ~DrawOnly /\ ~StartSave /\ ~FinishSave /\ ~Reply
    BY <1>1 DEF SkipPoll, DrawOnly, StartSave, FinishSave, Reply
  <2> QED  BY <2>1, <2>2, <2>3 DEF Next, Turn
<1>3. PICK next \in NextSteps :
        /\ ~sync.needsImport /\ Request(next.call).expected = review.revision
        /\ Accepts(review, next.call) /\ review' = Apply(review, next.call, "view")
  BY <1>1, <1>2 DEF Mutate
<1>4. PICK receipt : receipt = [revision |-> review.revision + 1]
  OBVIOUS
<1>5. /\ sync.record = review
      /\ \A k \in DOMAIN review.messages :
            ~(next.call.method = "comment.edit" /\ next.call.message = k)
                => review'.messages[k].body = review.messages[k].body
  BY <1>3, <1>4, AppliedIs
<1>6. next.call.method = "comment.edit" /\ next.call.message = m
  BY <1>5
<1>7. PICK c \in Comments : Imported(c.id) /\ Base(c.id).text # c.text /\ m = Base(c.id).message
  BY <1>6, NextStepIs
<1>8. Base(c.id).text = review.messages[m].body
  <2>1. TextsAreOf(review)
    BY <1>3, <1>5 DEF SyncInv, StoreInv, RecordIsOld
  <2> QED  BY <1>7, <2>1 DEF TextsAreOf, Imported
<1>9. Knows(c.basis, review.messages[m].body) \/ m \in discarded
  BY <1>7, <1>8 DEF SyncInv, CommentsInv, WritersSaw
<1> QED  BY <1>7, <1>9

(* A text of another's that the reader's replaces is the one they were shown *)
(* when they began to write, or of a message whose comment they had removed; *)
(* or they wrote it in a draft beneath which a save had merged another       *)
(* comment or another text than the draft was opened on.                     *)
THEOREM OnlyOvertakenDraftsOverwrite == Spec => OnlyDraftsOverwrite
<1>1. Types /\ SyncInv /\ [Next]_vars =>
        [\A m \in DOMAIN review.messages :
            /\ at = "saving" /\ at' # "saving"
            /\ review.messages[m].by = "remote" /\ review'.messages[m].body # review.messages[m].body
            => \E c \in Comments :
                  /\ Imported(c.id) /\ Base(c.id).message = m
                  /\ \/ review.messages[m].body \in c.basis
                     \/ OVERTAKEN \in c.basis
                     \/ m \in discarded]_vars
  BY NothingIsOverwritten DEF Knows
<1>2. Spec => [](Types /\ SyncInv)
  BY SyncIsSound
<1>3. Spec => [][Next]_vars
  BY PTL DEF Spec
<1> QED  BY <1>1, <1>2, <1>3, PTL DEF OnlyDraftsOverwrite

=============================================================================
