---------------------------- MODULE DiffLoadProofs ----------------------------
(***************************************************************************)
(* The theorem about DiffLoad: nothing older comes back.  A view is a      *)
(* parameter of the invariant and of the lemmas, for a turn makes several  *)
(* of one before the next state has the last of them.                      *)
(***************************************************************************)
EXTENDS DiffLoad, SequenceTheorems, WellFoundedInduction, TLAPS
---------------------------------------------------------------------------
(* Sequences by their elements, whatever these are. *)
Sequence(s) == s \in Seq(ToSet(s))

(* A diff is a version of each file; an older one is below a newer one. *)
Version == [Path -> Nat]
Below(v, w) == \A p \in Path : v[p] <= w[p]

(* What a comparison shows now, which everything it has shown is below. *)
Now(o, s) == IF o \in Watched THEN s ELSE Oldest
Known(o, content, s) == content \in Version /\ Below(content, Now(o, s))

Shows == Options \cup {Review}

(* A job of the pool that has read its diff has read one of its             *)
(* comparison.                                                              *)
JobFields == {"options", "paths", "by", "read"}
HasRead(job) == job.read \notin {Unread, Failed}
JobInv(job, s) ==
    /\ DOMAIN job = JobFields /\ job.options \in Shows
    /\ HasRead(job) => Known(job.options, job.read, s)

(* The history of what was shown ends with what is shown. *)
AppFields == {"options", "shown", "generation", "status", "failed", "cache", "prefetch", "queue",
              "started", "load", "review"}
ShownInv(a, L, s) ==
    /\ DOMAIN a = AppFields
    /\ a.options \in Shows /\ a.generation \in Nat
    /\ L \in [Shows -> Version] /\ \A o \in Shows : Below(L[o], Now(o, s))
    /\ a.shown = L[a.options]

(* The cache has a comparison once. While another one is shown that a       *)
(* choice could leave for it, what is cached of it is not older than what   *)
(* it showed last.                                                          *)
Entries(a) == ToSet(a.cache)
Distinct(cache) == \A i, j \in DOMAIN cache : cache[i].options = cache[j].options => i = j
CacheInv(a, L, s) ==
    /\ Sequence(a.cache) /\ Distinct(a.cache)
    /\ \A e \in Entries(a) :
          /\ e.options \in Cacheable /\ Known(e.options, e.shown, s)
          /\ a.options # Review /\ e.options # a.options => Below(L[e.options], e.shown)

(* A load under way: what is cached of the comparison shown, which it       *)
(* will be another one than, is not older than what is shown; of a hosted   *)
(* review nothing is cached, and a load of some files is one of the         *)
(* comparison shown.                                                        *)
LoadInv(a, s) ==
    a.load # NONE =>
        /\ JobInv(a.load, s)
        /\ a.load.by = NoRequest => a.load.paths = {}
        /\ a.load.paths # {} => a.load.options = a.options
        /\ a.options = Review => Entries(a) = {}
        /\ a.load.options # a.options =>
              \A e \in Entries(a) : e.options = a.options => Below(a.shown, e.shown)

(* A prefetch is of a comparison neither shown, cached nor being loaded. *)
PrefetchInv(a, L, s) ==
    a.prefetch # NONE =>
        /\ JobInv(a.prefetch, s)
        /\ a.prefetch.options \in Cacheable
        /\ a.prefetch.by = NoRequest /\ a.prefetch.paths = {}
        /\ a.prefetch.options # a.options
        /\ \A e \in Entries(a) : e.options # a.prefetch.options
        /\ a.load # NONE => a.load.options # a.prefetch.options
        /\ HasRead(a.prefetch) => Below(L[a.prefetch.options], a.prefetch.read)

(* A hosted review and a comparison are never being loaded together. *)
ReviewInv(a, s) ==
    a.review # NONE => a.load = NONE /\ JobInv(a.review, s) /\ a.review.options = Review

AppInv(a, L, s) ==
    /\ ShownInv(a, L, s) /\ CacheInv(a, L, s)
    /\ LoadInv(a, s) /\ PrefetchInv(a, L, s) /\ ReviewInv(a, s)

(* The client that waits for the load, and what it was told or will be. *)
ByOf(a) == IF a.load = NONE THEN NoRequest ELSE a.load.by
AskedFields == {"state", "options", "paths", "since", "generation"}
IsTrue(request, a) ==
    /\ request.generation \in Nat /\ request.generation <= a.generation
    /\ request.generation = a.generation =>
          /\ a.options = request.options
          /\ \A p \in Path : p \in request.paths \/ request.paths = {} => a.shown[p] >= request.since[p]

Awaits(request, job, s) ==
    /\ DOMAIN request = AskedFields
    /\ request.state = "waiting" /\ request.options = job.options
    /\ job.paths \in {{}, request.paths}
    /\ request.since \in Version /\ Below(request.since, Now(job.options, s))
    /\ HasRead(job) => Below(request.since, job.read)

RequestInv(a, q, s) ==
    /\ \A r \in DOMAIN q : q[r].state = "ok" => IsTrue(q[r], a)
    /\ ByOf(a) # NoRequest => ByOf(a) \in DOMAIN q /\ Awaits(q[ByOf(a)], a.load, s)

(* What the worker has loaded was a diff of what is watched. *)
LiveFields == {"options", "events", "changed", "queued", "loading", "messages"}
LiveInv(l, s) ==
    /\ DOMAIN l = LiveFields /\ Sequence(l.messages)
    /\ \A m \in ToSet(l.messages) : m \in {Started, Failed} \/ Known(l.options, m, s)

UsedFields == {"of", "changes", "inputs", "failures"}

(* What the theorem rests on: what is cached, prefetched or being loaded is   *)
(* something its comparison has shown, and not older than what the view       *)
(* showed of it last wherever a choice could bring it back.                   *)
LoadingInv ==
    /\ source \in Version
    /\ AppInv(app, lastShown, source)
    /\ DOMAIN requests = Requests /\ RequestInv(app, requests, source)
    /\ DOMAIN used = UsedFields
    /\ LiveInv(live, source)
---------------------------------------------------------------------------
(* A sequence is the function of its elements. *)
LEMMA SequenceFacts ==
    ASSUME NEW s, Sequence(s)
    PROVE  /\ Len(s) \in Nat /\ DOMAIN s = 1..Len(s)
           /\ s = [k \in DOMAIN s |-> s[k]]
           /\ \A k \in DOMAIN s : s[k] \in ToSet(s)
           /\ \A c \in ToSet(s) : \E k \in DOMAIN s : c = s[k]
  BY DEF Sequence, ToSet

(* A function from the numbers up to n is a sequence. *)
LEMMA FunctionIsASequence ==
    ASSUME NEW n \in Nat, NEW s, DOMAIN s = 1..n, s = [k \in DOMAIN s |-> s[k]]
    PROVE  Sequence(s) /\ Len(s) = n
  <1>1. s \in [1..n -> ToSet(s)]
    BY DEF ToSet
  <1> QED
    BY <1>1 DEF Sequence

(* A part of a sequence has its elements, in their order. *)
LEMMA PartOfASequence ==
    ASSUME NEW s, Sequence(s), NEW m \in 1..(Len(s) + 1), NEW n \in 0..Len(s)
    PROVE  LET t == SubSeq(s, m, n)
           IN  /\ Sequence(t)
               /\ Len(t) = IF m <= n THEN n - m + 1 ELSE 0
               /\ \A k \in DOMAIN t : m + k - 1 \in DOMAIN s /\ t[k] = s[m + k - 1]
  <1> DEFINE t == SubSeq(s, m, n)
             l == IF m <= n THEN n - m + 1 ELSE 0
  <1>1. Len(s) \in Nat /\ DOMAIN s = 1..Len(s) /\ s \in Seq(ToSet(s))
    BY SequenceFacts DEF Sequence
  <1>2. t = [k \in 1..l |-> s[m + k - 1]]
    BY <1>1
  <1>3. l \in Nat
    BY <1>1
  <1> HIDE DEF t
  <1>4. DOMAIN t = 1..l /\ t = [k \in DOMAIN t |-> t[k]]
    BY <1>2
  <1>5. Sequence(t) /\ Len(t) = l
    BY <1>3, <1>4, FunctionIsASequence
  <1>6. \A k \in DOMAIN t : m + k - 1 \in DOMAIN s /\ t[k] = s[m + k - 1]
    BY <1>1, <1>2, <1>4
  <1> QED
    BY <1>5, <1>6 DEF t

(* Of two sequences, the first is followed by the second. *)
LEMMA JoinedSequences ==
    ASSUME NEW s, NEW t, Sequence(s), Sequence(t)
    PROVE  LET u == s \o t
           IN  /\ Sequence(u)
               /\ Len(u) = Len(s) + Len(t)
               /\ \A k \in DOMAIN u :
                     IF k <= Len(s) THEN k \in DOMAIN s /\ u[k] = s[k]
                     ELSE k - Len(s) \in DOMAIN t /\ u[k] = t[k - Len(s)]
  <1> DEFINE S == ToSet(s) \cup ToSet(t)
             u == s \o t
  <1>1. s \in Seq(S) /\ t \in Seq(S)
    BY DEF Sequence
  <1>2. u \in Seq(S) /\ Len(u) = Len(s) + Len(t) /\ Len(s) \in Nat /\ Len(t) \in Nat
    BY <1>1
  <1>3. \A k \in 1..(Len(s) + Len(t)) : u[k] = IF k <= Len(s) THEN s[k] ELSE t[k - Len(s)]
    BY <1>1
  <1>4. DOMAIN s = 1..Len(s) /\ DOMAIN t = 1..Len(t)
    BY <1>1
  <1> HIDE DEF u, S
  <1>5. DOMAIN u = 1..Len(u) /\ u = [k \in DOMAIN u |-> u[k]]
    BY <1>2
  <1>6. Sequence(u)
    BY <1>2, <1>5, FunctionIsASequence
  <1>7. ASSUME NEW k \in DOMAIN u
        PROVE  IF k <= Len(s) THEN k \in DOMAIN s /\ u[k] = s[k]
               ELSE k - Len(s) \in DOMAIN t /\ u[k] = t[k - Len(s)]
    BY <1>2, <1>3, <1>4, <1>5
  <1> QED
    BY <1>2, <1>6, <1>7 DEF u

(* Without one element, those after it move up by one. *)
LEMMA RemovedFromASequence ==
    ASSUME NEW s, Sequence(s), NEW i \in DOMAIN s
    PROVE  LET t == RemoveAt(s, i)
           IN  /\ Sequence(t)
               /\ \A k \in DOMAIN t :
                     LET j == IF k < i THEN k ELSE k + 1
                     IN  k \in Nat /\ j \in DOMAIN s /\ j # i /\ t[k] = s[j]
  <1> DEFINE front == SubSeq(s, 1, i - 1)
             back == SubSeq(s, i + 1, Len(s))
             t == RemoveAt(s, i)
  <1>1. Len(s) \in Nat /\ DOMAIN s = 1..Len(s) /\ i \in 1..Len(s)
    BY SequenceFacts
  <1>2. /\ Sequence(front) /\ Len(front) = i - 1
        /\ \A k \in DOMAIN front : k \in DOMAIN s /\ front[k] = s[k]
    <2>1. 1 \in 1..(Len(s) + 1) /\ i - 1 \in 0..Len(s)
      BY <1>1
    <2>2. \A k \in DOMAIN s : 1 + k - 1 = k
      BY <1>1
    <2>3. /\ Sequence(front) /\ Len(front) = IF 1 <= i - 1 THEN i - 1 - 1 + 1 ELSE 0
          /\ \A k \in DOMAIN front : 1 + k - 1 \in DOMAIN s /\ front[k] = s[1 + k - 1]
      BY <2>1, PartOfASequence
    <2> HIDE DEF front
    <2>4. DOMAIN front = 1..Len(front)
      BY <2>3, SequenceFacts
    <2> QED
      BY <1>1, <2>3, <2>4
  <1>3. /\ Sequence(back)
        /\ \A k \in DOMAIN back : k \in Nat \ {0} /\ i + k \in DOMAIN s /\ back[k] = s[i + k]
    <2>1. i + 1 \in 1..(Len(s) + 1) /\ Len(s) \in 0..Len(s)
      BY <1>1
    <2>2. /\ Sequence(back)
          /\ \A k \in DOMAIN back : i + 1 + k - 1 \in DOMAIN s /\ back[k] = s[i + 1 + k - 1]
      BY <2>1, PartOfASequence
    <2> HIDE DEF back
    <2>3. DOMAIN back = 1..Len(back) /\ Len(back) \in Nat
      BY <2>2, SequenceFacts
    <2> QED
      BY <1>1, <2>2, <2>3
  <1>4. t = front \o back
    BY DEF RemoveAt
  <1> HIDE DEF front, back, t
  <1>5. /\ Sequence(t)
        /\ \A k \in DOMAIN t :
              IF k <= Len(front) THEN k \in DOMAIN front /\ t[k] = front[k]
              ELSE k - Len(front) \in DOMAIN back /\ t[k] = back[k - Len(front)]
    BY <1>2, <1>3, <1>4, JoinedSequences
  <1>6. \A k \in DOMAIN t : k \in Nat
    BY <1>5, SequenceFacts
  <1>7. ASSUME NEW k \in DOMAIN t
        PROVE  LET j == IF k < i THEN k ELSE k + 1
               IN  k \in Nat /\ j \in DOMAIN s /\ j # i /\ t[k] = s[j]
    <2>1. CASE k < i
      BY <1>1, <1>2, <1>5, <1>6, <2>1
    <2>2. CASE ~(k < i)
      <3>1. k - (i - 1) \in DOMAIN back /\ t[k] = back[k - (i - 1)]
        BY <1>1, <1>2, <1>5, <1>6, <2>2
      <3>2. i + (k - (i - 1)) = k + 1
        BY <1>1, <1>6
      <3> QED
        BY <1>1, <1>3, <1>6, <2>2, <3>1, <3>2
    <2> QED
      BY <2>1, <2>2
  <1> QED
    BY <1>5, <1>7 DEF t

(* All fields of a view but some are what they were. *)
Rest(a, b, changed) == DOMAIN b = AppFields /\ \A f \in AppFields \ changed : b[f] = a[f]

(* What each update of the view leaves alone and what it sets. *)
LEMMA Fields ==
    ASSUME NEW a, DOMAIN a = AppFields, NEW o, NEW content, NEW job, NEW by
    PROVE  /\ Rest(a, Invalidate(a), {"cache", "prefetch", "queue", "started"})
           /\ Invalidate(a).cache = <<>> /\ Invalidate(a).prefetch = NONE
           /\ Rest(a, Reset(a), {"status"})
           /\ Rest(a, ReplaceCached(a, o, content), {"status", "options", "shown", "generation"})
           /\ ReplaceCached(a, o, content).options = o /\ ReplaceCached(a, o, content).shown = content
           /\ ReplaceCached(a, o, content).generation = a.generation + 1
           /\ Rest(a, Noticed(a), {"cache", "prefetch", "queue", "started", "status"})
           /\ Noticed(a).cache = <<>> /\ Noticed(a).prefetch = NONE
           /\ Rest(a, StartUncached(a, o), {"cache", "prefetch", "queue", "started", "review", "load"})
           /\ StartUncached(a, o).cache = <<>> /\ StartUncached(a, o).prefetch = NONE
           /\ StartUncached(a, o).review = NONE /\ StartUncached(a, o).load = Job(o, {}, NoRequest)
           /\ Rest(a, StartReviewLoad(a), {"review", "load"})
           /\ StartReviewLoad(a).review = Job(Review, {}, NoRequest) /\ StartReviewLoad(a).load = NONE
  <1>1. /\ Rest(a, Invalidate(a), {"cache", "prefetch", "queue", "started"})
        /\ Invalidate(a).cache = <<>> /\ Invalidate(a).prefetch = NONE
    BY DEF Invalidate, Rest, AppFields
  <1>2. Rest(a, Reset(a), {"status"})
    BY DEF Reset, Rest, AppFields
  <1>3. /\ Rest(a, ReplaceCached(a, o, content), {"status", "options", "shown", "generation"})
        /\ ReplaceCached(a, o, content).options = o /\ ReplaceCached(a, o, content).shown = content
        /\ ReplaceCached(a, o, content).generation = a.generation + 1
    BY <1>2 DEF ReplaceCached, Rest, AppFields
  <1>4. /\ Rest(a, Noticed(a), {"cache", "prefetch", "queue", "started", "status"})
        /\ Noticed(a).cache = <<>> /\ Noticed(a).prefetch = NONE
    BY <1>1 DEF Noticed, Rest, AppFields
  <1>5. /\ Rest(a, StartUncached(a, o), {"cache", "prefetch", "queue", "started", "review", "load"})
        /\ StartUncached(a, o).cache = <<>> /\ StartUncached(a, o).prefetch = NONE
        /\ StartUncached(a, o).review = NONE /\ StartUncached(a, o).load = Job(o, {}, NoRequest)
    BY <1>1 DEF StartUncached, Rest, AppFields
  <1>6. /\ Rest(a, StartReviewLoad(a), {"review", "load"})
        /\ StartReviewLoad(a).review = Job(Review, {}, NoRequest) /\ StartReviewLoad(a).load = NONE
    BY DEF StartReviewLoad, Rest, AppFields
  <1> QED
    BY <1>1, <1>2, <1>3, <1>4, <1>5, <1>6

(* The order of versions: reflexive, transitive, up to the newest. *)
LEMMA BelowItself ==
    ASSUME NEW v \in Version
    PROVE  Below(v, v)
  BY DEF Version, Below

(* A version below one that is below another is below that. *)
LEMMA BelowThrough ==
    ASSUME NEW u \in Version, NEW v \in Version, NEW w \in Version, Below(u, v), Below(v, w)
    PROVE  Below(u, w)
  BY DEF Version, Below

(* What a comparison shows now is something it has shown. *)
LEMMA NowIsAVersion ==
    ASSUME NEW s \in Version, NEW o
    PROVE  Now(o, s) \in Version /\ Known(o, Now(o, s), s)
  BY BelowItself DEF Now, Known, Version, Oldest

(* What was below the newest stays below it when the source changes. *)
LEMMA NowLater ==
    ASSUME NEW s \in Version, NEW t \in Version, Below(s, t), NEW o, NEW v \in Version, Below(v, Now(o, s))
    PROVE  Below(v, Now(o, t))
  <1>1. Below(Now(o, s), Now(o, t))
    BY BelowItself, NowIsAVersion DEF Now
  <1> QED
    BY <1>1, NowIsAVersion, BelowThrough

(* A change of the source makes nothing known of the view untrue. *)
LEMMA AppLater ==
    ASSUME NEW s \in Version, NEW t \in Version, Below(s, t), NEW a, NEW L, AppInv(a, L, s)
    PROVE  AppInv(a, L, t)
  <1>1. ASSUME NEW o, NEW content, Known(o, content, s)
        PROVE  Known(o, content, t)
    BY <1>1, NowLater DEF Known
  <1>2. ASSUME NEW job, JobInv(job, s)
        PROVE  JobInv(job, t)
    BY <1>1, <1>2 DEF JobInv
  <1>3. ShownInv(a, L, t)
    <2>1. \A o \in Shows : L[o] \in Version /\ Below(L[o], Now(o, s))
      BY DEF AppInv, ShownInv
    <2>2. \A o \in Shows : Below(L[o], Now(o, t))
      BY <2>1, NowLater
    <2> QED
      BY <2>2 DEF AppInv, ShownInv
  <1>4. CacheInv(a, L, t)
    BY <1>1 DEF AppInv, CacheInv
  <1>5. LoadInv(a, t) /\ PrefetchInv(a, L, t) /\ ReviewInv(a, t)
    BY <1>2 DEF AppInv, LoadInv, PrefetchInv, ReviewInv
  <1> QED
    BY <1>3, <1>4, <1>5 DEF AppInv

(* Nor of what clients were told. *)
LEMMA RequestsLater ==
    ASSUME NEW s \in Version, NEW t \in Version, Below(s, t), NEW a, NEW q, RequestInv(a, q, s)
    PROVE  RequestInv(a, q, t)
  <1>1. ASSUME NEW request, NEW job, Awaits(request, job, s)
        PROVE  Awaits(request, job, t)
    BY <1>1, NowLater DEF Awaits
  <1> QED
    BY <1>1 DEF RequestInv

(* Nor of what was loaded. *)
LEMMA LiveLater ==
    ASSUME NEW s \in Version, NEW t \in Version, Below(s, t), NEW l, LiveInv(l, s)
    PROVE  LiveInv(l, t)
  BY NowLater DEF LiveInv, Known

(* A job that has not read its diff promises nothing of it. *)
LEMMA JobFacts ==
    ASSUME NEW o \in Shows, NEW paths, NEW by, NEW s
    PROVE  /\ JobInv(Job(o, paths, by), s) /\ ~HasRead(Job(o, paths, by))
           /\ Job(o, paths, by).options = o
           /\ Job(o, paths, by).paths = paths /\ Job(o, paths, by).by = by
  BY DEF Job, JobInv, JobFields, HasRead

(* An empty cache holds nothing. *)
LEMMA EmptyCache ==
    /\ Sequence(<<>>) /\ Distinct(<<>>) /\ ToSet(<<>>) = {}
  BY DEF Sequence, Distinct, ToSet

(* Without its cache or a job, a view promises less. *)
LEMMA LessIsAsGood ==
    ASSUME NEW a, NEW b, NEW L, NEW s, AppInv(a, L, s),
           Rest(a, b, {"status", "failed", "queue", "started", "generation",
                       "cache", "prefetch", "load", "review"}),
           b.generation \in Nat,
           \/ b.cache = a.cache
           \/ b.cache = <<>>
           \/ Sequence(b.cache) /\ Distinct(b.cache) /\ Entries(b) \subseteq Entries(a),
           b.prefetch \in {a.prefetch, NONE}, b.load \in {a.load, NONE}, b.review \in {a.review, NONE}
    PROVE  AppInv(b, L, s)
  <1>1. DOMAIN b = AppFields /\ b.options = a.options /\ b.shown = a.shown
    BY DEF Rest, AppFields
  <1>2. ShownInv(b, L, s)
    BY <1>1 DEF AppInv, ShownInv
  <1>3. /\ Entries(b) \subseteq Entries(a)
        /\ Sequence(b.cache) /\ Distinct(b.cache)
    BY EmptyCache DEF Entries, AppInv, CacheInv
  <1>4. CacheInv(b, L, s)
    BY <1>1, <1>3 DEF AppInv, CacheInv
  <1>5. LoadInv(b, s)
    BY <1>1, <1>3 DEF AppInv, LoadInv
  <1>6. PrefetchInv(b, L, s)
    BY <1>1, <1>3 DEF AppInv, PrefetchInv
  <1>7. ReviewInv(b, s)
    BY <1>1, <1>3 DEF AppInv, ReviewInv
  <1> QED
    BY <1>2, <1>4, <1>5, <1>6, <1>7 DEF AppInv

(* The entry of a comparison that is cached is one of the cache. *)
LEMMA EntryIsFound ==
    ASSUME NEW a, NEW o, InCache(a, o)
    PROVE  EntryOf(a, o) \in DOMAIN a.cache /\ a.cache[EntryOf(a, o)].options = o
  BY DEF InCache, EntryOf

(* Without its entry, the cache has everything else. *)
LEMMA WithoutFacts ==
    ASSUME NEW a, NEW o, Sequence(a.cache), Distinct(a.cache)
    PROVE  /\ Sequence(Without(a, o)) /\ Distinct(Without(a, o))
           /\ \A e \in ToSet(Without(a, o)) : e \in Entries(a) /\ e.options # o
  <1> DEFINE w == Without(a, o)
             i == EntryOf(a, o)
             at(k) == IF k < i THEN k ELSE k + 1
  <1>1. CASE InCache(a, o)
    <2>1. i \in DOMAIN a.cache /\ a.cache[i].options = o
      BY <1>1, EntryIsFound
    <2>2. w = RemoveAt(a.cache, i)
      BY <1>1 DEF Without
    <2> HIDE DEF i, w
    <2>3. /\ Sequence(w)
          /\ \A k \in DOMAIN w : k \in Nat /\ at(k) \in DOMAIN a.cache /\ at(k) # i /\ w[k] = a.cache[at(k)]
      BY <2>1, <2>2, RemovedFromASequence
    <2>4. \A e \in ToSet(w) : e \in Entries(a) /\ e.options # o
      <3>1. ASSUME NEW e \in ToSet(w)
            PROVE  e \in Entries(a) /\ e.options # o
        <4>1. PICK k \in DOMAIN w : e = w[k]
          BY <2>3, SequenceFacts
        <4> DEFINE j == at(k)
        <4>2. j \in DOMAIN a.cache /\ j # i /\ e = a.cache[j]
          BY <2>3, <4>1
        <4> HIDE DEF j
        <4>3. e.options # o
          BY <2>1, <4>2 DEF Distinct
        <4> QED
          BY <4>2, <4>3, SequenceFacts DEF Entries
      <3> QED
        BY <3>1
    <2>5. Distinct(w)
      <3>1. ASSUME NEW k \in DOMAIN w, NEW l \in DOMAIN w, w[k].options = w[l].options
            PROVE  k = l
        <4>1. at(k) = at(l)
          BY <2>3, <3>1 DEF Distinct
        <4>2. k \in Nat /\ l \in Nat /\ i \in Nat
          BY <2>1, <2>3, SequenceFacts
        <4> QED
          BY <4>1, <4>2
      <3> QED
        BY <3>1 DEF Distinct
    <2> QED
      BY <2>3, <2>4, <2>5 DEF w
  <1>2. CASE ~InCache(a, o)
    <2>1. w = a.cache
      BY <1>2 DEF Without
    <2>2. ASSUME NEW e \in Entries(a)
          PROVE  e.options # o
      BY <1>2, SequenceFacts DEF InCache, Entries
    <2> QED
      BY <2>1, <2>2 DEF Entries
  <1> QED
    BY <1>1, <1>2

(* What the cache holds once a diff is put in it. *)
LEMMA CachedAnew ==
    ASSUME NEW a, DOMAIN a = AppFields, Sequence(a.cache), Distinct(a.cache),
           Active(a), NEW o \in Cacheable, NEW content
    PROVE  LET b == CacheLoaded(a, o, content)
           IN  /\ Rest(a, b, {"cache"})
               /\ Sequence(b.cache) /\ Distinct(b.cache)
               /\ \A e \in Entries(b) : \/ e.options = o /\ e.shown = content
                                        \/ e \in Entries(a) /\ e.options # o
  <1> DEFINE b == CacheLoaded(a, o, content)
             new == [options |-> o, shown |-> content]
             one == <<new>>
             all == one \o Without(a, o)
             n == IF Len(all) < CacheEntries THEN Len(all) ELSE CacheEntries
             c == SubSeq(all, 1, n)
  <1>1. /\ Sequence(one) /\ Len(one) = 1 /\ \A k \in DOMAIN one : k = 1 /\ one[k] = new
    BY DEF Sequence, ToSet
  <1>2. new.options = o /\ new.shown = content
    OBVIOUS
  <1>3. b = [a EXCEPT !.cache = c]
    BY DEF CacheLoaded
  <1>4. Rest(a, b, {"cache"}) /\ b.cache = c
    BY <1>3 DEF Rest, AppFields
  <1> HIDE DEF b, new, one
  <1>5. /\ Sequence(all) /\ Len(all) \in Nat \ {0}
        /\ \A k \in DOMAIN all :
              /\ k \in Nat
              /\ \/ k = 1 /\ all[k] = new
                 \/ k - 1 \in DOMAIN Without(a, o) /\ all[k] = Without(a, o)[k - 1]
    <2>1. Sequence(Without(a, o))
      BY WithoutFacts
    <2>2. /\ Sequence(all)
          /\ Len(all) = Len(one) + Len(Without(a, o))
          /\ \A k \in DOMAIN all :
                IF k <= Len(one) THEN k \in DOMAIN one /\ all[k] = one[k]
                ELSE k - Len(one) \in DOMAIN Without(a, o) /\ all[k] = Without(a, o)[k - Len(one)]
      BY <1>1, <2>1, JoinedSequences
    <2>3. Len(Without(a, o)) \in Nat
      BY <2>1, SequenceFacts
    <2> HIDE DEF all
    <2>4. \A k \in DOMAIN all : k \in Nat
      BY <2>2, SequenceFacts
    <2>5. ASSUME NEW k \in DOMAIN all
          PROVE  \/ k = 1 /\ all[k] = new
                 \/ k - 1 \in DOMAIN Without(a, o) /\ all[k] = Without(a, o)[k - 1]
      BY <1>1, <2>2
    <2> QED
      BY <1>1, <2>2, <2>3, <2>4, <2>5
  <1> HIDE DEF all
  <1>6. n \in 0..Len(all) /\ 1 \in 1..(Len(all) + 1)
    BY <1>5, DiffLoadAssumption
  <1> HIDE DEF n
  <1>7. /\ Sequence(c)
        /\ \A k \in DOMAIN c : k \in Nat /\ k \in DOMAIN all /\ c[k] = all[k]
    <2>1. /\ Sequence(c)
          /\ \A k \in DOMAIN c : 1 + k - 1 \in DOMAIN all /\ c[k] = all[1 + k - 1]
      BY <1>5, <1>6, PartOfASequence
    <2> HIDE DEF c
    <2>2. \A k \in DOMAIN c : k \in Nat
      BY <2>1, SequenceFacts
    <2> QED
      BY <2>1, <2>2
  <1> HIDE DEF c
  <1>8. ASSUME NEW k \in DOMAIN c
        PROVE  /\ k \in Nat
               /\ \/ k = 1 /\ c[k] = new
                  \/ k - 1 \in DOMAIN Without(a, o) /\ c[k] = Without(a, o)[k - 1]
    BY <1>5, <1>7
  <1>9. ASSUME NEW k \in DOMAIN Without(a, o)
        PROVE  k # 0 /\ Without(a, o)[k] \in Entries(a) /\ Without(a, o)[k].options # o
    <2>1. k # 0 /\ Without(a, o)[k] \in ToSet(Without(a, o))
      BY WithoutFacts, SequenceFacts
    <2> QED
      BY <2>1, WithoutFacts
  <1>10. Distinct(c)
    <2>1. ASSUME NEW k \in DOMAIN c, NEW l \in DOMAIN c, c[k].options = c[l].options
          PROVE  k = l
      <3>1. CASE k = 1 /\ l = 1
        BY <3>1
      <3>2. CASE k # 1 /\ l # 1
        <4>1. k - 1 = l - 1
          BY <1>8, <2>1, <3>2, WithoutFacts DEF Distinct
        <4> QED
          BY <1>8, <4>1
      <3>3. CASE k = 1 /\ l # 1
        <4>1. c[k].options = o
          BY <1>2, <1>8, <1>9, <3>3
        <4>2. c[l].options # o
          BY <1>8, <1>9, <3>3
        <4> QED
          BY <2>1, <4>1, <4>2
      <3>4. CASE k # 1 /\ l = 1
        <4>1. c[l].options = o
          BY <1>2, <1>8, <1>9, <3>4
        <4>2. c[k].options # o
          BY <1>8, <1>9, <3>4
        <4> QED
          BY <2>1, <4>1, <4>2
      <3> QED
        BY <3>1, <3>2, <3>3, <3>4
    <2> QED
      BY <2>1 DEF Distinct
  <1>11. ASSUME NEW e \in ToSet(c)
         PROVE  \/ e.options = o /\ e.shown = content
                \/ e \in Entries(a) /\ e.options # o
    <2>1. PICK k \in DOMAIN c : e = c[k]
      BY <1>7, SequenceFacts
    <2> QED
      BY <1>2, <1>8, <1>9, <2>1
  <1> QED
    BY <1>4, <1>7, <1>10, <1>11 DEF b, Entries

(* A view that is not watched, or is being reloaded, caches nothing. *)
LEMMA NotCached ==
    ASSUME NEW a, NEW o, NEW content, ~Active(a) \/ o \notin Cacheable
    PROVE  CacheLoaded(a, o, content) = a
  BY DEF CacheLoaded

(* A diff may be cached that is not older than what was shown of it last,   *)
(* of a comparison that is not being prefetched.                            *)
LEMMA CachingIsGood ==
    ASSUME NEW a, NEW L, NEW s, AppInv(a, L, s), NEW o, NEW content, Known(o, content, s),
           a.prefetch # NONE => a.prefetch.options # o,
           o # a.options => Below(L[o], content),
           a.load # NONE /\ a.load.options # a.options /\ o = a.options => Below(a.shown, content)
    PROVE  LET b == CacheLoaded(a, o, content)
           IN  /\ AppInv(b, L, s) /\ Rest(a, b, {"cache"})
               /\ Active(a) => \A e \in Entries(b) : e.options = o => e.shown = content
  <1> DEFINE b == CacheLoaded(a, o, content)
  <1>1. DOMAIN a = AppFields /\ Sequence(a.cache) /\ Distinct(a.cache)
    BY DEF AppInv, ShownInv, CacheInv
  <1>2. CASE Active(a) /\ o \in Cacheable
    <2>1. /\ Rest(a, b, {"cache"})
          /\ Sequence(b.cache) /\ Distinct(b.cache)
          /\ \A e \in Entries(b) : \/ e.options = o /\ e.shown = content
                                   \/ e \in Entries(a) /\ e.options # o
      BY <1>1, <1>2, CachedAnew
    <2> HIDE DEF b
    <2>2. a.options # Review
      BY <1>2, DiffLoadAssumption DEF Active
    <2>3. /\ DOMAIN b = AppFields /\ b.options = a.options /\ b.shown = a.shown
          /\ b.generation = a.generation /\ b.prefetch = a.prefetch
          /\ b.load = a.load /\ b.review = a.review
      BY <2>1 DEF Rest, AppFields
    <2>4. ShownInv(b, L, s)
      BY <2>3 DEF AppInv, ShownInv
    <2>5. CacheInv(b, L, s)
      BY <1>2, <2>1, <2>3 DEF AppInv, CacheInv
    <2>6. LoadInv(b, s)
      BY <2>1, <2>2, <2>3 DEF AppInv, LoadInv
    <2>7. PrefetchInv(b, L, s)
      BY <2>1, <2>3 DEF AppInv, PrefetchInv
    <2>8. ReviewInv(b, s)
      BY <2>3 DEF AppInv, ReviewInv
    <2>9. AppInv(b, L, s)
      BY <2>4, <2>5, <2>6, <2>7, <2>8 DEF AppInv
    <2> QED
      BY <2>1, <2>9 DEF b
  <1>3. CASE ~(Active(a) /\ o \in Cacheable)
    <2>1. b = a
      BY <1>3, NotCached
    <2>2. Rest(a, b, {"cache"})
      BY <1>1, <2>1 DEF Rest
    <2>3. Active(a) => \A e \in Entries(a) : e.options # o
      BY <1>3 DEF AppInv, CacheInv
    <2> QED
      BY <2>1, <2>2, <2>3
  <1> QED
    BY <1>2, <1>3

(* What is shown is something its comparison has shown. *)
LEMMA ShownIsKnown ==
    ASSUME NEW a, NEW L, NEW s, AppInv(a, L, s)
    PROVE  Known(a.options, a.shown, s) /\ Below(a.shown, a.shown)
  BY BelowItself DEF AppInv, ShownInv, Known

(* What is shown may be cached before something else is. *)
LEMMA StoringIsGood ==
    ASSUME NEW a, NEW L, NEW s, AppInv(a, L, s)
    PROVE  /\ AppInv(StoreCurrent(a), L, s) /\ Rest(a, StoreCurrent(a), {"cache"})
           /\ Active(a) => \A e \in Entries(StoreCurrent(a)) : e.options = a.options => e.shown = a.shown
  <1>1. Known(a.options, a.shown, s) /\ Below(a.shown, a.shown)
    BY ShownIsKnown
  <1>2. a.prefetch # NONE => a.prefetch.options # a.options
    BY DEF AppInv, PrefetchInv
  <1> QED
    BY <1>1, <1>2, CachingIsGood DEF StoreCurrent

(* A load may replace what is shown: what else is cached of it is no older. *)
MayArrive(a, o) ==
    /\ a.load = NONE \/ o = a.options
    /\ o \notin {a.options, Review} =>
          \A e \in Entries(a) : e.options = a.options => Below(a.shown, e.shown)
    /\ a.options = Review => Entries(a) = {} \/ o = Review
    /\ a.prefetch # NONE => a.prefetch.options # o

(* A diff that may arrive replaces the one shown. *)
LEMMA ReplacingIsGood ==
    ASSUME NEW a, NEW L, NEW s, AppInv(a, L, s), NEW o \in Shows, NEW content, Known(o, content, s),
           MayArrive(a, o),
           a.load # NONE => \A e \in Entries(a) : e.options = o => Below(content, e.shown)
    PROVE  AppInv(ReplaceCached(a, o, content), [L EXCEPT ![o] = content], s)
  <1> DEFINE b == ReplaceCached(a, o, content)
             M == [L EXCEPT ![o] = content]
  <1>1. DOMAIN a = AppFields /\ a.generation \in Nat /\ a.options \in Shows /\ L \in [Shows -> Version]
    BY DEF AppInv, ShownInv
  <1>2. /\ DOMAIN b = AppFields /\ b.options = o /\ b.shown = content
        /\ b.generation = a.generation + 1 /\ b.prefetch = a.prefetch /\ b.cache = a.cache
        /\ b.load = a.load /\ b.review = a.review
    BY <1>1, Fields DEF Rest, AppFields
  <1>3. /\ M \in [Shows -> Version] /\ M[o] = content
        /\ \A x \in Shows : x # o => M[x] = L[x]
    BY <1>1 DEF Known
  <1> HIDE DEF b, M
  <1>4. ShownInv(b, M, s)
    <2>1. \A x \in Shows : Below(M[x], Now(x, s))
      BY <1>3 DEF AppInv, ShownInv, Known
    <2> QED
      BY <1>1, <1>2, <1>3, <2>1 DEF ShownInv
  <1>5. Entries(b) = Entries(a) /\ \A x \in Cacheable : x \in Shows
    BY <1>2, DiffLoadAssumption DEF Entries, Shows
  <1>6. CacheInv(b, M, s)
    <2>1. Sequence(b.cache) /\ Distinct(b.cache)
      BY <1>2 DEF AppInv, CacheInv
    <2>2. ASSUME NEW e \in Entries(b)
          PROVE  /\ e.options \in Cacheable /\ Known(e.options, e.shown, s)
                 /\ o # Review /\ e.options # o => Below(M[e.options], e.shown)
      <3>1. e.options \in Cacheable /\ Known(e.options, e.shown, s)
        BY <1>5 DEF AppInv, CacheInv
      <3>2. ASSUME o # Review, e.options # o
            PROVE  Below(L[e.options], e.shown)
        <4>1. a.options # Review
          BY <1>5, <3>2 DEF MayArrive
        <4>2. CASE e.options = a.options
          BY <1>5, <3>2, <4>2 DEF MayArrive, AppInv, ShownInv
        <4>3. CASE e.options # a.options
          BY <1>5, <4>1, <4>3 DEF AppInv, CacheInv
        <4> QED
          BY <4>2, <4>3
      <3> QED
        BY <1>3, <1>5, <3>1, <3>2
    <2> QED
      BY <1>2, <2>1, <2>2 DEF CacheInv
  <1>7. LoadInv(b, s)
    BY <1>2, <1>5 DEF AppInv, LoadInv, MayArrive
  <1>8. PrefetchInv(b, M, s)
    <2>1. a.prefetch # NONE => M[a.prefetch.options] = L[a.prefetch.options]
      BY <1>3, <1>5 DEF AppInv, PrefetchInv, MayArrive
    <2> QED
      BY <1>2, <1>5, <2>1 DEF AppInv, PrefetchInv, MayArrive
  <1>9. ReviewInv(b, s)
    BY <1>2 DEF AppInv, ReviewInv
  <1> QED
    BY <1>4, <1>6, <1>7, <1>8, <1>9 DEF AppInv, b, M

(* The comparison shown is replaced, and is all that is cached, if anything. *)
LEMMA RefreshingIsGood ==
    ASSUME NEW a, NEW L, NEW s, AppInv(a, L, s), NEW content, Known(a.options, content, s), NEW b,
           Rest(a, b, {"status", "queue", "started", "generation", "shown", "cache", "prefetch"}),
           b.generation \in Nat, b.shown = content, b.prefetch = NONE,
           Sequence(b.cache), Distinct(b.cache),
           \A e \in Entries(b) : /\ e.options = a.options /\ e.shown = content
                                 /\ a.options \in Cacheable
    PROVE  AppInv(b, [L EXCEPT ![b.options] = b.shown], s)
  <1> DEFINE M == [L EXCEPT ![b.options] = b.shown]
  <1>1. /\ DOMAIN b = AppFields /\ b.options = a.options
        /\ b.load = a.load /\ b.review = a.review
    BY DEF Rest, AppFields
  <1>2. a.options \in Shows /\ L \in [Shows -> Version] /\ Known(b.options, b.shown, s)
    BY <1>1 DEF AppInv, ShownInv
  <1>3. /\ M \in [Shows -> Version] /\ M[b.options] = b.shown
        /\ \A x \in Shows : x # b.options => M[x] = L[x]
    BY <1>1, <1>2 DEF Known
  <1> HIDE DEF M
  <1>4. ShownInv(b, M, s)
    <2>1. \A x \in Shows : Below(M[x], Now(x, s))
      BY <1>2, <1>3 DEF AppInv, ShownInv, Known
    <2> QED
      BY <1>1, <1>2, <1>3, <2>1 DEF ShownInv
  <1>5. CacheInv(b, M, s)
    BY <1>1, <1>2 DEF CacheInv
  <1>6. Entries(b) # {} => b.options # Review
    BY <1>1, DiffLoadAssumption
  <1>7. Below(b.shown, b.shown)
    BY <1>2, BelowItself DEF Known
  <1>8. LoadInv(b, s)
    BY <1>1, <1>6, <1>7 DEF AppInv, LoadInv
  <1>9. PrefetchInv(b, M, s) /\ ReviewInv(b, s)
    BY <1>1 DEF AppInv, PrefetchInv, ReviewInv
  <1> QED
    BY <1>4, <1>5, <1>8, <1>9 DEF AppInv, M

(* What a step makes of the view: sound, with another generation whenever it  *)
(* shows something else, and with the load it had or one nobody waits for.    *)
Moves(a, b) ==
    /\ b.generation \in Nat /\ a.generation <= b.generation
    /\ b.generation = a.generation => b.options = a.options /\ b.shown = a.shown
KeepsLoad(a, b) == b.load = a.load \/ ByOf(b) = NoRequest
Handled(a, b, L, s) ==
    AppInv(b, [L EXCEPT ![b.options] = b.shown], s) /\ Moves(a, b) /\ KeepsLoad(a, b)

(* A step that shows what was shown leaves the history alone. *)
LEMMA NothingShown ==
    ASSUME NEW a, NEW L, NEW s, AppInv(a, L, s)
    PROVE  [L EXCEPT ![a.options] = a.shown] = L
  BY DEF AppInv, ShownInv

(* A sound view that shows the same is one a step may end with. *)
LEMMA ShowingTheSame ==
    ASSUME NEW a, NEW L, NEW s, AppInv(a, L, s), NEW b, AppInv(b, L, s),
           b.options = a.options, b.shown = a.shown, a.generation <= b.generation, KeepsLoad(a, b)
    PROVE  Handled(a, b, L, s)
  BY NothingShown DEF Handled, Moves, AppInv, ShownInv

(* So is one without its cache or a job. *)
LEMMA LessIsHandled ==
    ASSUME NEW a, NEW L, NEW s, AppInv(a, L, s), NEW b,
           Rest(a, b, {"status", "failed", "queue", "started", "cache", "prefetch", "load", "review"}),
           \/ b.cache = a.cache
           \/ b.cache = <<>>
           \/ Sequence(b.cache) /\ Distinct(b.cache) /\ Entries(b) \subseteq Entries(a),
           b.prefetch \in {a.prefetch, NONE}, b.load \in {a.load, NONE}, b.review \in {a.review, NONE}
    PROVE  Handled(a, b, L, s) /\ AppInv(b, L, s)
  <1>1. /\ b.options = a.options /\ b.shown = a.shown /\ b.generation = a.generation
        /\ a.generation \in Nat
    BY DEF Rest, AppFields, AppInv, ShownInv
  <1>2. Rest(a, b, {"status", "failed", "queue", "started", "generation",
                    "cache", "prefetch", "load", "review"})
    BY DEF Rest
  <1>3. AppInv(b, L, s)
    BY <1>1, <1>2, LessIsAsGood
  <1>4. KeepsLoad(a, b)
    BY DEF KeepsLoad, ByOf
  <1> QED
    BY <1>1, <1>3, <1>4, ShowingTheSame

(* Seeing what the watcher noticed drops the cache and the prefetches. *)
LEMMA NoticingIsHandled ==
    ASSUME NEW a, NEW L, NEW s, AppInv(a, L, s)
    PROVE  Handled(a, Noticed(a), L, s) /\ AppInv(Noticed(a), L, s)
  <1>1. DOMAIN a = AppFields
    BY DEF AppInv, ShownInv
  <1> DEFINE b == Noticed(a)
  <1>2. /\ Rest(a, b, {"status", "failed", "queue", "started", "cache", "prefetch", "load", "review"})
        /\ b.cache = <<>> /\ b.prefetch = NONE /\ b.load = a.load /\ b.review = a.review
    BY <1>1, Fields DEF Rest, AppFields
  <1> HIDE DEF b
  <1> QED
    BY <1>2, LessIsHandled DEF b

(* Dropping the cache does. *)
LEMMA DroppingIsHandled ==
    ASSUME NEW a, NEW L, NEW s, AppInv(a, L, s)
    PROVE  Handled(a, Invalidate(a), L, s) /\ AppInv(Invalidate(a), L, s)
  <1>1. DOMAIN a = AppFields
    BY DEF AppInv, ShownInv
  <1> DEFINE b == Invalidate(a)
  <1>2. /\ Rest(a, b, {"status", "failed", "queue", "started", "cache", "prefetch", "load", "review"})
        /\ b.cache = <<>> /\ b.prefetch = NONE /\ b.load = a.load /\ b.review = a.review
    BY <1>1, Fields DEF Rest, AppFields
  <1> HIDE DEF b
  <1> QED
    BY <1>2, LessIsHandled DEF b

(* A replacement shows another generation. *)
LEMMA ReplacingIsHandled ==
    ASSUME NEW a, NEW L, NEW s, AppInv(a, L, s), NEW o \in Shows, NEW content, Known(o, content, s),
           MayArrive(a, o), a.load = NONE
    PROVE  /\ Handled(a, ReplaceCached(a, o, content), L, s)
           /\ ReplaceCached(a, o, content).generation > a.generation
  <1> DEFINE b == ReplaceCached(a, o, content)
  <1>1. DOMAIN a = AppFields /\ a.generation \in Nat
    BY DEF AppInv, ShownInv
  <1>2. b.options = o /\ b.shown = content /\ b.generation = a.generation + 1 /\ b.load = a.load
    BY <1>1, Fields DEF Rest, AppFields
  <1>3. AppInv(b, [L EXCEPT ![o] = content], s)
    BY ReplacingIsGood
  <1> HIDE DEF b
  <1>4. Moves(a, b) /\ KeepsLoad(a, b) /\ b.generation > a.generation
    BY <1>1, <1>2 DEF Moves, KeepsLoad
  <1> QED
    BY <1>2, <1>3, <1>4 DEF Handled, b

(* What is put in an empty cache is all there is. *)
LEMMA CachedAlone ==
    ASSUME NEW a, DOMAIN a = AppFields, a.cache = <<>>, NEW o, NEW content
    PROVE  LET b == CacheLoaded(a, o, content)
           IN  /\ Rest(a, b, {"cache"})
               /\ Sequence(b.cache) /\ Distinct(b.cache)
               /\ \A e \in Entries(b) : e.options = o /\ e.shown = content /\ o \in Cacheable
  <1>1. CASE Active(a) /\ o \in Cacheable
    <2>1. Sequence(a.cache) /\ Distinct(a.cache) /\ Entries(a) = {}
      BY EmptyCache DEF Entries
    <2> QED
      BY <1>1, <2>1, CachedAnew
  <1>2. CASE ~(Active(a) /\ o \in Cacheable)
    <2>1. CacheLoaded(a, o, content) = a
      BY <1>2, NotCached
    <2> QED
      BY <2>1, EmptyCache DEF Entries, Rest
  <1> QED
    BY <1>1, <1>2

(* A live reload drops the cache for what it brings. *)
LEMMA ReloadIsHandled ==
    ASSUME NEW a, NEW L, NEW s, AppInv(a, L, s), NEW content, Known(a.options, content, s)
    PROVE  Handled(a, ReplaceChangeset(a, content), L, s)
  <1> DEFINE y == Invalidate(a)
             x == CacheLoaded(y, a.options, content)
             b == ReplaceLoaded(x, a.options, content)
  <1>1. DOMAIN a = AppFields /\ a.generation \in Nat
    BY DEF AppInv, ShownInv
  <1>2. /\ Rest(a, y, {"cache", "prefetch", "queue", "started"})
        /\ y.cache = <<>> /\ y.prefetch = NONE /\ DOMAIN y = AppFields
    BY <1>1, Fields DEF Rest
  <1> HIDE DEF y
  <1>3. /\ Rest(y, x, {"cache"})
        /\ Sequence(x.cache) /\ Distinct(x.cache)
        /\ \A e \in Entries(x) : e.options = a.options /\ e.shown = content /\ a.options \in Cacheable
    BY <1>2, CachedAlone
  <1> HIDE DEF x
  <1>4. /\ DOMAIN x = AppFields /\ x.options = a.options /\ x.shown = a.shown
        /\ x.generation = a.generation /\ x.prefetch = NONE /\ x.failed = a.failed
        /\ x.load = a.load /\ x.review = a.review
    BY <1>2, <1>3 DEF Rest, AppFields
  <1>5. /\ DOMAIN b = AppFields /\ b.options = a.options /\ b.shown = content
        /\ b.failed = a.failed /\ b.load = a.load /\ b.review = a.review
        /\ b.cache = x.cache /\ b.prefetch = NONE
        /\ \/ b.generation = a.generation + 1
           \/ b.generation = a.generation /\ content = a.shown
    <2>1. CASE x.options = a.options /\ x.shown = content
      <3>1. b = Reset(x)
        BY <2>1 DEF ReplaceLoaded
      <3>2. Rest(x, Reset(x), {"status"})
        BY <1>4, Fields
      <3> HIDE DEF b
      <3> QED
        BY <1>4, <2>1, <3>1, <3>2 DEF Rest, AppFields
    <2>2. CASE ~(x.options = a.options /\ x.shown = content)
      <3>1. b = ReplaceCached(x, a.options, content)
        BY <2>2 DEF ReplaceLoaded
      <3>2. /\ Rest(x, b, {"status", "options", "shown", "generation"})
            /\ b.options = a.options /\ b.shown = content /\ b.generation = x.generation + 1
        BY <1>4, <3>1, Fields
      <3> HIDE DEF b
      <3> QED
        BY <1>4, <2>2, <3>2 DEF Rest, AppFields
    <2> QED
      BY <2>1, <2>2
  <1>6. b = ReplaceChangeset(a, content)
    BY DEF ReplaceChangeset, x, y
  <1> HIDE DEF b
  <1>7. Rest(a, b, {"status", "queue", "started", "generation", "shown", "cache", "prefetch"})
    BY <1>5 DEF Rest, AppFields
  <1>8. \A e \in Entries(b) : e.options = a.options /\ e.shown = content /\ a.options \in Cacheable
    BY <1>3, <1>5 DEF Entries
  <1>9. b.generation \in Nat /\ Moves(a, b) /\ KeepsLoad(a, b)
    BY <1>1, <1>5 DEF Moves, KeepsLoad
  <1>10. AppInv(b, [L EXCEPT ![b.options] = b.shown], s)
    BY <1>3, <1>5, <1>7, <1>8, <1>9, RefreshingIsGood
  <1> QED
    BY <1>6, <1>9, <1>10 DEF Handled

(* Whatever the worker says is handled. *)
LEMMA MessageIsHandled ==
    ASSUME NEW a, NEW L, NEW s, AppInv(a, L, s), NEW message,
           message \in {Started, Failed} \/ Known(a.options, message, s)
    PROVE  Handled(a, Reloaded(a, message), L, s)
  <1> DEFINE b == Reloaded(a, message)
  <1>1. DOMAIN a = AppFields /\ a.generation \in Nat
    BY DEF AppInv, ShownInv
  <1>2. CASE message = Started
    <2>1. CASE a.status = "pending"
      <3>1. b = a
        BY <1>2, <2>1 DEF Reloaded
      <3>2. KeepsLoad(a, a)
        BY DEF KeepsLoad
      <3> QED
        BY <1>1, <3>1, <3>2, ShowingTheSame
    <2>2. CASE a.status # "pending"
      <3>1. b = [Invalidate(a) EXCEPT !.status = IF @ = "off" THEN @ ELSE "pending"]
        BY <1>2, <2>2 DEF Reloaded
      <3>2. /\ Rest(a, Invalidate(a), {"cache", "prefetch", "queue", "started"})
            /\ Invalidate(a).cache = <<>> /\ Invalidate(a).prefetch = NONE
        BY <1>1, Fields
      <3> HIDE DEF b
      <3>3. /\ Rest(a, b, {"status", "failed", "queue", "started", "cache", "prefetch", "load", "review"})
            /\ b.cache = <<>> /\ b.prefetch = NONE /\ b.load = a.load /\ b.review = a.review
        BY <3>1, <3>2 DEF Rest, AppFields
      <3> QED
        BY <3>3, LessIsHandled DEF b
    <2> QED
      BY <2>1, <2>2
  <1>3. CASE message # Started /\ message = Failed
    <2>1. b = Reset(a)
      BY <1>3 DEF Reloaded
    <2>2. Rest(a, Reset(a), {"status"})
      BY <1>1, Fields
    <2> HIDE DEF b
    <2>3. /\ Rest(a, b, {"status", "failed", "queue", "started", "cache", "prefetch", "load", "review"})
          /\ b.cache = a.cache /\ b.prefetch = a.prefetch /\ b.load = a.load /\ b.review = a.review
      BY <2>1, <2>2 DEF Rest, AppFields
    <2> QED
      BY <2>3, LessIsHandled DEF b
  <1>4. CASE message # Started /\ message # Failed
    <2>1. b = ReplaceChangeset(a, message)
      BY <1>4 DEF Reloaded
    <2> QED
      BY <1>4, <2>1, ReloadIsHandled
  <1> QED
    BY <1>2, <1>3, <1>4

(* A load is started, and everything else that was under way is dropped. *)
LEMMA StartingIsGood ==
    ASSUME NEW a, NEW L, NEW s, AppInv(a, L, s), NEW b,
           Rest(a, b, {"cache", "prefetch", "queue", "started", "review", "load"}),
           b.cache = <<>>, b.prefetch = NONE, b.review = NONE, JobInv(b.load, s),
           b.load.by = NoRequest => b.load.paths = {},
           b.load.paths # {} => b.load.options = a.options
    PROVE  AppInv(b, L, s)
  <1>1. /\ DOMAIN b = AppFields /\ b.options = a.options /\ b.shown = a.shown
        /\ b.generation = a.generation
    BY DEF Rest, AppFields
  <1>2. Entries(b) = {} /\ Sequence(b.cache) /\ Distinct(b.cache)
    BY EmptyCache DEF Entries
  <1> QED
    BY <1>1, <1>2 DEF AppInv, ShownInv, CacheInv, LoadInv, PrefetchInv, ReviewInv

(* A load without the cache drops the cache first. *)
LEMMA UncachedIsHandled ==
    ASSUME NEW a, NEW L, NEW s, AppInv(a, L, s), NEW o \in Shows
    PROVE  Handled(a, StartUncached(a, o), L, s) /\ StartUncached(a, o).generation = a.generation
  <1> DEFINE b == StartUncached(a, o)
  <1>1. DOMAIN a = AppFields /\ a.generation \in Nat
    BY DEF AppInv, ShownInv
  <1>2. /\ Rest(a, b, {"cache", "prefetch", "queue", "started", "review", "load"})
        /\ b.cache = <<>> /\ b.prefetch = NONE /\ b.review = NONE /\ b.load = Job(o, {}, NoRequest)
    BY <1>1, Fields
  <1> HIDE DEF b
  <1>3. AppInv(b, L, s) /\ ByOf(b) = NoRequest
    BY <1>2, JobFacts, StartingIsGood DEF ByOf
  <1>4. b.options = a.options /\ b.shown = a.shown /\ b.generation = a.generation
    BY <1>2 DEF Rest, AppFields
  <1> QED
    BY <1>1, <1>3, <1>4, ShowingTheSame DEF KeepsLoad, b

(* A hosted review drops the load under way. *)
LEMMA ReviewIsHandled ==
    ASSUME NEW a, NEW L, NEW s, AppInv(a, L, s)
    PROVE  Handled(a, StartReviewLoad(a), L, s)
  <1> DEFINE b == StartReviewLoad(a)
  <1>1. DOMAIN a = AppFields /\ a.generation \in Nat
    BY DEF AppInv, ShownInv
  <1>2. /\ Rest(a, b, {"review", "load"})
        /\ b.review = Job(Review, {}, NoRequest) /\ b.load = NONE
    BY <1>1, Fields
  <1> HIDE DEF b
  <1>3. /\ DOMAIN b = AppFields /\ b.options = a.options /\ b.shown = a.shown
        /\ b.generation = a.generation /\ b.cache = a.cache /\ b.prefetch = a.prefetch
    BY <1>2 DEF Rest, AppFields
  <1>4. Entries(b) = Entries(a)
    BY <1>3 DEF Entries
  <1>5. JobInv(b.review, s) /\ b.review.options = Review
    BY <1>2, JobFacts DEF Shows
  <1>6. AppInv(b, L, s)
    BY <1>2, <1>3, <1>4, <1>5 DEF AppInv, ShownInv, CacheInv, LoadInv, PrefetchInv, ReviewInv
  <1>7. KeepsLoad(a, b)
    BY <1>2 DEF KeepsLoad, ByOf
  <1> QED
    BY <1>1, <1>3, <1>6, <1>7, ShowingTheSame DEF b

(* A client's load drops the cache and is started when there is none. *)
LEMMA SessionLoadIsGood ==
    ASSUME NEW a, NEW L, NEW s, AppInv(a, L, s), NEW o \in Shows, NEW paths, NEW request,
           request # NoRequest, ~Busy(a)
    PROVE  LET b == StartSessionLoad(a, request, o, paths)
           IN  /\ AppInv(b, L, s)
               /\ b.options = a.options /\ b.shown = a.shown /\ b.generation = a.generation
               /\ b.load = Job(o, ScopedPaths(a, o, paths), request)
  <1> DEFINE b == StartSessionLoad(a, request, o, paths)
  <1>1. DOMAIN a = AppFields /\ a.generation \in Nat
    BY DEF AppInv, ShownInv
  <1>2. /\ Rest(a, Invalidate(a), {"cache", "prefetch", "queue", "started"})
        /\ Invalidate(a).cache = <<>> /\ Invalidate(a).prefetch = NONE
    BY <1>1, Fields
  <1>3. b = [Invalidate(a) EXCEPT !.load = Job(o, ScopedPaths(a, o, paths), request)]
    BY DEF StartSessionLoad
  <1> HIDE DEF b
  <1>4. /\ Rest(a, b, {"cache", "prefetch", "queue", "started", "review", "load"})
        /\ b.cache = <<>> /\ b.prefetch = NONE /\ b.review = a.review
        /\ b.load = Job(o, ScopedPaths(a, o, paths), request)
    BY <1>2, <1>3 DEF Rest, AppFields
  <1>5. b.review = NONE
    BY <1>4 DEF Busy
  <1>6. /\ JobInv(b.load, s) /\ b.load.by = request
        /\ b.load.paths # {} => b.load.options = a.options
    BY <1>4, JobFacts DEF ScopedPaths
  <1>7. AppInv(b, L, s)
    BY <1>4, <1>5, <1>6, StartingIsGood
  <1>8. b.options = a.options /\ b.shown = a.shown /\ b.generation = a.generation
    BY <1>4 DEF Rest, AppFields
  <1> QED
    BY <1>4, <1>7, <1>8 DEF b

(* A choice that brings a diff back at once brings back none older than the   *)
(* one the view showed of it last.                                            *)
NotOlder(a, b, o, L) == b.generation # a.generation => Below(L[o], b.shown)

(* With the cache: a diff at hand, a load or a prefetch under way, or a     *)
(* new load.                                                                *)
LEMMA ChoiceIsHandled ==
    ASSUME NEW b, NEW L, NEW s, AppInv(b, L, s), Active(b), b.review = NONE,
           NEW o \in Options, o # b.options
    PROVE  LET c == ChooseWithCache(b, o)
           IN  Handled(b, c, L, s) /\ NotOlder(b, c, o, L)
  <1> DEFINE a == StoreCurrent(b)
             x == [a EXCEPT !.load = NONE, !.cache = Without(a, o)]
             waiting == [a EXCEPT !.queue = @ \ {o}]
             y == [waiting EXCEPT !.load = a.prefetch, !.prefetch = NONE]
             z == [waiting EXCEPT !.load = Job(o, {}, NoRequest)]
             c == ChooseWithCache(b, o)
  <1>1. /\ AppInv(a, L, s) /\ Rest(b, a, {"cache"})
        /\ \A e \in Entries(a) : e.options = b.options => e.shown = b.shown
    BY StoringIsGood
  <1>2. c = IF InCache(a, o) THEN ReplaceCached(x, o, Cached(a, o))
            ELSE IF a.load # NONE /\ a.load.options = o THEN a
            ELSE IF a.prefetch # NONE /\ a.prefetch.options = o THEN y
            ELSE z
    BY DEF ChooseWithCache
  <1> HIDE DEF a, c
  <1>3. /\ DOMAIN a = AppFields /\ a.options = b.options /\ a.shown = b.shown
        /\ a.generation = b.generation /\ a.prefetch = b.prefetch
        /\ a.load = b.load /\ a.review = NONE /\ b.generation \in Nat
    BY <1>1 DEF Rest, AppFields, AppInv, ShownInv
  <1>4. b.options # Review /\ o # Review /\ o \in Shows
    BY DiffLoadAssumption DEF Active, Shows
  <1>5. Below(a.shown, a.shown)
    BY <1>1, ShownIsKnown
  <1>6. CASE InCache(a, o)
    <2> DEFINE k == EntryOf(a, o)
    <2>1. k \in DOMAIN a.cache /\ a.cache[k].options = o
      BY <1>6, EntryIsFound
    <2>2. Cached(a, o) = a.cache[k].shown
      BY DEF Cached
    <2> HIDE DEF k
    <2>3. a.cache[k] \in Entries(a)
      BY <1>1, <2>1, SequenceFacts DEF AppInv, CacheInv, Entries
    <2>4. Known(o, Cached(a, o), s) /\ Below(L[o], Cached(a, o))
      BY <1>1, <1>3, <1>4, <2>1, <2>2, <2>3 DEF AppInv, CacheInv
    <2>5. /\ Sequence(Without(a, o)) /\ Distinct(Without(a, o))
          /\ \A e \in ToSet(Without(a, o)) : e \in Entries(a)
      BY <1>1, WithoutFacts DEF AppInv, CacheInv
    <2>6. /\ Rest(a, x, {"load", "cache"}) /\ x.load = NONE /\ x.cache = Without(a, o)
          /\ x.generation = a.generation /\ x.prefetch = a.prefetch /\ x.review = a.review
          /\ x.options = a.options /\ x.shown = a.shown
      BY <1>3 DEF Rest, AppFields
    <2>7. c = ReplaceCached(x, o, Cached(a, o))
      BY <1>2, <1>6
    <2> HIDE DEF x
    <2>8. /\ Rest(a, x, {"status", "failed", "queue", "started", "generation",
                         "cache", "prefetch", "load", "review"})
          /\ Entries(x) \subseteq Entries(a) /\ Sequence(x.cache) /\ Distinct(x.cache)
      BY <2>5, <2>6 DEF Rest, Entries
    <2>9. AppInv(x, L, s)
      BY <1>1, <1>3, <2>6, <2>8, LessIsAsGood
    <2>10. MayArrive(x, o)
      BY <1>1, <1>3, <1>4, <1>5, <2>1, <2>3, <2>6, <2>8 DEF MayArrive, AppInv, PrefetchInv
    <2>11. Handled(x, c, L, s) /\ c.generation > x.generation
      BY <1>4, <2>4, <2>6, <2>7, <2>9, <2>10, ReplacingIsHandled
    <2>12. ByOf(c) = NoRequest
      BY <2>6, <2>11 DEF Handled, KeepsLoad, ByOf
    <2>13. c.shown = Cached(a, o)
      BY <1>3, <2>6, <2>7, Fields DEF Rest
    <2>14. Handled(b, c, L, s)
      BY <1>3, <2>6, <2>11, <2>12 DEF Handled, Moves, KeepsLoad
    <2> QED
      BY <2>4, <2>13, <2>14 DEF NotOlder, c
  <1>7. ASSUME NEW d, AppInv(d, L, s), d.options = a.options, d.shown = a.shown,
               d.generation = a.generation, KeepsLoad(b, d)
        PROVE  Handled(b, d, L, s) /\ NotOlder(b, d, o, L)
    BY <1>3, <1>7, ShowingTheSame DEF NotOlder
  <1>8. CASE ~InCache(a, o) /\ a.load # NONE /\ a.load.options = o
    <2>1. c = a
      BY <1>2, <1>8
    <2>2. KeepsLoad(b, a)
      BY <1>3 DEF KeepsLoad
    <2> QED
      BY <1>1, <1>7, <2>1, <2>2 DEF c
  <1>9. ~InCache(a, o) => \A e \in Entries(a) : e.options # o
    BY <1>1, SequenceFacts DEF AppInv, CacheInv, InCache, Entries
  <1>10. CASE ~InCache(a, o) /\ ~(a.load # NONE /\ a.load.options = o)
              /\ a.prefetch # NONE /\ a.prefetch.options = o
    <2>1. c = y
      BY <1>2, <1>10
    <2>2. /\ DOMAIN y = AppFields /\ y.options = a.options /\ y.shown = a.shown
          /\ y.generation = a.generation /\ y.cache = a.cache /\ y.prefetch = NONE
          /\ y.load = a.prefetch /\ y.review = NONE
      <3>1. DOMAIN waiting = AppFields /\ Rest(a, waiting, {"queue"})
        BY <1>3 DEF Rest, AppFields
      <3> HIDE DEF waiting
      <3> QED
        BY <1>3, <3>1 DEF Rest, AppFields
    <2> HIDE DEF y
    <2>3. Entries(y) = Entries(a)
      BY <2>2 DEF Entries
    <2>4. AppInv(y, L, s)
      <3>1. LoadInv(y, s)
        BY <1>1, <1>3, <1>4, <1>5, <1>10, <2>2, <2>3 DEF AppInv, LoadInv, PrefetchInv
      <3>2. ShownInv(y, L, s) /\ CacheInv(y, L, s) /\ PrefetchInv(y, L, s) /\ ReviewInv(y, s)
        BY <1>1, <2>2, <2>3 DEF AppInv, ShownInv, CacheInv, PrefetchInv, ReviewInv
      <3> QED
        BY <3>1, <3>2 DEF AppInv
    <2>5. KeepsLoad(b, y)
      BY <1>1, <1>10, <2>2 DEF KeepsLoad, ByOf, AppInv, PrefetchInv
    <2> QED
      BY <1>7, <2>1, <2>2, <2>4, <2>5 DEF c
  <1>11. CASE ~InCache(a, o) /\ ~(a.load # NONE /\ a.load.options = o)
              /\ ~(a.prefetch # NONE /\ a.prefetch.options = o)
    <2>1. c = z
      BY <1>2, <1>11
    <2>2. /\ DOMAIN z = AppFields /\ z.options = a.options /\ z.shown = a.shown
          /\ z.generation = a.generation /\ z.cache = a.cache /\ z.prefetch = a.prefetch
          /\ z.load = Job(o, {}, NoRequest) /\ z.review = NONE
      <3>1. DOMAIN waiting = AppFields /\ Rest(a, waiting, {"queue"})
        BY <1>3 DEF Rest, AppFields
      <3> HIDE DEF waiting
      <3> QED
        BY <1>3, <3>1 DEF Rest, AppFields
    <2> HIDE DEF z
    <2>3. Entries(z) = Entries(a)
      BY <2>2 DEF Entries
    <2>4. /\ JobInv(z.load, s) /\ z.load.options = o /\ z.load.paths = {} /\ z.load.by = NoRequest
      BY <1>4, <2>2, JobFacts
    <2>5. AppInv(z, L, s)
      <3>1. LoadInv(z, s)
        BY <1>1, <1>3, <1>4, <1>5, <2>2, <2>3, <2>4 DEF LoadInv
      <3>2. PrefetchInv(z, L, s)
        BY <1>1, <1>11, <2>2, <2>3, <2>4 DEF AppInv, PrefetchInv
      <3>3. ShownInv(z, L, s) /\ CacheInv(z, L, s) /\ ReviewInv(z, s)
        BY <1>1, <2>2, <2>3 DEF AppInv, ShownInv, CacheInv, ReviewInv
      <3> QED
        BY <3>1, <3>2, <3>3 DEF AppInv
    <2>6. KeepsLoad(b, z)
      BY <2>4 DEF KeepsLoad, ByOf
    <2> QED
      BY <1>7, <2>1, <2>2, <2>5, <2>6 DEF c
  <1> QED
    BY <1>6, <1>8, <1>10, <1>11

(* Choosing, with or without the cache. *)
LEMMA ChosenIsHandled ==
    ASSUME NEW a, NEW L, NEW s, AppInv(a, L, s), NEW o \in Options
    PROVE  Handled(a, Chosen(a, o), L, s) /\ NotOlder(a, Chosen(a, o), o, L)
  <1>1. DOMAIN a = AppFields /\ a.generation \in Nat
    BY DEF AppInv, ShownInv
  <1>2. CASE o = a.options
    <2> DEFINE b == [a EXCEPT !.load = NONE, !.review = NONE]
    <2>1. Chosen(a, o) = b
      BY <1>2 DEF Chosen
    <2>2. /\ Rest(a, b, {"status", "failed", "queue", "started", "cache", "prefetch", "load", "review"})
          /\ b.cache = a.cache /\ b.prefetch = a.prefetch /\ b.load = NONE /\ b.review = NONE
          /\ b.generation = a.generation
      BY <1>1 DEF Rest, AppFields
    <2> HIDE DEF b
    <2> QED
      BY <2>1, <2>2, LessIsHandled DEF NotOlder
  <1>3. CASE o # a.options /\ ~Active(a)
    <2>1. Chosen(a, o) = StartUncached(a, o)
      BY <1>3 DEF Chosen, StartDiffLoad
    <2> QED
      BY <2>1, UncachedIsHandled DEF NotOlder, Shows
  <1>4. CASE o # a.options /\ Active(a)
    <2> DEFINE b == [a EXCEPT !.review = NONE]
               c == ChooseWithCache(b, o)
    <2>1. Chosen(a, o) = c
      BY <1>4 DEF Chosen, StartDiffLoad
    <2>2. /\ Rest(a, b, {"status", "failed", "queue", "started", "cache", "prefetch", "load", "review"})
          /\ b.cache = a.cache /\ b.prefetch = a.prefetch /\ b.load = a.load /\ b.review = NONE
          /\ b.generation = a.generation /\ b.options = a.options /\ b.shown = a.shown
          /\ b.status = a.status /\ b.failed = a.failed
      BY <1>1 DEF Rest, AppFields
    <2> HIDE DEF b
    <2>3. AppInv(b, L, s) /\ Active(b)
      BY <1>4, <2>2, LessIsHandled DEF Active
    <2>4. Handled(b, c, L, s) /\ NotOlder(b, c, o, L)
      BY <1>4, <2>2, <2>3, ChoiceIsHandled
    <2> HIDE DEF c
    <2> QED
      BY <2>1, <2>2, <2>4 DEF Handled, Moves, KeepsLoad, NotOlder
  <1> QED
    BY <1>2, <1>3, <1>4

(* Numbers have a smallest one. *)
LEMMA SmallestPosition ==
    ASSUME NEW S \in SUBSET Nat, S # {}
    PROVE  Min(S) \in S
  <1> DEFINE R == OpToRel(<, Nat)
  <1>1. IsWellFoundedOn(R, Nat)
    BY NatLessThanWellFounded
  <1>2. \A j, k \in Nat : j < k => <<j, k>> \in R
    BY SMT DEF OpToRel
  <1> HIDE DEF R
  <1>3. PICK k \in S : \A j \in S : ~(<<j, k>> \in R)
    BY <1>1, WFMin
  <1>4. ASSUME NEW j \in S
        PROVE  k <= j
    <2>1. k \in Nat /\ j \in Nat
      OBVIOUS
    <2>2. ~(j < k)
      BY <1>2, <1>3, <2>1, Zenon
    <2> QED
      BY <2>1, <2>2
  <1> QED
    BY <1>4 DEF Min

(* Prefetching shows nothing and touches no load. *)
Prefetches(a, b, L, s) ==
    /\ AppInv(b, L, s)
    /\ b.options = a.options /\ b.shown = a.shown /\ b.generation = a.generation /\ b.load = a.load

(* The next prefetch is of the first comparison that needs one. *)
LEMMA NextPrefetchIsGood ==
    ASSUME NEW a, NEW L, NEW s, AppInv(a, L, s)
    PROVE  Prefetches(a, StartNextPrefetch(a), L, s)
  <1> DEFINE ready == {k \in DOMAIN Menu : Menu[k] \in a.queue /\ ~Skipped(a, Menu[k])}
             next == Min(ready)
             o == Menu[next]
             later == a.queue \ {Menu[k] : k \in 1..next}
             b == StartNextPrefetch(a)
  <1>1. DOMAIN a = AppFields
    BY DEF AppInv, ShownInv
  <1>2. b = IF ~Active(a) THEN Invalidate(a)
            ELSE IF a.prefetch # NONE THEN a
            ELSE IF ready = {} THEN [a EXCEPT !.queue = {}]
            ELSE [a EXCEPT !.prefetch = Job(o, {}, NoRequest), !.queue = later]
    BY DEF StartNextPrefetch
  <1>3. CASE ~Active(a)
    <2>1. b = Invalidate(a)
      BY <1>2, <1>3
    <2>2. Rest(a, Invalidate(a), {"cache", "prefetch", "queue", "started"})
      BY <1>1, Fields
    <2> HIDE DEF b
    <2>3. b.options = a.options /\ b.shown = a.shown /\ b.generation = a.generation /\ b.load = a.load
      BY <2>1, <2>2 DEF Rest, AppFields
    <2>4. AppInv(b, L, s)
      BY <2>1, DroppingIsHandled
    <2> QED
      BY <2>3, <2>4 DEF Prefetches, b
  <1>4. CASE Active(a) /\ a.prefetch # NONE
    BY <1>2, <1>4 DEF Prefetches
  <1>5. CASE Active(a) /\ a.prefetch = NONE /\ ready = {}
    <2>1. b = [a EXCEPT !.queue = {}]
      BY <1>2, <1>5
    <2> HIDE DEF b
    <2>2. /\ Rest(a, b, {"status", "failed", "queue", "started", "cache", "prefetch", "load", "review"})
          /\ b.cache = a.cache /\ b.prefetch = a.prefetch /\ b.load = a.load /\ b.review = a.review
          /\ b.options = a.options /\ b.shown = a.shown /\ b.generation = a.generation
      BY <1>1, <2>1 DEF Rest, AppFields
    <2>3. AppInv(b, L, s)
      BY <2>2, LessIsHandled
    <2> QED
      BY <2>2, <2>3 DEF Prefetches, b
  <1>6. CASE Active(a) /\ a.prefetch = NONE /\ ready # {}
    <2>1. b = [a EXCEPT !.prefetch = Job(o, {}, NoRequest), !.queue = later]
      BY <1>2, <1>6
    <2>2. next \in ready
      <3>1. ready \subseteq Nat
        BY DiffLoadAssumption
      <3> HIDE DEF ready
      <3> QED
        BY <1>6, <3>1, SmallestPosition
    <2>3. ~Skipped(a, o) /\ o \in Options
      BY <2>2, DiffLoadAssumption
    <2> HIDE DEF ready, next, later, b
    <2>4. /\ DOMAIN b = AppFields /\ b.options = a.options /\ b.shown = a.shown
          /\ b.generation = a.generation /\ b.cache = a.cache /\ b.load = a.load /\ b.review = a.review
          /\ b.prefetch = Job(o, {}, NoRequest)
      BY <1>1, <2>1 DEF AppFields
    <2>5. Entries(b) = Entries(a)
      BY <2>4 DEF Entries
    <2>6. /\ JobInv(b.prefetch, s) /\ ~HasRead(b.prefetch) /\ b.prefetch.options = o
          /\ b.prefetch.paths = {} /\ b.prefetch.by = NoRequest
      BY <2>3, <2>4, JobFacts DEF Shows
    <2> HIDE DEF o
    <2>7. o \in Cacheable /\ o # a.options /\ \A e \in Entries(a) : e.options # o
      BY <2>3, SequenceFacts DEF Skipped, InCache, AppInv, CacheInv, Entries
    <2>8. a.load # NONE => a.load.options # o
      BY <2>3 DEF Skipped
    <2>9. PrefetchInv(b, L, s)
      BY <2>4, <2>5, <2>6, <2>7, <2>8 DEF PrefetchInv
    <2>10. ShownInv(b, L, s) /\ CacheInv(b, L, s) /\ LoadInv(b, s) /\ ReviewInv(b, s)
      BY <2>4, <2>5 DEF AppInv, ShownInv, CacheInv, LoadInv, ReviewInv
    <2> QED
      BY <2>4, <2>9, <2>10 DEF Prefetches, AppInv, b
  <1> QED
    BY <1>3, <1>4, <1>5, <1>6

(* What was prefetched is cached. *)
LEMMA DrainedIsGood ==
    ASSUME NEW a, NEW L, NEW s, AppInv(a, L, s)
    PROVE  Prefetches(a, PrefetchDrained(a), L, s)
  <1> DEFINE b == [a EXCEPT !.prefetch = NONE]
             job == a.prefetch
             c == IF job.read = Failed THEN b ELSE CacheLoaded(b, job.options, job.read)
  <1>1. DOMAIN a = AppFields
    BY DEF AppInv, ShownInv
  <1>2. CASE ~Finished(job)
    BY <1>2 DEF PrefetchDrained, Prefetches
  <1>3. CASE Finished(job)
    <2>1. PrefetchDrained(a) = StartNextPrefetch(c)
      BY <1>3 DEF PrefetchDrained
    <2>2. /\ Rest(a, b, {"status", "failed", "queue", "started", "cache", "prefetch", "load", "review"})
          /\ b.cache = a.cache /\ b.prefetch = NONE /\ b.load = a.load /\ b.review = a.review
          /\ b.options = a.options /\ b.shown = a.shown /\ b.generation = a.generation
      BY <1>1 DEF Rest, AppFields
    <2> HIDE DEF b
    <2>3. AppInv(b, L, s)
      BY <2>2, LessIsHandled
    <2>4. Prefetches(a, c, L, s)
      <3>1. CASE job.read = Failed
        BY <2>2, <2>3, <3>1 DEF Prefetches
      <3>2. CASE job.read # Failed
        <4>1. HasRead(job) /\ job # NONE
          BY <1>3, <3>2 DEF HasRead, Finished
        <4>2. Known(job.options, job.read, s) /\ Below(L[job.options], job.read) /\ job.options # a.options
          BY <4>1 DEF AppInv, PrefetchInv, JobInv
        <4> DEFINE d == CacheLoaded(b, job.options, job.read)
        <4>3. AppInv(d, L, s) /\ Rest(b, d, {"cache"})
          BY <2>2, <2>3, <4>2, CachingIsGood
        <4>4. c = d
          BY <3>2
        <4> HIDE DEF d, c
        <4> QED
          BY <2>2, <4>3, <4>4 DEF Prefetches, Rest, AppFields
      <3> QED
        BY <3>1, <3>2
    <2> HIDE DEF c
    <2>5. Prefetches(c, StartNextPrefetch(c), L, s)
      BY <2>4, NextPrefetchIsGood DEF Prefetches
    <2> QED
      BY <2>1, <2>4, <2>5 DEF Prefetches
  <1> QED
    BY <1>2, <1>3

(* Prefetches are queued once. *)
LEMMA PrefetchingIsGood ==
    ASSUME NEW a, NEW L, NEW s, AppInv(a, L, s)
    PROVE  Prefetches(a, PrefetchesStarted(a), L, s)
  <1> DEFINE b == QueuePrefetches(a)
             c == IF a.started \/ ~Active(a) THEN a ELSE b
  <1>1. DOMAIN a = AppFields
    BY DEF AppInv, ShownInv
  <1>2. /\ Rest(a, b, {"status", "failed", "queue", "started", "cache", "prefetch", "load", "review"})
        /\ b.cache = a.cache /\ b.prefetch = a.prefetch /\ b.load = a.load /\ b.review = a.review
        /\ b.options = a.options /\ b.shown = a.shown /\ b.generation = a.generation
    BY <1>1 DEF QueuePrefetches, Rest, AppFields
  <1>3. PrefetchesStarted(a) = StartNextPrefetch(c)
    BY DEF PrefetchesStarted
  <1> HIDE DEF b
  <1>4. AppInv(b, L, s)
    BY <1>2, LessIsHandled
  <1>5. Prefetches(a, c, L, s)
    BY <1>2, <1>4 DEF Prefetches
  <1> HIDE DEF c
  <1>6. Prefetches(c, StartNextPrefetch(c), L, s)
    BY <1>5, NextPrefetchIsGood DEF Prefetches
  <1> QED
    BY <1>3, <1>5, <1>6 DEF Prefetches

(* Both together, as a turn does them. *)
LEMMA PrefetchesAreHandled ==
    ASSUME NEW a, NEW L, NEW s, AppInv(a, L, s)
    PROVE  /\ Handled(a, PrefetchDrained(a), L, s)
           /\ Handled(a, PrefetchesStarted(PrefetchDrained(a)), L, s)
  <1> DEFINE b == PrefetchDrained(a)
             c == PrefetchesStarted(b)
  <1>1. Prefetches(a, b, L, s)
    BY DrainedIsGood
  <1> HIDE DEF b
  <1>2. Prefetches(b, c, L, s)
    BY <1>1, PrefetchingIsGood DEF Prefetches
  <1> HIDE DEF c
  <1>3. ASSUME NEW d, Prefetches(a, d, L, s)
        PROVE  Handled(a, d, L, s)
    BY <1>3, ShowingTheSame DEF Prefetches, KeepsLoad, AppInv, ShownInv
  <1>4. Prefetches(a, c, L, s)
    BY <1>1, <1>2 DEF Prefetches
  <1> QED
    BY <1>1, <1>3, <1>4 DEF b, c

(* A reload of some files shows these as they were read, the others as      *)
(* they were.                                                               *)
LEMMA ScopedReloadIsHandled ==
    ASSUME NEW a, NEW L, NEW s, AppInv(a, L, s), NEW paths, NEW content, Known(a.options, content, s)
    PROVE  LET b == ReplacePaths(a, paths, content)
           IN  /\ Handled(a, b, L, s) /\ b.options = a.options /\ b.load = a.load
               /\ \A p \in Path : p \in paths => b.shown[p] = content[p]
  <1> DEFINE x == Invalidate(a)
             mixed == [p \in Path |-> IF p \in paths THEN content[p] ELSE x.shown[p]]
             y == [x EXCEPT !.shown = mixed, !.generation = x.generation + 1]
             b == CacheLoaded(y, y.options, y.shown)
  <1>1. DOMAIN a = AppFields /\ a.generation \in Nat
    BY DEF AppInv, ShownInv
  <1>2. b = ReplacePaths(a, paths, content)
    BY DEF ReplacePaths, StoreCurrent
  <1>3. /\ Rest(a, x, {"cache", "prefetch", "queue", "started"})
        /\ x.cache = <<>> /\ x.prefetch = NONE
    BY <1>1, Fields
  <1> HIDE DEF x
  <1>4. Known(a.options, mixed, s)
    <2>1. Known(a.options, a.shown, s)
      BY ShownIsKnown
    <2>2. x.shown = a.shown
      BY <1>3 DEF Rest, AppFields
    <2> QED
      BY <2>1, <2>2 DEF Known, Version, Below
  <1>5. \A p \in Path : p \in paths => mixed[p] = content[p]
    OBVIOUS
  <1> HIDE DEF mixed
  <1>6. /\ DOMAIN y = AppFields /\ y.shown = mixed /\ y.generation = a.generation + 1
        /\ y.options = a.options /\ y.cache = <<>> /\ y.prefetch = NONE
        /\ y.failed = a.failed /\ y.load = a.load /\ y.review = a.review
    BY <1>3 DEF Rest, AppFields
  <1> HIDE DEF y
  <1>7. /\ Rest(y, b, {"cache"})
        /\ Sequence(b.cache) /\ Distinct(b.cache)
        /\ \A e \in Entries(b) : e.options = a.options /\ e.shown = mixed /\ a.options \in Cacheable
    BY <1>6, CachedAlone
  <1> HIDE DEF b
  <1>8. /\ DOMAIN b = AppFields /\ b.shown = mixed /\ b.generation = a.generation + 1
        /\ b.options = a.options /\ b.prefetch = NONE
        /\ b.failed = a.failed /\ b.load = a.load /\ b.review = a.review
    BY <1>6, <1>7 DEF Rest, AppFields
  <1>9. Rest(a, b, {"status", "queue", "started", "generation", "shown", "cache", "prefetch"})
    BY <1>8 DEF Rest, AppFields
  <1>10. b.generation \in Nat /\ Moves(a, b) /\ KeepsLoad(a, b)
    BY <1>1, <1>8 DEF Moves, KeepsLoad
  <1>11. AppInv(b, [L EXCEPT ![b.options] = b.shown], s)
    BY <1>4, <1>7, <1>8, <1>9, <1>10, RefreshingIsGood
  <1> QED
    BY <1>2, <1>5, <1>8, <1>10, <1>11 DEF Handled

(* A load that is over shows what it read, all of it or the files asked for. *)
ShowsLoad(a, b) ==
    /\ b.options = a.load.options
    /\ \A p \in Path : p \in a.load.paths \/ a.load.paths = {} => b.shown[p] = a.load.read[p]

(* Whether all of it or some files, whether anyone waits, and whether it    *)
(* is what is shown already.                                                *)
LEMMA LoadIsHandled ==
    ASSUME NEW a, NEW L, NEW s, AppInv(a, L, s), a.load # NONE, HasRead(a.load)
    PROVE  LET b == Applied([a EXCEPT !.load = NONE], a.load)
           IN  Handled(a, b, L, s) /\ ShowsLoad(a, b)
  <1> DEFINE job == a.load
             x == [a EXCEPT !.load = NONE]
             loaded == ReplaceLoaded(x, job.options, job.read)
             replaced == ReplaceCached(x, job.options, job.read)
             b == Applied(x, job)
  <1>1. DOMAIN a = AppFields /\ a.generation \in Nat
    BY DEF AppInv, ShownInv
  <1>2. /\ Rest(a, x, {"status", "failed", "queue", "started", "cache", "prefetch", "load", "review"})
        /\ x.cache = a.cache /\ x.prefetch = a.prefetch /\ x.load = NONE /\ x.review = a.review
        /\ x.options = a.options /\ x.shown = a.shown /\ x.generation = a.generation
        /\ DOMAIN x = AppFields
    BY <1>1 DEF Rest, AppFields
  <1>3. b = IF job.paths # {} THEN ReplacePaths(x, job.paths, job.read)
            ELSE IF job.by # NoRequest
                 THEN IF loaded.generation = x.generation
                      THEN [loaded EXCEPT !.generation = loaded.generation + 1] ELSE loaded
            ELSE IF job.options \in Cacheable THEN replaced
            ELSE loaded
    BY DEF Applied
  <1> HIDE DEF x, b
  <1>4. AppInv(x, L, s)
    BY <1>2, LessIsHandled
  <1>5. job.options \in Shows /\ Known(job.options, job.read, s)
    BY DEF AppInv, LoadInv, JobInv
  <1>6. Entries(x) = Entries(a)
    BY <1>2 DEF Entries
  <1>7. MayArrive(x, job.options)
    BY <1>2, <1>6 DEF MayArrive, AppInv, LoadInv, PrefetchInv
  <1>8. ASSUME NEW d, Handled(x, d, L, s), d.load = NONE
        PROVE  Handled(a, d, L, s)
    BY <1>2, <1>8 DEF Handled, Moves, KeepsLoad, ByOf
  <1>9. /\ Handled(a, replaced, L, s) /\ replaced.options = job.options /\ replaced.shown = job.read
        /\ replaced.generation # x.generation
    <2>1. /\ Rest(x, replaced, {"status", "options", "shown", "generation"})
          /\ replaced.options = job.options /\ replaced.shown = job.read
          /\ replaced.generation = x.generation + 1
      BY <1>2, Fields
    <2>2. Handled(x, replaced, L, s)
      BY <1>2, <1>4, <1>5, <1>7, ReplacingIsHandled
    <2> HIDE DEF replaced
    <2>3. replaced.load = NONE
      BY <1>2, <2>1 DEF Rest, AppFields
    <2> QED
      BY <1>1, <1>2, <1>8, <2>1, <2>2, <2>3
  <1>10. CASE job.paths # {}
    <2>1. b = ReplacePaths(x, job.paths, job.read) /\ job.options = x.options
      BY <1>2, <1>3, <1>10 DEF AppInv, LoadInv
    <2>2. /\ Handled(x, b, L, s) /\ b.options = x.options /\ b.load = NONE
          /\ \A p \in Path : p \in job.paths => b.shown[p] = job.read[p]
      BY <1>2, <1>4, <1>5, <2>1, ScopedReloadIsHandled
    <2> QED
      BY <1>8, <1>10, <2>1, <2>2 DEF ShowsLoad, b, x
  <1>11. CASE job.paths = {} /\ x.options = job.options /\ x.shown = job.read
    <2>1. loaded = Reset(x)
      BY <1>11 DEF ReplaceLoaded
    <2>2. Rest(x, Reset(x), {"status"})
      BY <1>2, Fields
    <2> HIDE DEF loaded
    <2>3. /\ DOMAIN loaded = AppFields /\ loaded.options = x.options /\ loaded.shown = x.shown
          /\ loaded.generation = x.generation /\ loaded.load = NONE
          /\ loaded.cache = x.cache /\ loaded.prefetch = x.prefetch /\ loaded.review = x.review
          /\ loaded.failed = x.failed
      BY <1>2, <2>1, <2>2 DEF Rest, AppFields
    <2> DEFINE c == [loaded EXCEPT !.generation = loaded.generation + 1]
    <2>4. /\ DOMAIN c = AppFields /\ c.options = x.options /\ c.shown = x.shown
          /\ c.generation = x.generation + 1 /\ c.load = NONE
          /\ c.cache = x.cache /\ c.prefetch = x.prefetch /\ c.review = x.review
      BY <2>3 DEF AppFields
    <2> HIDE DEF c
    <2>5. b \in {c, loaded, replaced}
      BY <1>3, <1>11, <2>3 DEF c
    <2>6. ASSUME NEW d \in {c, loaded}
          PROVE  Handled(a, d, L, s) /\ d.options = job.options /\ d.shown = job.read
      <3>1. Rest(x, d, {"status", "failed", "queue", "started", "generation",
                        "cache", "prefetch", "load", "review"})
        BY <1>2, <2>3, <2>4 DEF Rest, AppFields
      <3>2. /\ d.generation \in Nat /\ d.generation >= x.generation /\ d.load = NONE
            /\ d.cache = x.cache /\ d.prefetch = x.prefetch /\ d.review = x.review
            /\ d.options = x.options /\ d.shown = x.shown
        BY <1>1, <1>2, <2>3, <2>4
      <3>3. AppInv(d, L, s)
        BY <1>2, <1>4, <3>1, <3>2, LessIsAsGood
      <3>4. Handled(x, d, L, s)
        BY <1>2, <1>4, <3>2, <3>3, ShowingTheSame DEF KeepsLoad
      <3> QED
        BY <1>8, <1>11, <3>2, <3>4
    <2>7. Handled(a, b, L, s) /\ b.options = job.options /\ b.shown = job.read
      BY <1>9, <2>5, <2>6
    <2> QED
      BY <2>7 DEF ShowsLoad, b, x
  <1>12. CASE job.paths = {} /\ ~(x.options = job.options /\ x.shown = job.read)
    <2>1. loaded = replaced
      BY <1>12 DEF ReplaceLoaded
    <2>2. b = replaced
      BY <1>3, <1>9, <1>12, <2>1
    <2> QED
      BY <1>9, <2>2 DEF ShowsLoad, b, x
  <1> QED
    BY <1>10, <1>11, <1>12

(* A hosted review arrives when nothing else is being loaded. *)
LEMMA ReviewLoadIsHandled ==
    ASSUME NEW a, NEW L, NEW s, AppInv(a, L, s), a.review # NONE, HasRead(a.review)
    PROVE  Handled(a, ReplaceLoaded([a EXCEPT !.review = NONE], Review, a.review.read), L, s)
  <1> DEFINE x == [a EXCEPT !.review = NONE]
             b == ReplaceLoaded(x, Review, a.review.read)
  <1>1. DOMAIN a = AppFields /\ a.generation \in Nat
    BY DEF AppInv, ShownInv
  <1>2. /\ Rest(a, x, {"status", "failed", "queue", "started", "cache", "prefetch", "load", "review"})
        /\ x.cache = a.cache /\ x.prefetch = a.prefetch /\ x.load = a.load /\ x.review = NONE
        /\ x.options = a.options /\ x.shown = a.shown /\ x.generation = a.generation
        /\ DOMAIN x = AppFields
    BY <1>1 DEF Rest, AppFields
  <1> HIDE DEF x
  <1>3. AppInv(x, L, s)
    BY <1>2, LessIsHandled
  <1>4. a.load = NONE /\ Known(Review, a.review.read, s) /\ Review \in Shows
    BY DEF AppInv, ReviewInv, JobInv, Shows
  <1>5. CASE x.options = Review /\ x.shown = a.review.read
    <2>1. b = Reset(x) /\ Rest(x, Reset(x), {"status"})
      BY <1>2, <1>5, Fields DEF ReplaceLoaded
    <2> HIDE DEF b
    <2>2. /\ Rest(a, b, {"status", "failed", "queue", "started", "cache", "prefetch", "load", "review"})
          /\ b.cache = a.cache /\ b.prefetch = a.prefetch /\ b.load = a.load /\ b.review = NONE
      BY <1>2, <2>1 DEF Rest, AppFields
    <2>3. Handled(a, b, L, s)
      BY <2>2, LessIsHandled
    <2> QED
      BY <2>3 DEF b, x
  <1>6. CASE ~(x.options = Review /\ x.shown = a.review.read)
    <2>1. b = ReplaceCached(x, Review, a.review.read)
      BY <1>6 DEF ReplaceLoaded
    <2>2. MayArrive(x, Review)
      BY <1>2, <1>3, <1>4, DiffLoadAssumption DEF MayArrive, AppInv, PrefetchInv
    <2>3. Handled(x, b, L, s)
      BY <1>2, <1>3, <1>4, <2>1, <2>2, ReplacingIsHandled
    <2> HIDE DEF b
    <2>4. Handled(a, b, L, s)
      BY <1>2, <2>3 DEF Handled, Moves, KeepsLoad
    <2> QED
      BY <2>4 DEF b, x
  <1> QED
    BY <1>5, <1>6

(* What a client was told stays true, or is of an older generation. *)
LEMMA StaysTrue ==
    ASSUME NEW request, NEW a, NEW b, IsTrue(request, a), Moves(a, b), a.generation \in Nat
    PROVE  IsTrue(request, b)
  BY DEF IsTrue, Moves

(* Who waits for the load keeps waiting for it, is told of it, or is told   *)
(* that it was dropped.                                                     *)
LEMMA AnswersAreGood ==
    ASSUME NEW L, NEW s, AppInv(app, L, s), RequestInv(app, requests, s), DOMAIN requests = Requests,
           NEW b, Moves(app, b), KeepsLoad(app, b), NEW result \in {"ok", "failed", "stopped"},
           result = "ok" => app.load # NONE /\ HasRead(app.load) /\ ShowsLoad(app, b)
    PROVE  RequestInv(b, Answered(b, result), s) /\ DOMAIN Answered(b, result) = Requests
  <1> DEFINE by == ByOf(app)
             told == Told(requests[by], b.generation)
             q == Answered(b, result)
  <1>1. q = IF by = NoRequest \/ (b.load # NONE /\ b.load.by = by) THEN requests
            ELSE [requests EXCEPT ![by] = IF result = "ok" THEN told ELSE [state |-> result]]
    BY DEF Answered, ByOf
  <1>2. app.generation \in Nat /\ b.generation \in Nat
    BY DEF AppInv, ShownInv, Moves
  <1>3. ASSUME NEW r \in DOMAIN requests, requests[r].state = "ok"
        PROVE  IsTrue(requests[r], b)
    BY <1>2, <1>3, StaysTrue DEF RequestInv
  <1> HIDE DEF q
  <1>4. CASE by = NoRequest \/ (b.load # NONE /\ b.load.by = by)
    <2>1. q = requests
      BY <1>1, <1>4
    <2>2. ByOf(b) # NoRequest => ByOf(b) = ByOf(app) /\ b.load = app.load
      BY DEF KeepsLoad, ByOf
    <2> QED
      BY <1>3, <2>1, <2>2 DEF RequestInv, q
  <1>5. CASE by # NoRequest /\ ~(b.load # NONE /\ b.load.by = by)
    <2>1. ByOf(b) = NoRequest
      BY <1>5 DEF KeepsLoad, ByOf
    <2>2. by \in DOMAIN requests /\ Awaits(requests[by], app.load, s)
      BY <1>5 DEF RequestInv
    <2> DEFINE answer == IF result = "ok" THEN told ELSE [state |-> result]
    <2>3. q = [requests EXCEPT ![by] = answer]
      BY <1>1, <1>5
    <2>4. answer.state = "ok" => IsTrue(answer, b)
      <3>1. CASE result = "ok"
        <4>1. /\ told.generation = b.generation /\ told.options = requests[by].options
              /\ told.paths = requests[by].paths /\ told.since = requests[by].since
          BY <2>2 DEF Told, Awaits, AskedFields
        <4>2. /\ b.options = app.load.options /\ HasRead(app.load)
              /\ \A p \in Path : p \in app.load.paths \/ app.load.paths = {} =>
                     b.shown[p] = app.load.read[p]
          BY <3>1 DEF ShowsLoad
        <4>3. ASSUME NEW p \in Path, p \in told.paths \/ told.paths = {}
              PROVE  b.shown[p] >= told.since[p]
          <5>1. p \in app.load.paths \/ app.load.paths = {}
            BY <2>2, <4>1, <4>3 DEF Awaits
          <5>2. requests[by].since[p] <= app.load.read[p]
            BY <2>2, <4>2 DEF Awaits, Below
          <5> QED
            BY <4>1, <4>2, <5>1, <5>2
        <4> HIDE DEF told
        <4>4. IsTrue(told, b)
          BY <1>2, <2>2, <4>1, <4>2, <4>3 DEF IsTrue, Awaits
        <4> QED
          BY <3>1, <4>4
      <3>2. CASE result # "ok"
        BY <3>2
      <3> QED
        BY <3>1, <3>2
    <2> HIDE DEF answer
    <2>5. /\ DOMAIN q = DOMAIN requests
          /\ \A r \in DOMAIN q : q[r] = IF r = by THEN answer ELSE requests[r]
      BY <2>2, <2>3
    <2>6. \A r \in DOMAIN q : q[r].state = "ok" => IsTrue(q[r], b)
      BY <1>3, <2>4, <2>5
    <2> QED
      BY <2>1, <2>5, <2>6 DEF RequestInv, q
  <1> QED
    BY <1>4, <1>5

(* What the invariant says of the view and of those who ask it. *)
ViewInv ==
    /\ AppInv(app, lastShown, source)
    /\ DOMAIN requests = Requests /\ RequestInv(app, requests, source)

(* A step that ends with such a view keeps the invariant. *)
LEMMA BecomingKeepsIt ==
    ASSUME ViewInv, NEW b, Handled(app, b, lastShown, source), NEW result \in {"ok", "failed", "stopped"},
           result = "ok" => app.load # NONE /\ HasRead(app.load) /\ ShowsLoad(app, b),
           Become(b, result), source' = source, used'.of = used.of
    PROVE  ViewInv'
  <1>1. app' = b /\ requests' = Answered(b, result) /\ lastShown' = [lastShown EXCEPT ![b.options] = b.shown]
    BY DEF Become
  <1>2. RequestInv(b, Answered(b, result), source) /\ DOMAIN Answered(b, result) = Requests
    BY AnswersAreGood DEF ViewInv, Handled
  <1>3. AppInv(b, [lastShown EXCEPT ![b.options] = b.shown], source)
    BY DEF Handled
  <1>4. Requests' = Requests
    BY DEF Requests, Bound
  <1> QED
    BY <1>1, <1>2, <1>3, <1>4 DEF ViewInv

(* A step that leaves the view alone does. *)
LEMMA StayingKeepsIt ==
    ASSUME ViewInv, Stay, source' = source, used'.of = used.of
    PROVE  ViewInv'
  BY DEF ViewInv, Stay, Requests, Bound

(* A key is handled once the view has seen what was noticed. *)
LEMMA SeenIsHandled ==
    ASSUME NEW L, NEW s, AppInv(app, L, s)
    PROVE  /\ AppInv(SeenApp, L, s) /\ Handled(app, SeenApp, L, s)
           /\ SeenApp.options = app.options /\ SeenApp.shown = app.shown
           /\ SeenApp.generation = app.generation /\ SeenApp.load = app.load
  <1>1. DOMAIN app = AppFields
    BY DEF AppInv, ShownInv
  <1>2. Rest(app, Noticed(app), {"cache", "prefetch", "queue", "started", "status"})
    BY <1>1, Fields
  <1>3. AppInv(Noticed(app), L, s) /\ Handled(app, Noticed(app), L, s)
    BY NoticingIsHandled
  <1>4. Handled(app, app, L, s)
    BY ShowingTheSame DEF KeepsLoad, AppInv, ShownInv
  <1> QED
    BY <1>2, <1>3, <1>4 DEF SeenApp, Rest, AppFields

(* What is handled once the view has seen what the watcher noticed. *)
LEMMA HandledSeen ==
    ASSUME NEW L, NEW s, AppInv(app, L, s), NEW b, Handled(SeenApp, b, L, s)
    PROVE  Handled(app, b, L, s)
  BY SeenIsHandled DEF Handled, Moves, KeepsLoad

(* The worker says one thing more. *)
LEMMA OneMore ==
    ASSUME NEW l, NEW s, LiveInv(l, s), NEW m, m \in {Started, Failed} \/ Known(l.options, m, s), NEW k,
           DOMAIN k = LiveFields, k.options = l.options, k.messages = Append(l.messages, m)
    PROVE  LiveInv(k, s)
  <1> DEFINE ms == l.messages
             S == ToSet(ms) \cup {m}
             new == Append(ms, m)
  <1>1. ms \in Seq(S) /\ m \in S
    BY DEF LiveInv, Sequence
  <1>2. new \in Seq(S)
    BY <1>1
  <1>3. Sequence(new) /\ ToSet(new) \subseteq S
    BY <1>2 DEF Sequence, ToSet
  <1> QED
    BY <1>3 DEF LiveInv

(* The view takes the first thing it said. *)
LEMMA OneLess ==
    ASSUME NEW l, NEW s, LiveInv(l, s), l.messages # <<>>
    PROVE  /\ Head(l.messages) \in {Started, Failed} \/ Known(l.options, Head(l.messages), s)
           /\ LiveInv([l EXCEPT !.messages = Tail(l.messages)], s)
  <1> DEFINE ms == l.messages
             S == ToSet(ms)
             k == [l EXCEPT !.messages = Tail(ms)]
  <1>1. ms \in Seq(S) /\ DOMAIN l = LiveFields
    BY DEF LiveInv, Sequence
  <1>2. Head(ms) \in S /\ Tail(ms) \in Seq(S)
    <2>1. ms # <<>>
      OBVIOUS
    <2> HIDE DEF ms, S
    <2> QED
      BY <1>1, <2>1, HeadTailProperties
  <1>3. Sequence(Tail(ms)) /\ ToSet(Tail(ms)) \subseteq S
    <2> DEFINE t == Tail(ms)
    <2>1. t \in Seq(S)
      BY <1>2
    <2> HIDE DEF t, S
    <2>2. Sequence(t) /\ ToSet(t) \subseteq S
      BY <2>1 DEF Sequence, ToSet
    <2> QED
      BY <2>2 DEF t
  <1>4. DOMAIN k = LiveFields /\ k.options = l.options /\ k.messages = Tail(ms)
    BY <1>1 DEF LiveFields
  <1> HIDE DEF k
  <1> QED
    BY <1>2, <1>3, <1>4 DEF LiveInv, k

(* What else the watcher knows does not matter. *)
LEMMA LiveAlike ==
    ASSUME NEW l, NEW s, LiveInv(l, s), NEW k, DOMAIN k = LiveFields, k.options = l.options,
           k.messages = l.messages
    PROVE  LiveInv(k, s)
  BY DEF LiveInv

(* A watcher that was just started has loaded nothing. *)
LEMMA NobodyWatches ==
    ASSUME NEW s, NEW o
    PROVE  LiveInv(NoLive, s) /\ LiveInv([NoLive EXCEPT !.options = o], s)
  <1>1. DOMAIN NoLive = LiveFields /\ NoLive.messages = <<>>
    BY DEF NoLive, LiveFields
  <1> DEFINE k == [NoLive EXCEPT !.options = o]
  <1>2. DOMAIN k = LiveFields /\ k.messages = <<>>
    BY <1>1 DEF LiveFields
  <1> HIDE DEF k
  <1> QED
    BY <1>1, <1>2, EmptyCache DEF LiveInv, k

(* The source changes. *)
LEMMA ChangeKeepsIt ==
    ASSUME LoadingInv, NEW p \in Path, Change(p)
    PROVE  LoadingInv'
  <1>1. source \in Version /\ DOMAIN used = UsedFields /\ DOMAIN live = LiveFields
    BY DEF LoadingInv, LiveInv
  <1>2. source' = [source EXCEPT ![p] = @ + 1]
    BY DEF Change
  <1>3. source' \in Version /\ Below(source, source')
    BY <1>1, <1>2 DEF Version, Below
  <1>4. /\ UNCHANGED <<app, requests, lastShown>>
        /\ used' = [used EXCEPT !.changes = @ + 1]
        /\ live' = [live EXCEPT !.events = live.options # NONE]
    BY DEF Change
  <1>5. DOMAIN used' = UsedFields /\ used'.of = used.of
    BY <1>1, <1>4 DEF UsedFields
  <1>6. DOMAIN live' = LiveFields /\ live'.options = live.options /\ live'.messages = live.messages
    BY <1>1, <1>4 DEF LiveFields
  <1>7. AppInv(app, lastShown, source')
    BY <1>1, <1>3, AppLater DEF LoadingInv
  <1>8. RequestInv(app, requests, source')
    BY <1>1, <1>3, RequestsLater DEF LoadingInv
  <1>9. LiveInv(live', source')
    BY <1>1, <1>3, <1>6, LiveLater, LiveAlike DEF LoadingInv
  <1>10. Requests' = Requests
    BY <1>5 DEF Requests, Bound
  <1> QED
    BY <1>3, <1>4, <1>5, <1>7, <1>8, <1>9, <1>10 DEF LoadingInv

(* The watcher notices and its worker loads. *)
LEMMA WatchingKeepsIt ==
    ASSUME LoadingInv, Deliver \/ Worker
    PROVE  LoadingInv'
  <1>1. DOMAIN live = LiveFields /\ LiveInv(live, source) /\ source \in Version
    BY DEF LoadingInv, LiveInv
  <1>2. UNCHANGED <<app, used, source, requests, lastShown>>
    BY DEF Deliver, Worker, WorkerStarts, WorkerLoads, Background
  <1>3. LiveInv(live', source)
    <2>1. CASE Deliver
      <3>1. DOMAIN live' = LiveFields /\ live'.options = live.options /\ live'.messages = live.messages
        BY <1>1, <2>1 DEF Deliver, LiveFields
      <3> QED
        BY <1>1, <3>1, LiveAlike
    <2>2. CASE WorkerStarts
      <3>1. /\ DOMAIN live' = LiveFields /\ live'.options = live.options
            /\ live'.messages = Append(live.messages, Started)
        BY <1>1, <2>2 DEF WorkerStarts, LiveFields
      <3> QED
        BY <1>1, <3>1, OneMore
    <2>3. CASE WorkerLoads
      <3>1. /\ DOMAIN live' = LiveFields /\ live'.options = live.options
            /\ live'.messages = Append(live.messages, Content(live.options))
        BY <1>1, <2>3 DEF WorkerLoads, LiveFields
      <3>2. Known(live.options, Content(live.options), source)
        BY <1>1, NowIsAVersion DEF Content, Now
      <3> QED
        BY <1>1, <3>1, <3>2, OneMore
    <2> QED
      BY <2>1, <2>2, <2>3 DEF Worker
  <1>4. Requests' = Requests
    BY <1>2 DEF Requests, Bound
  <1> QED
    BY <1>2, <1>3, <1>4 DEF LoadingInv

(* A job that reads its diff reads the newest there is. *)
LEMMA ReadingIsGood ==
    ASSUME NEW job, NEW s \in Version, JobInv(job, s), NEW content,
           content \in {Failed, Now(job.options, s)}
    PROVE  LET done == [job EXCEPT !.read = content]
           IN  /\ JobInv(done, s)
               /\ done.options = job.options /\ done.paths = job.paths /\ done.by = job.by
               /\ HasRead(done) => done.read = Now(job.options, s)
  <1> DEFINE done == [job EXCEPT !.read = content]
  <1>1. /\ DOMAIN done = JobFields /\ done.read = content
        /\ done.options = job.options /\ done.paths = job.paths /\ done.by = job.by
    BY DEF JobInv, JobFields
  <1> HIDE DEF done
  <1>2. HasRead(done) => done.read = Now(job.options, s)
    BY <1>1 DEF HasRead
  <1>3. JobInv(done, s)
    BY <1>1, <1>2, NowIsAVersion DEF JobInv
  <1> QED
    BY <1>1, <1>2, <1>3 DEF done

(* A job of the pool reads its diff. *)
LEMMA ReadingKeepsIt ==
    ASSUME LoadingInv, JobReads
    PROVE  LoadingInv'
  <1>1. /\ source \in Version /\ DOMAIN used = UsedFields /\ DOMAIN app = AppFields
        /\ AppInv(app, lastShown, source) /\ RequestInv(app, requests, source)
    BY DEF LoadingInv, AppInv, ShownInv
  <1>2. UNCHANGED <<source, requests, lastShown, live>>
    BY DEF JobReads, Background
  <1>3. DOMAIN used' = UsedFields /\ used'.of = used.of
    BY <1>1 DEF JobReads, Fails, UsedFields
  <1>4. PICK kind \in {"load", "prefetch", "review"} :
           /\ app[kind] # NONE
           /\ \E content \in {Failed, Now(app[kind].options, source)} : app' = Read(kind, content)
    BY DEF JobReads, Content, Now
  <1>5. PICK content \in {Failed, Now(app[kind].options, source)} : app' = Read(kind, content)
    BY <1>4
  <1> DEFINE job == app[kind]
             done == [job EXCEPT !.read = content]
             a == app'
  <1>6. JobInv(job, source)
    BY <1>1, <1>4 DEF AppInv, LoadInv, PrefetchInv, ReviewInv
  <1>7. /\ JobInv(done, source)
        /\ done.options = job.options /\ done.paths = job.paths /\ done.by = job.by
        /\ HasRead(done) => done.read = Now(job.options, source)
    BY <1>1, <1>6, ReadingIsGood
  <1>8. a = [app EXCEPT ![kind] = done]
    BY <1>5 DEF Read
  <1> HIDE DEF done
  <1>9. /\ DOMAIN a = AppFields /\ a[kind] = done
        /\ \A f \in AppFields : f # kind => a[f] = app[f]
    BY <1>1, <1>8 DEF AppFields
  <1>10. /\ a.options = app.options /\ a.shown = app.shown /\ a.generation = app.generation
         /\ a.cache = app.cache
    BY <1>9 DEF AppFields
  <1>11. Entries(a) = Entries(app)
    BY <1>10 DEF Entries
  <1>12. ShownInv(a, lastShown, source) /\ CacheInv(a, lastShown, source)
    BY <1>1, <1>9, <1>10, <1>11 DEF AppInv, ShownInv, CacheInv
  <1> HIDE DEF a
  <1>13. AppInv(a, lastShown, source) /\ RequestInv(a, requests, source)
    <2>1. CASE kind = "load"
      <3>1. /\ app.load # NONE /\ job = app.load /\ a.load = done
            /\ a.prefetch = app.prefetch /\ a.review = app.review
        BY <1>4, <1>9, <2>1 DEF AppFields
      <3>2. LoadInv(a, source)
        BY <1>1, <1>7, <1>10, <1>11, <3>1 DEF AppInv, LoadInv
      <3>3. PrefetchInv(a, lastShown, source) /\ ReviewInv(a, source)
        BY <1>1, <1>7, <1>10, <1>11, <3>1 DEF AppInv, PrefetchInv, ReviewInv
      <3>4. \A r \in DOMAIN requests : requests[r].state = "ok" => IsTrue(requests[r], a)
        BY <1>1, <1>10 DEF RequestInv, IsTrue
      <3>5. ByOf(a) # NoRequest => ByOf(a) \in DOMAIN requests /\ Awaits(requests[ByOf(a)], a.load, source)
        <4>1. ByOf(a) # NoRequest => ByOf(a) = ByOf(app)
          BY <1>7, <3>1 DEF ByOf
        <4>2. ASSUME ByOf(a) # NoRequest
              PROVE  Awaits(requests[ByOf(a)], done, source)
          BY <1>1, <1>7, <3>1, <4>1, <4>2 DEF RequestInv, Awaits
        <4> QED
          BY <1>1, <3>1, <4>1, <4>2 DEF RequestInv
      <3> QED
        BY <1>12, <3>2, <3>3, <3>4, <3>5 DEF AppInv, RequestInv
    <2>2. CASE kind # "load"
      <3>1. a.load = app.load
        BY <1>9, <2>2 DEF AppFields
      <3>2. LoadInv(a, source)
        BY <1>1, <1>10, <1>11, <3>1 DEF AppInv, LoadInv
      <3>3. RequestInv(a, requests, source)
        BY <1>1, <1>10, <3>1 DEF RequestInv, IsTrue, ByOf
      <3>4. PrefetchInv(a, lastShown, source)
        <4>1. CASE kind = "prefetch"
          <5>1. /\ app.prefetch # NONE /\ job = app.prefetch /\ a.prefetch = done
            BY <1>4, <1>9, <4>1 DEF AppFields
          <5>2. HasRead(done) => Below(lastShown[done.options], done.read)
            BY <1>1, <1>6, <1>7 DEF AppInv, ShownInv, JobInv
          <5> QED
            BY <1>1, <1>7, <1>10, <1>11, <3>1, <5>1, <5>2 DEF AppInv, PrefetchInv
        <4>2. CASE kind = "review"
          <5>1. a.prefetch = app.prefetch
            BY <1>9, <4>2 DEF AppFields
          <5> QED
            BY <1>1, <1>10, <1>11, <3>1, <5>1 DEF AppInv, PrefetchInv
        <4> QED
          BY <2>2, <4>1, <4>2
      <3>5. ReviewInv(a, source)
        <4>1. CASE kind = "review"
          <5>1. app.review # NONE /\ job = app.review /\ a.review = done
            BY <1>4, <1>9, <4>1 DEF AppFields
          <5> QED
            BY <1>1, <1>7, <3>1, <5>1 DEF AppInv, ReviewInv
        <4>2. CASE kind = "prefetch"
          <5>1. a.review = app.review
            BY <1>9, <4>2 DEF AppFields
          <5> QED
            BY <1>1, <3>1, <5>1 DEF AppInv, ReviewInv
        <4> QED
          BY <2>2, <4>1, <4>2
      <3> QED
        BY <1>12, <3>2, <3>3, <3>4, <3>5 DEF AppInv
    <2> QED
      BY <2>1, <2>2
  <1>14. Requests' = Requests
    BY <1>3 DEF Requests, Bound
  <1> QED
    BY <1>2, <1>3, <1>13, <1>14 DEF LoadingInv, a

(* The invariant, taken apart and put together. *)
LEMMA TheParts ==
    ASSUME LoadingInv
    PROVE  /\ ViewInv /\ AppInv(app, lastShown, source) /\ RequestInv(app, requests, source)
           /\ LiveInv(live, source) /\ source \in Version
           /\ DOMAIN app = AppFields /\ app.generation \in Nat /\ app.options \in Shows
           /\ DOMAIN used = UsedFields /\ DOMAIN live = LiveFields
  BY DEF LoadingInv, ViewInv, AppInv, ShownInv, LiveInv

(* It holds of what a turn leaves if it holds of the view and the           *)
(* watcher.                                                                 *)
LEMMA TogetherAgain ==
    ASSUME source \in Version, source' = source, ViewInv', LiveInv(live', source), DOMAIN used' = UsedFields
    PROVE  LoadingInv'
  BY DEF LoadingInv, ViewInv

(* The watcher, once what it noticed was seen. *)
LEMMA SeenLive ==
    ASSUME LoadingInv
    PROVE  LiveInv(Seen, source)
  <1> DEFINE k == [live EXCEPT !.changed = FALSE]
  <1>1. LiveInv(live, source) /\ DOMAIN live = LiveFields
    BY TheParts
  <1>2. DOMAIN k = LiveFields /\ k.options = live.options /\ k.messages = live.messages
    BY <1>1 DEF LiveFields
  <1> HIDE DEF k
  <1>3. LiveInv(k, source)
    BY <1>1, <1>2, LiveAlike
  <1> QED
    BY <1>1, <1>3 DEF Seen, k

(* The turn of the UI thread, step by step: what was noticed, *)
LEMMA InvalidationKeepsIt ==
    ASSUME LoadingInv, DrainInvalidation
    PROVE  LoadingInv'
  <1>1. source' = source /\ used' = used /\ live' = Seen
    BY DEF DrainInvalidation, Turn
  <1>2. Handled(app, Noticed(app), lastShown, source)
    BY TheParts, NoticingIsHandled
  <1>3. ViewInv'
    <2>1. CASE SeesChange
      <3>1. Become(Noticed(app), "stopped")
        BY <2>1 DEF DrainInvalidation
      <3> QED
        BY <1>1, <1>2, <3>1, TheParts, BecomingKeepsIt
    <2>2. CASE ~SeesChange
      BY <1>1, <2>2, TheParts, StayingKeepsIt DEF DrainInvalidation
    <2> QED
      BY <2>1, <2>2
  <1> QED
    BY <1>1, <1>3, TheParts, SeenLive, TogetherAgain

(* what was loaded, *)
LEMMA ReloadsKeepIt ==
    ASSUME LoadingInv, DrainReloads
    PROVE  LoadingInv'
  <1>1. CASE live.messages # <<>>
    <2>1. /\ source' = source /\ used' = used
          /\ live' = [live EXCEPT !.messages = Tail(live.messages)]
          /\ IF live.options = app.options
             THEN Become(Reloaded(app, Head(live.messages)), "stopped") ELSE Stay
      BY <1>1 DEF DrainReloads
    <2>2. /\ Head(live.messages) \in {Started, Failed} \/ Known(live.options, Head(live.messages), source)
          /\ LiveInv(live', source)
      BY <1>1, <2>1, TheParts, OneLess
    <2>3. ViewInv'
      <3>1. CASE live.options = app.options
        <4>1. Handled(app, Reloaded(app, Head(live.messages)), lastShown, source)
          BY <2>2, <3>1, TheParts, MessageIsHandled
        <4> QED
          BY <2>1, <3>1, <4>1, TheParts, BecomingKeepsIt
      <3>2. CASE live.options # app.options
        BY <2>1, <3>2, TheParts, StayingKeepsIt
      <3> QED
        BY <3>1, <3>2
    <2> QED
      BY <2>1, <2>2, <2>3, TheParts, TogetherAgain
  <1>2. CASE live.messages = <<>>
    <2>1. source' = source /\ used' = used /\ live' = live /\ Stay
      BY <1>2 DEF DrainReloads, Turn
    <2>2. ViewInv'
      BY <2>1, TheParts, StayingKeepsIt
    <2> QED
      BY <2>1, <2>2, TheParts, TogetherAgain
  <1> QED
    BY <1>1, <1>2

(* the watcher of what is shown, *)
LEMMA SyncKeepsIt ==
    ASSUME LoadingInv, SyncLive
    PROVE  LoadingInv'
  <1> DEFINE dropped(f) == [Reset(Invalidate(app)) EXCEPT !.failed = f]
             reset == [Reset(app) EXCEPT !.failed = NONE]
  <1>1. source' = source
    BY DEF SyncLive, Turn
  <1>2. DOMAIN used' = UsedFields /\ used'.of = used.of
    BY TheParts DEF SyncLive, Fails, UsedFields
  <1>3. LiveInv(live', source)
    <2>1. live' \in {live, NoLive, [NoLive EXCEPT !.options = app.options]}
      BY DEF SyncLive
    <2> QED
      BY <2>1, TheParts, NobodyWatches
  <1>4. Handled(app, reset, lastShown, source)
    <2>1. Rest(app, Reset(app), {"status"})
      BY TheParts, Fields
    <2>2. /\ Rest(app, reset, {"status", "failed", "queue", "started", "cache", "prefetch", "load", "review"})
          /\ reset.cache = app.cache /\ reset.prefetch = app.prefetch
          /\ reset.load = app.load /\ reset.review = app.review
      BY <2>1 DEF Rest, AppFields
    <2> HIDE DEF reset
    <2> QED
      BY <2>2, TheParts, LessIsHandled
  <1>5. ASSUME NEW f
        PROVE  Handled(app, dropped(f), lastShown, source)
    <2> DEFINE x == Invalidate(app)
               y == Reset(x)
               z == [y EXCEPT !.failed = f]
    <2>1. Rest(app, x, {"cache", "prefetch", "queue", "started"}) /\ x.cache = <<>> /\ x.prefetch = NONE
      BY TheParts, Fields
    <2> HIDE DEF x
    <2>2. Rest(x, y, {"status"})
      BY <2>1, Fields DEF Rest
    <2> HIDE DEF y
    <2>3. /\ Rest(app, z, {"status", "failed", "queue", "started", "cache", "prefetch", "load", "review"})
          /\ z.cache = <<>> /\ z.prefetch = NONE /\ z.load = app.load /\ z.review = app.review
      BY <2>1, <2>2 DEF Rest, AppFields
    <2> HIDE DEF z
    <2>4. Handled(app, z, lastShown, source)
      BY <2>3, TheParts, LessIsHandled
    <2> QED
      BY <2>4 DEF x, y, z
  <1>6. \/ Stay
        \/ Become(reset, "stopped")
        \/ Become(dropped(NONE), "stopped")
        \/ Become(dropped(app.options), "stopped")
    BY DEF SyncLive
  <1> HIDE DEF reset, dropped
  <1>7. ViewInv'
    <2>1. CASE Stay
      BY <1>1, <1>2, <2>1, TheParts, StayingKeepsIt
    <2>2. CASE Become(reset, "stopped")
      BY <1>1, <1>2, <1>4, <2>2, TheParts, BecomingKeepsIt
    <2>3. CASE Become(dropped(NONE), "stopped")
      BY <1>1, <1>2, <1>5, <2>3, TheParts, BecomingKeepsIt
    <2>4. CASE Become(dropped(app.options), "stopped")
      BY <1>1, <1>2, <1>5, <2>4, TheParts, BecomingKeepsIt
    <2> QED
      BY <1>6, <2>1, <2>2, <2>3, <2>4
  <1> QED
    BY <1>1, <1>2, <1>3, <1>7, TheParts, TogetherAgain

(* the loads that are over, *)
LEMMA LoadsKeepIt ==
    ASSUME LoadingInv, DrainLoad
    PROVE  LoadingInv'
  <1>1. source' = source /\ live' = live /\ used' = used
    BY DEF DrainLoad, Turn
  <1>2. ViewInv'
    <2>1. CASE ReviewApplied
      <3> DEFINE a == [app EXCEPT !.review = NONE]
                 b == ReplaceLoaded(a, Review, app.review.read)
      <3>1. CASE app.review.read = Failed
        <4>1. /\ Rest(app, a, {"status", "failed", "queue", "started", "cache", "prefetch", "load", "review"})
              /\ a.cache = app.cache /\ a.prefetch = app.prefetch /\ a.load = app.load /\ a.review = NONE
          BY TheParts DEF Rest, AppFields
        <4>2. Become(a, "stopped")
          BY <2>1, <3>1 DEF ReviewApplied
        <4> HIDE DEF a
        <4>3. Handled(app, a, lastShown, source)
          BY <4>1, TheParts, LessIsHandled
        <4> QED
          BY <1>1, <4>2, <4>3, TheParts, BecomingKeepsIt
      <3>2. CASE app.review.read # Failed
        <4>1. app.review # NONE /\ HasRead(app.review)
          BY <2>1, <3>2 DEF ReviewApplied, Finished, HasRead
        <4>2. Handled(app, b, lastShown, source)
          BY <4>1, TheParts, ReviewLoadIsHandled
        <4>3. Become(b, "stopped")
          BY <2>1, <3>2 DEF ReviewApplied
        <4> HIDE DEF b
        <4> QED
          BY <1>1, <4>2, <4>3, TheParts, BecomingKeepsIt
      <3> QED
        BY <3>1, <3>2
    <2>2. CASE LoadApplied
      <3> DEFINE a == [app EXCEPT !.load = NONE]
                 b == Applied(a, app.load)
      <3>1. CASE app.load.read = Failed
        <4>1. /\ Rest(app, a, {"status", "failed", "queue", "started", "cache", "prefetch", "load", "review"})
              /\ a.cache = app.cache /\ a.prefetch = app.prefetch /\ a.load = NONE /\ a.review = app.review
          BY TheParts DEF Rest, AppFields
        <4>2. Become(a, "failed")
          BY <2>2, <3>1 DEF LoadApplied
        <4> HIDE DEF a
        <4>3. Handled(app, a, lastShown, source)
          BY <4>1, TheParts, LessIsHandled
        <4> QED
          BY <1>1, <4>2, <4>3, TheParts, BecomingKeepsIt
      <3>2. CASE app.load.read # Failed
        <4>1. app.load # NONE /\ HasRead(app.load)
          BY <2>2, <3>2 DEF LoadApplied, Finished, HasRead
        <4>2. Handled(app, b, lastShown, source) /\ ShowsLoad(app, b)
          BY <4>1, TheParts, LoadIsHandled
        <4>3. Become(b, "ok")
          BY <2>2, <3>2 DEF LoadApplied
        <4> HIDE DEF b
        <4> QED
          BY <1>1, <4>1, <4>2, <4>3, TheParts, BecomingKeepsIt
      <3> QED
        BY <3>1, <3>2
    <2>3. CASE Stay
      BY <1>1, <2>3, TheParts, StayingKeepsIt
    <2> QED
      BY <2>1, <2>2, <2>3 DEF DrainLoad
  <1> QED
    BY <1>1, <1>2, TheParts, TogetherAgain

(* the prefetches that are, *)
LEMMA PrefetchesKeepIt ==
    ASSUME LoadingInv, DrainPrefetch
    PROVE  LoadingInv'
  <1>1. source' = source /\ live' = live /\ used' = used
    BY DEF DrainPrefetch, Turn
  <1>2. /\ Handled(app, PrefetchDrained(app), lastShown, source)
        /\ Handled(app, PrefetchesStarted(PrefetchDrained(app)), lastShown, source)
    BY TheParts, PrefetchesAreHandled
  <1>3. \/ Become(PrefetchDrained(app), "stopped")
        \/ Become(PrefetchesStarted(PrefetchDrained(app)), "stopped")
    BY DEF DrainPrefetch
  <1>4. ViewInv'
    BY <1>1, <1>2, <1>3, TheParts, BecomingKeepsIt
  <1> QED
    BY <1>1, <1>4, TheParts, TogetherAgain

(* a key that is handled, *)
LEMMA KeysKeepIt ==
    ASSUME LoadingInv, NEW b, Key(b), Handled(SeenApp, b, lastShown, source)
    PROVE  LoadingInv'
  <1>1. /\ source' = source /\ live' = Seen /\ Become(b, "stopped")
        /\ used' = [used EXCEPT !.inputs = @ + 1]
    BY DEF Key, Turn
  <1>2. DOMAIN used' = UsedFields /\ used'.of = used.of
    BY <1>1, TheParts DEF UsedFields
  <1>3. Handled(app, b, lastShown, source)
    BY TheParts, HandledSeen
  <1>4. ViewInv'
    BY <1>1, <1>2, <1>3, TheParts, BecomingKeepsIt
  <1> QED
    BY <1>1, <1>2, <1>4, TheParts, SeenLive, TogetherAgain

(* a choice, a reload by the reader, a hosted review, *)
LEMMA InputKeepsIt ==
    ASSUME LoadingInv, PressReload \/ ReviewLoad \/ (\E o \in Options : Choose(o))
    PROVE  LoadingInv'
  <1> DEFINE good(b) == Handled(SeenApp, b, lastShown, source)
  <1>1. AppInv(SeenApp, lastShown, source) /\ SeenApp.generation = app.generation
    BY TheParts, SeenIsHandled
  <1>2. CASE PressReload
    <2> DEFINE x == Invalidate(SeenApp)
               b == StartUncached(x, app.options)
    <2>1. AppInv(x, lastShown, source) /\ good(x)
      BY <1>1, DroppingIsHandled
    <2> HIDE DEF x
    <2>2. Handled(x, b, lastShown, source)
      BY <2>1, TheParts, UncachedIsHandled
    <2>3. ByOf(b) = NoRequest
      <3>1. DOMAIN x = AppFields /\ app.options \in Shows
        BY <2>1, TheParts DEF AppInv, ShownInv
      <3>2. b.load = Job(app.options, {}, NoRequest)
        BY <3>1, Fields
      <3> HIDE DEF b
      <3>3. b.load.by = NoRequest
        BY <3>1, <3>2, JobFacts
      <3> QED
        BY <3>3 DEF ByOf
    <2>4. Key(b)
      BY <1>2 DEF PressReload, x
    <2> HIDE DEF b
    <2>5. good(b)
      BY <1>1, <2>1, <2>2, <2>3 DEF Handled, Moves, KeepsLoad, AppInv, ShownInv
    <2> QED
      BY <2>4, <2>5, KeysKeepIt
  <1>3. CASE ReviewLoad
    <2>1. good(StartReviewLoad(SeenApp))
      BY <1>1, ReviewIsHandled
    <2> QED
      BY <1>3, <2>1, KeysKeepIt DEF ReviewLoad
  <1>4. CASE \E o \in Options : Choose(o)
    <2>1. PICK o \in Options : Choose(o)
      BY <1>4
    <2>2. good(Chosen(SeenApp, o))
      BY <1>1, ChosenIsHandled
    <2> QED
      BY <2>1, <2>2, KeysKeepIt DEF Choose
  <1> QED
    BY <1>2, <1>3, <1>4

(* a reload by a client. *)
LEMMA SessionKeepsIt ==
    ASSUME LoadingInv, NEW request \in Requests, NEW o \in Options, NEW paths, NEW generation,
           SessionReload(request, o, paths, generation)
    PROVE  LoadingInv'
  <1>1. source' = source /\ live' = live /\ used' = used /\ Requests' = Requests
    BY DEF SessionReload, Turn, Requests, Bound
  <1>2. request # NoRequest /\ request \in DOMAIN requests /\ DOMAIN requests = Requests
    BY DEF Requests, NoRequest, LoadingInv
  <1>3. requests[request].state = "unused"
    BY DEF SessionReload
  <1>4. ByOf(app) # NoRequest => ByOf(app) # request
    BY <1>3, TheParts DEF RequestInv, Awaits
  <1>5. CASE generation # app.generation \/ Busy(app)
    <2> DEFINE refused == [state |-> "refused"]
    <2>1. requests' = [requests EXCEPT ![request] = refused] /\ UNCHANGED <<app, lastShown>>
      BY <1>5 DEF SessionReload
    <2>2. refused.state # "ok"
      OBVIOUS
    <2> HIDE DEF refused
    <2>3. RequestInv(app, requests', source)
      BY <1>2, <1>4, <2>1, <2>2, TheParts DEF RequestInv
    <2> QED
      BY <1>1, <1>2, <2>1, <2>3 DEF LoadingInv
  <1>6. CASE ~(generation # app.generation \/ Busy(app))
    <2> DEFINE asked == [state |-> "waiting", options |-> o, paths |-> paths,
                         since |-> Content(o), generation |-> generation]
               b == StartSessionLoad(app, request, o, paths)
    <2>1. /\ app' = b /\ requests' = [requests EXCEPT ![request] = asked]
          /\ lastShown' = lastShown
      BY <1>6 DEF SessionReload
    <2>2. /\ AppInv(b, lastShown, source)
          /\ b.options = app.options /\ b.shown = app.shown /\ b.generation = app.generation
          /\ b.load = Job(o, ScopedPaths(app, o, paths), request)
      BY <1>2, <1>6, TheParts, SessionLoadIsGood DEF Shows
    <2>3. /\ DOMAIN asked = AskedFields /\ asked.state = "waiting" /\ asked.options = o
          /\ asked.paths = paths /\ asked.since = Content(o)
      BY DEF AskedFields
    <2> HIDE DEF asked, b
    <2>4. /\ ~HasRead(b.load) /\ b.load.by = request /\ b.load.options = o
          /\ b.load.paths \in {{}, paths}
      BY <2>2, JobFacts DEF ScopedPaths, Shows
    <2>5. Content(o) \in Version /\ Below(Content(o), Now(o, source))
      BY TheParts, NowIsAVersion, BelowItself DEF Content, Now
    <2>6. Awaits(asked, b.load, source)
      BY <2>3, <2>4, <2>5 DEF Awaits
    <2>7. \A r \in DOMAIN requests' : requests'[r].state = "ok" => IsTrue(requests'[r], b)
      BY <1>2, <2>1, <2>2, <2>3, TheParts DEF RequestInv, IsTrue
    <2>8. RequestInv(b, requests', source)
      BY <1>2, <2>1, <2>4, <2>6, <2>7 DEF RequestInv, ByOf
    <2> QED
      BY <1>1, <1>2, <2>1, <2>2, <2>8 DEF LoadingInv
  <1> QED
    BY <1>5, <1>6

(* A view starts with the oldest diffs and nothing cached. *)
LEMMA InitIsGood ==
    ASSUME Init
    PROVE  LoadingInv
  <1>1. PICK scenario \in Scenarios :
           /\ used = [of |-> scenario, changes |-> 0, inputs |-> 0, failures |-> 0]
           /\ requests = [r \in 1..scenario.requests |-> [state |-> "unused"]]
    BY DEF Init
  <1>2. DOMAIN used = UsedFields /\ DOMAIN requests = Requests
    BY <1>1 DEF UsedFields, Requests, Bound
  <1>3. Bound.starts \subseteq Options
    BY <1>1, DiffLoadAssumption DEF Bound
  <1>4. PICK o \in Bound.starts, status \in {"off", "idle"} :
           app = [options |-> o, shown |-> Oldest, generation |-> 0, status |-> status,
                  failed |-> NONE, cache |-> <<>>, prefetch |-> NONE, queue |-> {},
                  started |-> FALSE, load |-> NONE, review |-> NONE]
    BY DEF Init
  <1>5. /\ DOMAIN app = AppFields /\ app.options = o /\ app.shown = Oldest /\ app.generation = 0
        /\ app.cache = <<>> /\ app.prefetch = NONE /\ app.load = NONE /\ app.review = NONE
    BY <1>4 DEF AppFields
  <1>6. source = Oldest /\ live = NoLive /\ lastShown = [x \in Shows |-> Oldest]
    BY DEF Init, Shows
  <1>7. Oldest \in Version /\ Below(Oldest, Oldest)
    BY DEF Version, Oldest, Below
  <1>8. o \in Shows
    BY <1>3 DEF Shows
  <1>9. ShownInv(app, lastShown, source)
    BY <1>5, <1>6, <1>7, <1>8 DEF ShownInv, Now
  <1>10. Entries(app) = {} /\ Sequence(app.cache) /\ Distinct(app.cache)
    BY <1>5, EmptyCache DEF Entries
  <1>11. AppInv(app, lastShown, source)
    BY <1>5, <1>9, <1>10 DEF AppInv, CacheInv, LoadInv, PrefetchInv, ReviewInv
  <1>12. RequestInv(app, requests, source)
    BY <1>1, <1>5 DEF RequestInv, ByOf
  <1>13. LiveInv(live, source)
    BY <1>6, NobodyWatches
  <1> QED
    BY <1>2, <1>6, <1>7, <1>11, <1>12, <1>13 DEF LoadingInv

(* Every step keeps the invariant. *)
LEMMA LoadingInvKeeps ==
    ASSUME LoadingInv, [Next]_vars
    PROVE  LoadingInv'
  <1>1. CASE \E p \in Path : Change(p)
    BY <1>1, ChangeKeepsIt
  <1>2. CASE Deliver \/ Worker
    BY <1>2, WatchingKeepsIt
  <1>3. CASE JobReads
    BY <1>3, ReadingKeepsIt
  <1>4. CASE UiTurn
    <2>1. CASE DrainInvalidation
      BY <2>1, InvalidationKeepsIt
    <2>2. CASE DrainReloads
      BY <2>2, ReloadsKeepIt
    <2>3. CASE SyncLive
      BY <2>3, SyncKeepsIt
    <2>4. CASE DrainLoad
      BY <2>4, LoadsKeepIt
    <2>5. CASE DrainPrefetch
      BY <2>5, PrefetchesKeepIt
    <2>6. CASE NoInput
      <3>1. source' = source /\ live' = live /\ used' = used /\ Stay
        BY <2>6 DEF NoInput, Turn
      <3>2. ViewInv'
        BY <3>1, TheParts, StayingKeepsIt
      <3> QED
        BY <3>1, <3>2, TheParts, TogetherAgain
    <2>7. CASE PressReload \/ ReviewLoad \/ (\E o \in Options : Choose(o))
      BY <2>7, InputKeepsIt
    <2>8. ASSUME NEW request \in Requests, NEW o \in Options,
                 NEW paths \in {{}} \cup {{p} : p \in Path},
                 NEW generation \in {app.generation, app.generation - 1},
                 SessionReload(request, o, paths, generation)
          PROVE  LoadingInv'
      BY <2>8, SessionKeepsIt
    <2> QED
      BY <1>4, <2>1, <2>2, <2>3, <2>4, <2>5, <2>6, <2>7, <2>8 DEF UiTurn
  <1>5. CASE UNCHANGED vars
    BY <1>5 DEF vars, LoadingInv, Requests, Bound
  <1> QED
    BY <1>1, <1>2, <1>3, <1>4, <1>5 DEF Next

(* What is cached is not older than the history says, so no choice is. *)
LEMMA NothingOlderFollows ==
    ASSUME LoadingInv
    PROVE  NothingOlder
  <1>1. CacheCoherent
    <2>1. ASSUME NEW o \in Options, Chosen(SeenApp, o).generation # app.generation
          PROVE  Below(lastShown[o], Chosen(SeenApp, o).shown)
      <3>1. AppInv(SeenApp, lastShown, source) /\ SeenApp.generation = app.generation
        BY TheParts, SeenIsHandled
      <3>2. NotOlder(SeenApp, Chosen(SeenApp, o), o, lastShown)
        BY <3>1, ChosenIsHandled
      <3> QED
        BY <2>1, <3>1, <3>2 DEF NotOlder
    <2> QED
      BY <2>1 DEF CacheCoherent, Below
  <1>2. ToldTruth
    BY DEF ToldTruth, LoadingInv, RequestInv, IsTrue
  <1> QED
    BY <1>1, <1>2 DEF NothingOlder

(* Nothing older than the view or a client has known of a comparison comes    *)
(* back, by a choice from the cache or by a load a client waited for: for any *)
(* comparisons, files, menu and room in the cache, and any number of changes, *)
(* choices, reloads, failures and clients.                                    *)
THEOREM NothingOlderComesBack == Spec => []NothingOlder
  <1>1. Init => LoadingInv
    BY InitIsGood
  <1>2. LoadingInv /\ [Next]_vars => LoadingInv'
    BY LoadingInvKeeps
  <1>3. LoadingInv => NothingOlder
    BY NothingOlderFollows
  <1> QED
    BY <1>1, <1>2, <1>3, PTL DEF Spec
=============================================================================
