------------------------------ MODULE ReviewStoreProofs ------------------------------
(***************************************************************************)
(* The durable reviews, twice.  As their clients see them, they are safe   *)
(* for any sets of files, patches, requests and reviews and any limits.    *)
(* And for any number of processes that share them: the flock makes the    *)
(* load, the decision and the rename one step, so no update is lost, the   *)
(* store implements SerialStore, and what a client was told stands.        *)
(***************************************************************************)
EXTENDS ReviewStore, ReviewFeed, ReviewRecordProofs

---------------------------------------------------------------------------
(* The reviews as their clients see them: Serial!Spec and FeedSpec. *)

LedgerInv ==
    /\ reviews \in [ReviewId -> Review \cup {NONE}]
    /\ \A i \in Opened : RecordInv(reviews[i])

LEMMA LedgerInvInit == Serial!Init => LedgerInv
  BY DEF Serial!Init, LedgerInv, Opened

LEMMA LedgerInvStep ==
  ASSUME LedgerInv, [Serial!Next]_reviews
  PROVE  LedgerInv'
<1>1. ASSUME NEW i \in ReviewId, NEW n \in Review, RecordInv(n),
             reviews' = [reviews EXCEPT ![i] = n]
      PROVE  LedgerInv'
  BY <1>1 DEF LedgerInv, Opened
<1>2. ASSUME NEW i \in ReviewId, NEW binding \in Binding, NEW source \in Source,
             NEW patch \in Patch, Serial!Open(i, binding, source, patch)
      PROVE  LedgerInv'
  BY <1>1, <1>2, NewReviewInv DEF Serial!Open
<1>3. ASSUME NEW i \in ReviewId, NEW req \in Calls, Serial!Mutate(i, req)
      PROVE  LedgerInv'
  <2>1. reviews[i] \in Review /\ RecordInv(reviews[i]) /\ Admits(reviews[i], req)
    BY <1>3 DEF Serial!Mutate, LedgerInv, Opened
  <2>2. reviews' = [reviews EXCEPT ![i] = Commit(reviews[i], req)]
    BY <1>3 DEF Serial!Mutate
  <2> QED  BY <1>1, <2>1, <2>2, RecordInvKept
<1>4. CASE UNCHANGED reviews
  BY <1>4 DEF LedgerInv, Opened
<1> QED  BY <1>2, <1>3, <1>4 DEF Serial!Next

LEMMA LedgerInvHolds == Serial!Spec => []LedgerInv
  BY LedgerInvInit, LedgerInvStep, PTL DEF Serial!Spec

(* Every record has the declared shape, whatever is asked of it. *)
THEOREM LedgerTypeCorrect == Serial!Spec => []TypeOK
<1>1. LedgerInv => TypeOK
  BY DEF LedgerInv, TypeOK, Opened
<1> QED  BY <1>1, LedgerInvHolds, PTL

(* The change log is one unbroken sequence ending at the record's revision. *)
THEOREM LogUnbroken == Serial!Spec => []ChangeLogUnbroken
<1>1. LedgerInv => ChangeLogUnbroken
  BY DEF LedgerInv, ChangeLogUnbroken, RecordInv, ChangeLog
<1> QED  BY <1>1, LedgerInvHolds, PTL

(* Every revision after the first belongs to exactly one receipt. *)
THEOREM ReceiptsMatchRevisions == Serial!Spec => []OneReceiptPerRevision
<1>1. LedgerInv => OneReceiptPerRevision
  BY DEF LedgerInv, OneReceiptPerRevision, RecordInv, Receipts
<1> QED  BY <1>1, LedgerInvHolds, PTL

(* A retry is told what the first caller was told. *)
THEOREM ReplaysAreFaithful == Serial!Spec => []ReplayIsFirstAnswer
<1>1. LedgerInv => ReplayIsFirstAnswer
  BY DEF LedgerInv, ReplayIsFirstAnswer, RecordInv, Replayable
<1> QED  BY <1>1, LedgerInvHolds, PTL

(* Log, receipts and replayed answers agree. *)
THEOREM RevisionsAreAccounted == Serial!Spec => []RevisionsAccounted
  BY LogUnbroken, ReceiptsMatchRevisions, ReplaysAreFaithful, PTL DEF RevisionsAccounted

(* A thread that is not stale is still on the text it was anchored in. *)
THEOREM LiveThreadsKeepEvidence == Serial!Spec => []LiveThreadsOnTheirEvidence
<1>1. LedgerInv => LiveThreadsOnTheirEvidence
  BY DEF LedgerInv, LiveThreadsOnTheirEvidence, RecordInv, OnEvidence
<1> QED  BY <1>1, LedgerInvHolds, PTL

(* What is marked reviewed has not changed since it was marked. *)
THEOREM MarksKeepEvidence == Serial!Spec => []ReviewedMeansUnchanged
<1>1. LedgerInv => ReviewedMeansUnchanged
  BY DEF LedgerInv, ReviewedMeansUnchanged, RecordInv, OnUnchanged, Items
<1> QED  BY <1>1, LedgerInvHolds, PTL

(* No comment and no mark stands on text it was not made on. *)
THEOREM EvidenceIsCurrent == Serial!Spec => []EvidenceStands
  BY LiveThreadsKeepEvidence, MarksKeepEvidence, PTL DEF EvidenceStands

(* A verdict and a return never outlive the snapshot they were given on. *)
THEOREM JudgementsAreCurrent == Serial!Spec => []VerdictAndReturnAreCurrent
<1>1. LedgerInv => VerdictAndReturnAreCurrent
  BY DEF LedgerInv, VerdictAndReturnAreCurrent, RecordInv, VerdictCurrent, ReturnCurrent
<1> QED  BY <1>1, LedgerInvHolds, PTL

(* Every submission delivers something no earlier one had. *)
THEOREM NoFeedbackRepeated == Serial!Spec => []SubmissionsAreNews
<1>1. LedgerInv => SubmissionsAreNews
  BY DEF LedgerInv, SubmissionsAreNews, RecordInv, News
<1> QED  BY <1>1, LedgerInvHolds, PTL

(* What was delivered is never altered. *)
THEOREM DeliveriesAreImmutable == Serial!Spec => SubmissionsImmutable
<1> DEFINE Immutable ==
      \A i \in Opened : \A s \in reviews[i].submissions :
          \E e \in reviews'[i].submissions :
              /\ s.acknowledged_by \subseteq e.acknowledged_by
              /\ [e EXCEPT !.acknowledged_by = s.acknowledged_by] = s
<1>1. ASSUME LedgerInv, [Serial!Next]_reviews PROVE [Immutable]_reviews
  <2>1. ASSUME NEW i \in ReviewId, NEW req \in Calls, Serial!Mutate(i, req)
        PROVE  Immutable
    <3>1. /\ reviews[i] \in Review /\ reviews \in [ReviewId -> Review \cup {NONE}]
          /\ reviews' = [reviews EXCEPT ![i] = Commit(reviews[i], req)]
      BY <1>1, <2>1 DEF Serial!Mutate, LedgerInv, Opened
    <3>2. \A s \in reviews[i].submissions :
             \E e \in Commit(reviews[i], req).submissions :
                s \in Submission /\ e \in Submission /\ SameDelivery(e, s)
      <4> DEFINE a == Apply(reviews[i], req)
                 n == Commit(reviews[i], req)
      <4>1. n.submissions = a.submissions /\ n \in Review
        BY <3>1, CommitFields
      <4>2. \A s \in reviews[i].submissions : \E e \in a.submissions : SameDelivery(e, s)
        BY <3>1, SubmissionsKept
      <4>3. reviews[i].submissions \subseteq Submission /\ n.submissions \subseteq Submission
        BY <3>1, <4>1 DEF Review
      <4> HIDE DEF a, n
      <4>4. \A s \in reviews[i].submissions :
               \E e \in n.submissions : s \in Submission /\ e \in Submission /\ SameDelivery(e, s)
        BY <4>1, <4>2, <4>3
      <4> QED  BY <4>4 DEF n
    <3>3. \A s, e \in Submission : SameDelivery(e, s) =>
             /\ s.acknowledged_by \subseteq e.acknowledged_by
             /\ [e EXCEPT !.acknowledged_by = s.acknowledged_by] = s
      BY DEF SameDelivery, Submission
    <3>4. \A j \in Opened : \A s \in reviews[j].submissions : s \in Submission
      BY <3>1 DEF Opened, Review
    <3>5. \A s \in Submission : SameDelivery(s, s)
      BY DEF SameDelivery
    <3>6. ASSUME NEW j \in Opened, NEW s \in reviews[j].submissions
          PROVE  \E e \in reviews'[j].submissions :
                    /\ s.acknowledged_by \subseteq e.acknowledged_by
                    /\ [e EXCEPT !.acknowledged_by = s.acknowledged_by] = s
      <4>1. CASE j = i
        BY <3>1, <3>2, <3>3, <3>6, <4>1
      <4>2. CASE j # i
        BY <3>1, <3>3, <3>4, <3>5, <3>6, <4>2 DEF Opened
      <4> QED  BY <4>1, <4>2
    <3> QED  BY <3>6
  <2>2. ASSUME NEW i \in ReviewId, NEW binding \in Binding, NEW source \in Source,
               NEW patch \in Patch, Serial!Open(i, binding, source, patch)
        PROVE  Immutable
    <3>1. \A j \in Opened : reviews'[j] = reviews[j] /\ reviews[j] \in Review
      BY <1>1, <2>2 DEF Serial!Open, LedgerInv, Opened
    <3>2. \A s \in Submission : [s EXCEPT !.acknowledged_by = s.acknowledged_by] = s
      BY DEF Submission
    <3> QED  BY <3>1, <3>2 DEF Review
  <2> QED  BY <1>1, <2>1, <2>2 DEF Serial!Next
<1> QED  BY <1>1, LedgerInvHolds, PTL DEF Serial!Spec, SubmissionsImmutable

(* No sequence of accepted calls reaches a record the store would refuse. *)
THEOREM RecordsPersist == Serial!Spec => []AlwaysPersistable
<1>1. LedgerInv => AlwaysPersistable
  BY RecordsAreValid DEF LedgerInv, AlwaysPersistable, RecordInv, Opened
<1> QED  BY <1>1, LedgerInvHolds, PTL

(* A snapshot moves only with a refresh, a stale thread lives again only by  *)
(* being reanchored.                                                        *)
THEOREM EvidenceMovesByRequest == Serial!Spec => EvidenceMovesOnlyWhenAsked
<1> DEFINE Moves(r, n) == SnapshotOnlyByRefresh(r, n) /\ StaleUntilReanchored(r, n)
           Asked == \A i \in Opened : Moves(reviews[i], reviews'[i])
<1>1. ASSUME LedgerInv, [Serial!Next]_reviews PROVE [Asked]_reviews
  <2>0. \A i \in Opened : reviews[i] \in Review /\ RecordInv(reviews[i])
    BY <1>1 DEF LedgerInv, Opened
  <2>1. ASSUME NEW r \in Review, RecordInv(r) PROVE Moves(r, r)
    <3>1. \A t, u \in r.threads : t.id = u.id => t = u
      BY <2>1 DEF RecordInv, Comments, ValidThreads
    <3> QED  BY <3>1 DEF SnapshotOnlyByRefresh, StaleUntilReanchored
  <2>2. ASSUME NEW r \in Review, RecordInv(r), NEW req \in Calls, Admits(r, req)
        PROVE  Moves(r, Commit(r, req))
    <3> DEFINE n == Apply(r, req)
               c == Commit(r, req)
               x == MakeReceipt(r, n, req)
               change == [revision |-> r.revision + 1, kind |-> req.method,
                          generation |-> n.generation]
    <3>1. /\ c.patch = n.patch /\ c.generation = n.generation /\ c.threads = n.threads
          /\ c.mutations = r.mutations \cup {x} /\ c.changes = Logged(r.changes, change)
          /\ r.changes \in Seq(Change)
      BY CommitFields DEF Review
    <3>2. change \in Change /\ change.kind = req.method
      <4>1. n.generation \in Nat /\ req.method \in Methods /\ r.revision + 1 \in Nat
        BY ApplyTypes, RequestTypes DEF Review
      <4> QED  BY <4>1 DEF Change
    <3>3. x.request = req /\ x \notin r.mutations
      <4>1. x.request = req /\ x.mid = req.mid
        BY DEF MakeReceipt
      <4> HIDE DEF x
      <4> QED  BY <2>2, <4>1 DEF Admits, HasReceipt
    <3>4. /\ n.patch # r.patch <=> n.generation # r.generation
          /\ n.patch # r.patch => n.generation = r.generation + 1 /\ req.method = "review.refresh"
      BY SnapshotMoves
    <3>5. Comments(r)
      BY <2>2 DEF RecordInv
    <3>6. ASSUME NEW t \in r.threads, NEW u \in n.threads, t.id = u.id, t.stale, ~u.stale
          PROVE  req.method = "review.reanchor"
      BY <3>5, <3>6, StaleKept
    <3> HIDE DEF n, c, x, change
    <3>7. c.changes[Len(c.changes)].kind = req.method
      BY <3>1, <3>2, LoggedLast
    <3>8. SnapshotOnlyByRefresh(r, c)
      BY <3>1, <3>4, <3>7 DEF SnapshotOnlyByRefresh
    <3>9. StaleUntilReanchored(r, c)
      BY <3>1, <3>3, <3>6 DEF StaleUntilReanchored
    <3> QED  BY <3>8, <3>9 DEF c
  <2> HIDE DEF Moves
  <2>3. ASSUME NEW i \in ReviewId, NEW req \in Calls, Serial!Mutate(i, req)
        PROVE  Asked
    <3>1. /\ i \in Opened /\ Admits(reviews[i], req)
          /\ reviews' = [reviews EXCEPT ![i] = Commit(reviews[i], req)]
          /\ reviews \in [ReviewId -> Review \cup {NONE}]
      BY <1>1, <2>3 DEF Serial!Mutate, LedgerInv, Opened
    <3>2. Moves(reviews[i], Commit(reviews[i], req))
      BY <2>0, <2>2, <3>1
    <3>3. \A j \in Opened : reviews'[j] = IF j = i THEN Commit(reviews[i], req) ELSE reviews[j]
      BY <3>1 DEF Opened
    <3> QED  BY <2>0, <2>1, <3>2, <3>3
  <2>4. ASSUME NEW i \in ReviewId, NEW binding \in Binding, NEW source \in Source,
               NEW patch \in Patch, Serial!Open(i, binding, source, patch)
        PROVE  Asked
    <3>1. \A j \in Opened : reviews'[j] = reviews[j]
      BY <1>1, <2>4 DEF Serial!Open, LedgerInv, Opened
    <3> QED  BY <2>0, <2>1, <3>1
  <2> QED  BY <1>1, <2>3, <2>4 DEF Serial!Next
<1>2. LedgerInv /\ [Serial!Next]_reviews =>
         [\A i \in Opened : /\ SnapshotOnlyByRefresh(reviews[i], reviews'[i])
                            /\ StaleUntilReanchored(reviews[i], reviews'[i])]_reviews
  BY <1>1
<1> QED  BY <1>2, LedgerInvHolds, PTL DEF Serial!Spec, EvidenceMovesOnlyWhenAsked

---------------------------------------------------------------------------
(* Feed *)

(* A set of numbers that is not empty has a least one. *)
LEMMA LeastNumber ==
  ASSUME NEW T, T \subseteq Nat, T # {}
  PROVE  \E x \in T : \A y \in T : x <= y
<1> DEFINE R == OpToRel(<, Nat)
<1>1. IsWellFoundedOn(R, Nat)
  BY NatLessThanWellFounded
<1>2. \A x, y \in Nat : <<y, x>> \in R <=> y < x
  BY DEF OpToRel
<1> HIDE DEF R
<1>3. \E x \in T : \A y \in T : <<y, x>> \notin R
  BY <1>1, WFMin
<1>4. T \subseteq Nat
  OBVIOUS
<1>5. PICK x \in T : \A y \in T : <<y, x>> \notin R
  BY <1>3
<1>6. ASSUME NEW y \in T PROVE x <= y
  <2>1. x \in Nat /\ y \in Nat /\ <<y, x>> \notin R
    BY <1>4, <1>5
  <2>2. ~(y < x)
    BY <1>2, <2>1
  <2> QED  BY <2>1, <2>2
<1> QED  BY <1>5, <1>6

(* Bounded, it has a greatest one. *)
LEMMA GreatestNumber ==
  ASSUME NEW S, S \subseteq Nat, NEW bound \in Nat, \A x \in S : x <= bound, S # {}
  PROVE  \E x \in S : \A y \in S : y <= x
<1> DEFINE T == {k \in Nat : bound - k \in S}
<1>1. T # {}
  <2>1. PICK x \in S : TRUE
    OBVIOUS
  <2>2. bound - x \in Nat /\ bound - (bound - x) = x
    BY <2>1
  <2>3. bound - x \in T
    BY <2>2
  <2> QED  BY <2>3
<1>2. PICK k \in T : \A l \in T : k <= l
  <2>1. T \subseteq Nat
    OBVIOUS
  <2> HIDE DEF T
  <2> QED  BY <1>1, <2>1, LeastNumber
<1>3. ASSUME NEW y \in S PROVE y <= bound - k
  <2>1. y \in Nat /\ bound - y \in Nat /\ bound - (bound - y) = y
    OBVIOUS
  <2>2. bound - y \in T
    BY <2>1
  <2> QED  BY <1>2, <2>1, <2>2
<1> QED  BY <1>2, <1>3

---------------------------------------------------------------------------
(* A page starts right after the cursor, has no gap, and ends where it says. *)
LEMMA PagesAreGapless ==
  ASSUME NEW r \in Review, SubmissionIds(r), ChangeLog(r), NEW after \in Nat, after <= r.revision,
         NEW limit \in Nat \ {0}
  PROVE  LET page == ChangesPage(r, after, limit)
         IN  /\ page.next_cursor \in Nat /\ page.next_cursor <= r.revision
             /\ ~page.full_refresh_required =>
                   /\ after <= page.next_cursor
                   /\ {c.revision : c \in page.changes} = (after + 1)..page.next_cursor
<1> DEFINE log == r.changes
           L == Len(r.changes)
           d == after - (r.revision - L)
           last == IF L < d + limit THEN L ELSE d + limit
           page == ChangesPage(r, after, limit)
<1>1. /\ r.revision \in Nat /\ r.revision >= 1 /\ log \in Seq(Change)
      /\ L \in Nat /\ L >= 1 /\ L <= r.revision /\ DOMAIN log = 1..L
      /\ \A k \in 1..L : log[k].revision = r.revision - L + k
  BY LimitTypes DEF Review, SubmissionIds, ChangeLog
<1> HIDE DEF log, L
<1>2. Floor(r) = r.revision - L
  BY <1>1 DEF Floor, log
<1>3. CASE after < Floor(r)
  <2>1. page = StartOver(r.revision)
    BY <1>3 DEF ChangesPage
  <2> QED  BY <1>1, <2>1 DEF StartOver
<1>4. CASE ~(after < Floor(r))
  <2>1. d \in Nat /\ d <= L /\ last \in Nat /\ last <= L /\ (d < L => d < last) /\ d <= last
    BY <1>1, <1>2, <1>4
  <2>2. {k \in DOMAIN log : log[k].revision > after} = (d + 1)..L
    <3>1. d = after - (r.revision - L) /\ after \in Nat
      OBVIOUS
    <3> HIDE DEF d
    <3>2. \A k \in 1..L : log[k].revision > after <=> k \in (d + 1)..L
      <4>1. ASSUME NEW k \in 1..L PROVE log[k].revision > after <=> k \in (d + 1)..L
        <5>1. log[k].revision = r.revision - L + k
          BY <1>1
        <5>2. k \in Nat /\ L \in Nat /\ k <= L /\ r.revision \in Nat /\ d \in Nat
          BY <1>1, <2>1
        <5>3. r.revision - L + k > after <=> k \in (d + 1)..L
          BY <3>1, <5>2
        <5> QED  BY <5>1, <5>3
      <4> QED  BY <4>1
    <3>3. (d + 1)..L \subseteq 1..L
      BY <1>1, <2>1
    <3> QED  BY <1>1, <3>2, <3>3
  <2>12. r.revision - L + d = after
    BY <1>1 DEF d
  <2> HIDE DEF d
  <2>3. \A k \in (d + 1)..L : {j \in (d + 1)..L : j <= k} = (d + 1)..k
    BY <1>1, <2>1
  <2>4. \A k \in (d + 1)..L : Cardinality((d + 1)..k) = k - d
    BY <1>1, <2>1, FS_Interval
  <2>5. PageAfter(r, after, limit) = {k \in (d + 1)..L : k - d <= limit}
    BY <2>2, <2>3, <2>4 DEF PageAfter, log
  <2>6. {k \in (d + 1)..L : k - d <= limit} = (d + 1)..last
    BY <1>1, <2>1
  <2>7. PageAfter(r, after, limit) = (d + 1)..last
    BY <2>5, <2>6
  <2>8. PageEnd(r, after, limit) = r.revision - L + last
    <3>1. CASE d = L
      <4>1. last = L /\ after = r.revision /\ (d + 1)..last = {}
        BY <1>1, <2>1, <2>12, <3>1
      <4> QED  BY <1>1, <2>7, <4>1 DEF PageEnd
    <3>2. CASE d # L
      <4>1. last \in (d + 1)..last /\ \A y \in (d + 1)..last : last >= y
        BY <1>1, <2>1, <3>2
      <4>2. Max((d + 1)..last) = last
        BY <2>1, <4>1 DEF Max
      <4>3. log[last].revision = r.revision - L + last
        BY <1>1, <2>1, <4>1
      <4> QED  BY <2>7, <4>1, <4>2, <4>3 DEF PageEnd, log
    <3> QED  BY <3>1, <3>2
  <2>9. page = PageOf(r, after, limit)
    BY <1>4 DEF ChangesPage
  <2>10. /\ page.next_cursor = r.revision - L + last
         /\ page.changes = {log[k] : k \in (d + 1)..last}
    BY <2>7, <2>8, <2>9 DEF PageOf, log
  <2> HIDE DEF page, last
  <2>11. {c.revision : c \in page.changes} = {r.revision - L + k : k \in (d + 1)..last}
    <3>1. (d + 1)..last \subseteq 1..L
      BY <1>1, <2>1
    <3>2. \A k \in (d + 1)..last : log[k].revision = r.revision - L + k
      BY <1>1, <3>1
    <3>3. {c.revision : c \in page.changes} = {log[k].revision : k \in (d + 1)..last}
      BY <2>10
    <3> QED  BY <3>2, <3>3
  <2>13. {r.revision - L + k : k \in (d + 1)..last} = (after + 1)..page.next_cursor
    <3>1. ASSUME NEW v \in (after + 1)..page.next_cursor
          PROVE  \E k \in (d + 1)..last : v = r.revision - L + k
      <4>1. v - (r.revision - L) \in (d + 1)..last /\ v = r.revision - L + (v - (r.revision - L))
        BY <1>1, <2>1, <2>10, <2>12
      <4> QED  BY <4>1
    <3>2. ASSUME NEW k \in (d + 1)..last
          PROVE  r.revision - L + k \in (after + 1)..page.next_cursor
      BY <1>1, <2>1, <2>10, <2>12
    <3> QED  BY <3>1, <3>2
  <2>14. page.next_cursor \in Nat /\ page.next_cursor <= r.revision /\ after <= page.next_cursor
    BY <1>1, <2>1, <2>10, <2>12
  <2>15. {c.revision : c \in page.changes} = (after + 1)..page.next_cursor
    BY <2>11, <2>13
  <2> QED  BY <2>14, <2>15 DEF page
<1> QED  BY <1>3, <1>4

(* Whatever a consumer has yet to acknowledge is in what it is shown.       *)
LEMMA NothingHidden ==
  ASSUME NEW r \in Review, SubmissionIds(r), Deliveries(r), NEW consumer,
         NEW s \in Pending(r, consumer), NEW m \in s.messages
  PROVE  \E shown \in FeedbackThreads(r, consumer) : \E n \in shown.messages :
             n.id = m.id /\ n.revision >= m.revision
<1> DEFINE Of(e) == \E t \in e.threads : t.id = m.thread
           ids == {e.id : e \in {e \in Pending(r, consumer) : Of(e)}}
<1>1. s \in r.submissions /\ Of(s) /\ s.id \in ids
  BY DEF Pending, Deliveries
<1>2. /\ ids \subseteq Nat /\ r.revision \in Nat
      /\ \A x \in ids : x <= r.revision
      /\ m.revision \in Nat
  BY <1>1 DEF Pending, Review, Submission, SubmissionIds, Message
<1>3. PICK last \in ids : \A x \in ids : x <= last
  <2> HIDE DEF ids
  <2> QED  BY <1>1, <1>2, GreatestNumber
<1>4. PICK e \in Pending(r, consumer) : Of(e) /\ e.id = last
  BY <1>3
<1>5. PICK t \in e.threads : t.id = m.thread
  BY <1>4
<1>6. e \in r.submissions /\ e.id >= s.id
  BY <1>1, <1>2, <1>3, <1>4 DEF Pending
<1>7. t \in LastCopies(r, consumer, e)
  <2>1. ASSUME NEW x \in Pending(r, consumer), Of(x)
        PROVE  ~(x.id > e.id)
    <3>1. x.id \in ids
      BY <2>1
    <3> HIDE DEF ids, Of
    <3>2. x.id \in Nat /\ last \in Nat /\ x.id <= last
      BY <1>2, <1>3, <3>1
    <3> QED  BY <1>4, <3>2
  <2> QED  BY <1>5, <2>1 DEF LastCopies
<1>8. \E n \in e.messages : Later(n, m)
  <2>1. CASE e.id = s.id
    <3>1. e = s
      BY <1>1, <1>6, <2>1 DEF SubmissionIds
    <3> QED  BY <1>2, <3>1 DEF Later
  <2>2. CASE e.id # s.id
    <3>1. s.id < e.id
      <4>1. s.id \in Nat /\ e.id \in Nat
        BY <1>1, <1>2, <1>4
      <4> QED  BY <4>1, <1>6, <2>2
    <3> QED  BY <1>1, <1>4, <1>6, <3>1 DEF Deliveries
  <2> QED  BY <2>1, <2>2
<1>9. PICK n \in e.messages : Later(n, m)
  BY <1>8
<1> DEFINE shown == [thread |-> t, messages |-> {k \in e.messages : k.thread = t.id}]
<1>10. shown \in FeedbackThreads(r, consumer)
  <2>1. shown \in {[thread |-> u, messages |-> {k \in e.messages : k.thread = u.id}]
                      : u \in LastCopies(r, consumer, e)}
    BY <1>7
  <2> HIDE DEF shown
  <2> QED  BY <1>4, <2>1 DEF FeedbackThreads
<1>11. n \in shown.messages
  BY <1>5, <1>9 DEF Later
<1> HIDE DEF shown
<1> QED  BY <1>9, <1>10, <1>11 DEF Later

---------------------------------------------------------------------------
(* A reader is never ahead of the record, and has seen what it passed.      *)
FeedInv ==
    /\ LedgerInv
    /\ reader \in [ReviewId -> [cursor: Nat, seen: SUBSET Nat, since: Nat]]
    /\ \A i \in ReviewId :
          /\ reader[i].since <= reader[i].cursor
          /\ reader[i].seen = (reader[i].since + 1)..reader[i].cursor
          /\ reader[i].cursor <= (IF reviews[i] = NONE THEN 0 ELSE reviews[i].revision)

LEMMA FeedInvInit == FeedInit => FeedInv
<1> SUFFICES ASSUME FeedInit PROVE FeedInv
  OBVIOUS
<1>1. \A i \in ReviewId : reader[i] = [cursor |-> 0, seen |-> {}, since |-> 0] /\ reviews[i] = NONE
  BY DEF FeedInit, Serial!Init
<1>2. reader \in [ReviewId -> [cursor: Nat, seen: SUBSET Nat, since: Nat]]
  BY DEF FeedInit
<1>3. (0 + 1)..0 = {}
  OBVIOUS
<1>4. \A i \in ReviewId : /\ reader[i].since = 0 /\ reader[i].cursor = 0
                            /\ reader[i].seen = {} /\ reviews[i] = NONE
  BY <1>1
<1>5. LedgerInv
  BY LedgerInvInit DEF FeedInit
<1>6. \A i \in ReviewId : /\ reader[i].since <= reader[i].cursor
                            /\ reader[i].seen = (reader[i].since + 1)..reader[i].cursor
                            /\ reader[i].cursor <= (IF reviews[i] = NONE THEN 0 ELSE reviews[i].revision)
  <2>1. 0 <= 0 /\ 1 = 0 + 1
    OBVIOUS
  <2> QED  BY <1>3, <1>4, <2>1
<1> QED  BY <1>2, <1>5, <1>6 DEF FeedInv

LEMMA FeedInvStep ==
  ASSUME FeedInv, [FeedNext]_feedVars
  PROVE  FeedInv'
<1> DEFINE Reached(r) == IF r = NONE THEN 0 ELSE r.revision
<1>1. CASE Serial!Next /\ UNCHANGED reader
  <2>1. LedgerInv /\ LedgerInv'
    BY <1>1, LedgerInvStep DEF FeedInv
  <2>2. \A i \in ReviewId : Reached(reviews[i]) <= Reached(reviews'[i])
    <3>1. ASSUME NEW i \in ReviewId, NEW binding \in Binding, NEW source \in Source,
                 NEW patch \in Patch, Serial!Open(i, binding, source, patch)
          PROVE  \A j \in ReviewId : Reached(reviews[j]) <= Reached(reviews'[j])
      <4>1. /\ reviews' = [reviews EXCEPT ![i] = NewReview(binding, source, patch)]
            /\ reviews[i] = NONE /\ reviews \in [ReviewId -> Review \cup {NONE}]
        BY <2>1, <3>1 DEF Serial!Open, LedgerInv
      <4>2. NewReview(binding, source, patch) \in Review
        BY NewReviewInv
      <4>3. \A r \in Review : r.revision \in Nat
        BY DEF Review
      <4> QED  BY <4>1, <4>2, <4>3
    <3>2. ASSUME NEW i \in ReviewId, NEW req \in Calls, Serial!Mutate(i, req)
          PROVE  \A j \in ReviewId : Reached(reviews[j]) <= Reached(reviews'[j])
      <4>1. /\ reviews' = [reviews EXCEPT ![i] = Commit(reviews[i], req)]
            /\ reviews[i] # NONE /\ reviews \in [ReviewId -> Review \cup {NONE}]
        BY <2>1, <3>2 DEF Serial!Mutate, LedgerInv
      <4>2. /\ Commit(reviews[i], req) \in Review
            /\ Commit(reviews[i], req).revision = reviews[i].revision + 1
        BY <4>1, CommitFields
      <4>3. \A r \in Review : r.revision \in Nat
        BY DEF Review
      <4>4. ASSUME NEW j \in ReviewId PROVE Reached(reviews[j]) <= Reached(reviews'[j])
        <5>1. CASE j = i
          <6>1. reviews'[j] = Commit(reviews[i], req) /\ reviews'[j] # NONE /\ reviews[j] = reviews[i]
            BY <2>1, <4>1, <5>1, <4>2, NoneAssumption DEF LedgerInv
          <6>2. reviews[i].revision \in Nat
            BY <4>1, <4>3
          <6> QED  BY <4>1, <4>2, <6>1, <6>2
        <5>2. CASE j # i
          <6>1. reviews'[j] = reviews[j]
            BY <4>1, <5>2
          <6>2. Reached(reviews[j]) \in Nat
            BY <4>1, <4>3
          <6> HIDE DEF Reached
          <6> QED  BY <6>1, <6>2
        <5> QED  BY <5>1, <5>2
      <4> QED  BY <4>4
    <3> QED  BY <1>1, <3>1, <3>2 DEF Serial!Next
  <2>3. \A i \in ReviewId : Reached(reviews[i]) \in Nat /\ Reached(reviews'[i]) \in Nat
    BY <2>1 DEF LedgerInv, Review
  <2> HIDE DEF Reached
  <2>4. \A i \in ReviewId : reader[i].cursor \in Nat /\ reader[i].cursor <= Reached(reviews[i])
    BY DEF FeedInv, Reached
  <2>5. \A i \in ReviewId : reader'[i].cursor <= Reached(reviews'[i])
    BY <1>1, <2>2, <2>3, <2>4
  <2> QED  BY <1>1, <2>1, <2>5 DEF FeedInv, Reached
<1>2. ASSUME NEW i \in ReviewId, NEW limit \in PageLimit, ReadChanges(i, limit)
      PROVE  FeedInv'
  <2> DEFINE r == reviews[i]
             old == reader[i]
             page == ChangesPage(r, old.cursor, limit)
             new == reader'[i]
  <2>1. /\ r \in Review /\ r # NONE /\ RecordInv(r) /\ limit \in Nat \ {0}
        /\ old \in [cursor: Nat, seen: SUBSET Nat, since: Nat]
        /\ old.since <= old.cursor /\ old.seen = (old.since + 1)..old.cursor
        /\ old.cursor <= r.revision /\ r.revision \in Nat
    BY <1>2, PageLimitAssumption DEF ReadChanges, FeedInv, LedgerInv, Opened, Review
  <2>2. /\ page.next_cursor \in Nat /\ page.next_cursor <= r.revision
        /\ ~page.full_refresh_required =>
              /\ old.cursor <= page.next_cursor
              /\ {c.revision : c \in page.changes} = (old.cursor + 1)..page.next_cursor
    BY <2>1, PagesAreGapless DEF RecordInv
  <2> DEFINE value == Turned(old, page)
  <2>30. reader' = [reader EXCEPT ![i] = value] /\ reviews' = reviews
    BY <1>2 DEF ReadChanges
  <2>31. reader \in [ReviewId -> [cursor: Nat, seen: SUBSET Nat, since: Nat]]
    BY DEF FeedInv
  <2>32. new = value
    <3> HIDE DEF value
    <3> QED  BY <2>30, <2>31
  <2>33. /\ DOMAIN reader' = ReviewId
         /\ \A j \in ReviewId \ {i} : reader'[j] = reader[j]
         /\ reader' = [j \in ReviewId |-> reader'[j]]
    <3> HIDE DEF value
    <3> QED  BY <2>30, <2>31
  <2> HIDE DEF page
  <2>34. page.full_refresh_required =>
            new = [cursor |-> page.next_cursor, seen |-> {}, since |-> page.next_cursor]
    BY <2>32 DEF Turned
  <2>35. ~page.full_refresh_required =>
            new = [old EXCEPT !.cursor = page.next_cursor,
                              !.seen = @ \cup {c.revision : c \in page.changes}]
    BY <2>32 DEF Turned
  <2> HIDE DEF r, new, old, value
  <2>4. CASE page.full_refresh_required
    <3>1. new = [cursor |-> page.next_cursor, seen |-> {}, since |-> page.next_cursor]
      BY <2>34, <2>4
    <3>2. (page.next_cursor + 1)..page.next_cursor = {}
      BY <2>2
    <3>3. /\ new \in [cursor: Nat, seen: SUBSET Nat, since: Nat]
          /\ new.since <= new.cursor /\ new.seen = (new.since + 1)..new.cursor
          /\ new.cursor <= r.revision
      BY <2>2, <3>1, <3>2
    <3> QED  BY <2>1, <2>30, <2>33, <3>3 DEF FeedInv, LedgerInv, Opened, r, new
  <2>5. CASE ~page.full_refresh_required
    <3>1. new = [old EXCEPT !.cursor = page.next_cursor,
                            !.seen = @ \cup {c.revision : c \in page.changes}]
      BY <2>35, <2>5
    <3>2. /\ new.cursor = page.next_cursor /\ new.since = old.since
          /\ new.seen = old.seen \cup ((old.cursor + 1)..page.next_cursor)
          /\ new = [cursor |-> new.cursor, seen |-> new.seen, since |-> new.since]
      BY <2>1, <2>2, <2>5, <3>1
    <3>3. old.cursor \in Nat /\ old.since \in Nat
      BY <2>1
    <3>4. ((old.since + 1)..old.cursor) \cup ((old.cursor + 1)..page.next_cursor)
             = (old.since + 1)..page.next_cursor
      BY <2>1, <2>2, <2>5, <3>3
    <3>5. new.since <= new.cursor /\ new.seen = (new.since + 1)..new.cursor
      BY <2>1, <2>2, <2>5, <3>2, <3>3, <3>4
    <3>6. new \in [cursor: Nat, seen: SUBSET Nat, since: Nat]
      <4>1. new.seen \subseteq Nat
        <5>1. page.next_cursor \in Nat /\ old.since + 1 \in Nat
          BY <2>2, <3>3
        <5>2. (old.since + 1)..page.next_cursor \subseteq Nat
          BY <5>1
        <5> QED  BY <3>2, <3>5, <5>2
      <4> QED  BY <2>2, <3>2, <3>3, <4>1
    <3>7. new.cursor <= r.revision
      BY <2>2, <3>2
    <3> QED  BY <2>1, <2>30, <2>33, <3>5, <3>6, <3>7 DEF FeedInv, LedgerInv, Opened, r, new
  <2> QED  BY <2>4, <2>5
<1>3. CASE UNCHANGED feedVars
  BY <1>3 DEF feedVars, FeedInv, LedgerInv, Opened
<1> QED  BY <1>1, <1>2, <1>3 DEF FeedNext

LEMMA FeedInvHolds == FeedSpec => []FeedInv
  BY FeedInvInit, FeedInvStep, PTL DEF FeedSpec

(* A reader of pages misses no change it was not told to start over for,    *)
(* and a consumer of feedback no message it has yet to acknowledge.         *)
THEOREM ReadersMissNothing == FeedSpec => []ReaderMissesNothing
<1>1. FeedInv => ReaderMissesNothing
  <2> SUFFICES ASSUME FeedInv PROVE ReaderMissesNothing
    OBVIOUS
  <2>1. \A i \in ReviewId : reader[i].seen = (reader[i].since + 1)..reader[i].cursor
    BY DEF FeedInv
  <2>2. ASSUME NEW i \in Opened, NEW c \in Consumer,
               NEW s \in Pending(reviews[i], c), NEW m \in s.messages
        PROVE  \E shown \in FeedbackThreads(reviews[i], c) : \E n \in shown.messages :
                  n.id = m.id /\ n.revision >= m.revision
    <3>1. reviews[i] \in Review /\ RecordInv(reviews[i])
      BY DEF FeedInv, LedgerInv, Opened
    <3> QED  BY <3>1, NothingHidden DEF RecordInv
  <2> QED  BY <2>1, <2>2 DEF ReaderMissesNothing
<1> QED  BY <1>1, FeedInvHolds, PTL

---------------------------------------------------------------------------
(* The store that several processes run: Spec. *)

Writing == {"prepared", "written", "renamed"}

(* The part of the types that mutual exclusion needs. *)
Shape ==
    /\ pc \in [Proc -> Phases]
    /\ request = [p \in Proc |-> request[p]]
    /\ draft = [p \in Proc |-> draft[p]]
    /\ \A p \in Proc : pc[p] # "idle" => request[p] \in Operation
    /\ \A p \in Proc : pc[p] \in Writing => draft[p].name \in ReviewId

IInv == Shape /\ LockedWhileServing /\ DraftSucceedsCheckpoint

LEMMA OperationKinds ==
  ASSUME NEW o \in Operation
  PROVE  /\ o.op = "open" => o \in OpenRequest
         /\ o.op \in {"call", "reconcile"} => o \in CallRequest
  BY DEF Operation, OpenRequest, CallRequest

LEMMA ShapeInit == Init => Shape
  BY DEF Init, Shape, Phases, Writing

LEMMA ShapeStep ==
  ASSUME Shape, [Next]_vars
  PROVE  Shape'
<1> USE DEF Shape, Phases, Writing
<1>1. ASSUME NEW p \in Proc, NEW operation \in Operation, Ask(p, operation)
      PROVE  Shape'
  BY <1>1 DEF Ask
<1>2. ASSUME NEW p \in Proc, Acquire(p)
      PROVE  Shape'
  BY <1>2 DEF Acquire
<1>3. ASSUME NEW p \in Proc, OpenExisting(p) \/ Replay(p) \/ Refuse(p) \/ SyncDirectory(p)
             \/ WriteFails(p)
      PROVE  Shape'
  <2>1. PICK result : pc[p] # "idle" /\ Answer(p, result)
    BY <1>3 DEF OpenExisting, Replay, Refuse, SyncDirectory, WriteFails
  <2> QED  BY <2>1 DEF Answer
<1>4. ASSUME NEW p \in Proc, NEW i \in ReviewId, OpenNew(p, i)
      PROVE  Shape'
  BY <1>4 DEF OpenNew, Prepare
<1>5. ASSUME NEW p \in Proc, Modify(p)
      PROVE  Shape'
  <2>1. request[p] \in CallRequest
    BY <1>5, OperationKinds DEF Modify
  <2>2. request[p].review \in ReviewId
    BY <2>1 DEF CallRequest
  <2>3. PICK result, record : pc[p] # "idle" /\ (Answer(p, result) \/ Prepare(p, request[p].review, record, result))
    BY <1>5 DEF Modify
  <2> QED  BY <2>2, <2>3 DEF Answer, Prepare
<1>6. ASSUME NEW p \in Proc, WriteTemporary(p) \/ Rename(p)
      PROVE  Shape'
  BY <1>6 DEF WriteTemporary, Rename
<1>7. ASSUME NEW p \in Proc, Return(p) \/ Crash(p)
      PROVE  Shape'
  BY <1>7 DEF Return, Crash, Forget
<1>8. CASE UNCHANGED vars
  BY <1>8 DEF vars
<1> QED  BY <1>1, <1>2, <1>3, <1>4, <1>5, <1>6, <1>7, <1>8 DEF Next, Serve

(* Only Acquire, Return and Crash move the lock, and the others keep a      *)
(* process that is inside its operation inside it.                          *)
LEMMA LockedStep ==
  ASSUME Shape, LockedWhileServing, [Next]_vars
  PROVE  LockedWhileServing'
<1> USE ProcAssumption DEF Shape, LockedWhileServing, Phases, Holding
<1>1. ASSUME NEW p \in Proc, NEW operation \in Operation, Ask(p, operation)
      PROVE  LockedWhileServing'
  BY <1>1 DEF Ask
<1>2. ASSUME NEW p \in Proc, Acquire(p)
      PROVE  LockedWhileServing'
  BY <1>2 DEF Acquire
<1>3. ASSUME NEW p \in Proc, Serve(p) \/ WriteFails(p), ~Return(p)
      PROVE  LockedWhileServing'
  <2>1. lock' = lock /\ pc[p] \in Holding
    BY <1>3 DEF Serve, OpenExisting, OpenNew, Replay, Refuse, Modify, WriteTemporary, Rename,
       SyncDirectory, WriteFails, Answer, Prepare
  <2>2. PICK phase \in Holding : pc' = [pc EXCEPT ![p] = phase]
    BY <1>3 DEF Serve, OpenExisting, OpenNew, Replay, Refuse, Modify, WriteTemporary, Rename,
       SyncDirectory, WriteFails, Answer, Prepare
  <2> QED  BY <2>1, <2>2
<1>4. ASSUME NEW p \in Proc, Return(p) \/ Crash(p)
      PROVE  LockedWhileServing'
  BY <1>4 DEF Return, Crash, Forget
<1>5. CASE UNCHANGED vars
  BY <1>5 DEF vars
<1> QED  BY <1>1, <1>2, <1>3, <1>4, <1>5 DEF Next, Serve

(* A process with a draft holds the lock, so the checkpoint the draft was   *)
(* made from cannot move under it.                                          *)
LEMMA DraftStep ==
  ASSUME IInv, [Next]_vars
  PROVE  DraftSucceedsCheckpoint'
<1> DEFINE Ready(p) == pc[p] \in {"prepared", "written"}
<1>a. \A p, q \in Proc : pc[p] \in Holding /\ pc[q] \in Holding => p = q
  BY DEF IInv, LockedWhileServing
<1>b. pc \in [Proc -> Phases]
  BY DEF IInv, Shape
<1>0. DraftSucceedsCheckpoint
  BY DEF IInv
<1>1. ASSUME NEW p \in Proc, ~Ready(p)',
             \A q \in Proc \ {p} : Ready(q)' =>
                 /\ Ready(q)
                 /\ request'[q] = request[q] /\ draft'[q] = draft[q] /\ files' = files
      PROVE  DraftSucceedsCheckpoint'
  BY <1>0, <1>1 DEF DraftSucceedsCheckpoint
<1>2. ASSUME NEW p \in Proc, NEW operation \in Operation, Ask(p, operation)
      PROVE  DraftSucceedsCheckpoint'
  BY <1>1, <1>2, <1>b DEF Ask, IInv, Shape
<1>3. ASSUME NEW p \in Proc, Acquire(p)
      PROVE  DraftSucceedsCheckpoint'
  BY <1>1, <1>3, <1>b DEF Acquire
<1>4. ASSUME NEW p \in Proc, Return(p) \/ Crash(p)
      PROVE  DraftSucceedsCheckpoint'
  BY <1>1, <1>4, <1>b DEF Return, Crash, Forget, IInv, Shape
<1>5. ASSUME NEW p \in Proc, OpenExisting(p) \/ Replay(p) \/ Refuse(p) \/ SyncDirectory(p)
             \/ WriteFails(p)
      PROVE  DraftSucceedsCheckpoint'
  <2>1. PICK result : Answer(p, result)
    BY <1>5 DEF OpenExisting, Replay, Refuse, SyncDirectory, WriteFails
  <2> QED  BY <1>1, <2>1, <1>b DEF Answer, IInv, Shape
<1>6. ASSUME NEW p \in Proc, NEW i \in ReviewId, OpenNew(p, i)
      PROVE  DraftSucceedsCheckpoint'
  <2>1. pc[p] \in Holding /\ request[p].op = "open" /\ request[p].review = NONE
    BY <1>6 DEF OpenNew, Holding, Phases
  <2>2. \A q \in Proc \ {p} : ~Ready(q)'
    BY <2>1, <1>6, <1>a, <1>b DEF OpenNew, Prepare, Holding, Phases
  <2>3. /\ files' = files /\ request' = request
        /\ draft'[p] = [name |-> i, result |-> NONE,
                        record |-> NewReview(request[p].binding, request[p].source,
                                             request[p].patch)]
    BY <1>6 DEF OpenNew, Prepare, IInv, Shape
  <2>4. /\ files[i] = NONE
        /\ \A j \in ReviewId : ~BoundTo(files[j], request[p].binding, request[p].source)
    BY <1>6 DEF OpenNew
  <2> QED  BY <2>1, <2>2, <2>3, <2>4 DEF DraftSucceedsCheckpoint
<1>7. ASSUME NEW p \in Proc, Modify(p)
      PROVE  DraftSucceedsCheckpoint'
  <2> DEFINE o == request[p]
             r == files[o.review]
  <2>1. CASE ValidRecord(Commit(r, o.req))
    <3>1. pc[p] \in Holding /\ o.op = "call" /\ r # NONE /\ Admits(r, o.req)
      BY <1>7 DEF Modify, Holding, Phases
    <3>2. \A q \in Proc \ {p} : ~Ready(q)'
      BY <2>1, <3>1, <1>7, <1>a, <1>b DEF Modify, Prepare, Holding, Phases
    <3>3. /\ files' = files /\ request' = request
          /\ draft'[p].name = o.review /\ draft'[p].record = Commit(r, o.req)
      <4>1. PICK result : Prepare(p, o.review, Commit(r, o.req), result)
        BY <2>1, <1>7 DEF Modify
      <4> QED  BY <4>1 DEF Prepare, IInv, Shape
    <3> QED  BY <3>1, <3>2, <3>3 DEF DraftSucceedsCheckpoint
  <2>2. CASE ~ValidRecord(Commit(r, o.req))
    BY <2>2, <1>7, <1>1, <1>b DEF Modify, Answer, IInv, Shape
  <2> QED  BY <2>1, <2>2
<1>8. ASSUME NEW p \in Proc, WriteTemporary(p)
      PROVE  DraftSucceedsCheckpoint'
  BY <1>0, <1>8, <1>b DEF WriteTemporary, DraftSucceedsCheckpoint
<1>9. ASSUME NEW p \in Proc, Rename(p)
      PROVE  DraftSucceedsCheckpoint'
  <2>1. pc[p] \in Holding
    BY <1>9 DEF Rename, Holding, Phases
  <2>2. \A q \in Proc \ {p} : ~Ready(q)'
    BY <2>1, <1>9, <1>a, <1>b DEF Rename, Holding, Phases
  <2> QED  BY <1>1, <2>2, <1>9, <1>b DEF Rename
<1>10. CASE UNCHANGED vars
  BY <1>0, <1>10 DEF vars, DraftSucceedsCheckpoint
<1> QED
  BY <1>2, <1>3, <1>4, <1>5, <1>6, <1>7, <1>8, <1>9, <1>10 DEF Next, Serve

(* Only a rename shows, and by DraftSucceedsCheckpoint what it shows is a   *)
(* whole Open or Mutate of the record that is replaced.                     *)
LEMMA StepSimulates ==
  ASSUME IInv, [Next]_vars
  PROVE  [Ledger!Next]_files
<1>1. ASSUME NEW p \in Proc, Rename(p)
      PROVE  Ledger!Next
  <2> DEFINE o == request[p]
             name == draft[p].name
  <2>1. /\ pc[p] = "written" /\ name \in ReviewId /\ o \in Operation
        /\ files' = [files EXCEPT ![name] = draft[p].record]
    BY <1>1 DEF Rename, IInv, Shape, Writing
  <2>2. CASE o.op = "open"
    <3>1. o \in OpenRequest
      BY <2>1, <2>2, OperationKinds
    <3>2. o.binding \in Binding /\ o.source \in Source /\ o.patch \in Patch
      BY <3>1 DEF OpenRequest
    <3>3. Ledger!Open(name, o.binding, o.source, o.patch)
      BY <2>1, <2>2 DEF Ledger!Open, IInv, DraftSucceedsCheckpoint
    <3> QED  BY <2>1, <3>2, <3>3 DEF Ledger!Next
  <2>3. CASE o.op # "open"
    <3>1. /\ o.op = "call" /\ files[name] # NONE /\ Admits(files[name], o.req)
          /\ draft[p].record = Commit(files[name], o.req)
      BY <2>1, <2>3 DEF IInv, DraftSucceedsCheckpoint
    <3>2. o.req \in Calls
      BY <2>1, <3>1, OperationKinds DEF CallRequest
    <3>3. Ledger!Mutate(name, o.req)
      BY <2>1, <3>1 DEF Ledger!Mutate
    <3> QED  BY <2>1, <3>2, <3>3 DEF Ledger!Next
  <2> QED  BY <2>2, <2>3
<1>2. CASE \E p \in Proc : Rename(p)
  BY <1>1, <1>2
<1>3. CASE ~ \E p \in Proc : Rename(p)
  BY <1>3 DEF Next, Serve, vars, Ask, Acquire, Return, Crash, OpenExisting, OpenNew, Replay, Refuse,
     Modify, WriteTemporary, SyncDirectory, WriteFails, Answer, Prepare
<1> QED  BY <1>2, <1>3

LEMMA InvariantHolds == Spec => []IInv
<1>1. Init => IInv
  BY ShapeInit, ProcAssumption DEF Init, IInv, LockedWhileServing, DraftSucceedsCheckpoint, Holding
<1>2. IInv /\ [Next]_vars => IInv'
  BY ShapeStep, LockedStep, DraftStep DEF IInv
<1> QED  BY <1>1, <1>2, PTL DEF Spec

(* The flock is held by the one process inside an operation. *)
THEOREM MutualExclusion == Spec => []LockedWhileServing
  BY InvariantHolds, PTL DEF IInv

(* A record that is about to be renamed into place succeeds the one there.  *)
THEOREM NoLostUpdate == Spec => []DraftSucceedsCheckpoint
  BY InvariantHolds, PTL DEF IInv

(* The processes together behave as SerialStore. *)
THEOREM StoreImplementsLedger == Spec => ImplementsLedger
<1>1. Init => Ledger!Init
  BY DEF Init, Ledger!Init
<1>2. IInv /\ [Next]_vars => [Ledger!Next]_files
  BY StepSimulates
<1> QED  BY <1>1, <1>2, InvariantHolds, PTL DEF Spec, ImplementsLedger

---------------------------------------------------------------------------
(* Answers *)

Stands(i, mid, result) ==
    files[i] # NONE /\ [mid |-> mid, result |-> result] \in files[i].history.results

(* What the ledger keeps of the checkpoints. *)
FilesInv ==
    /\ files \in [ReviewId -> Review \cup {NONE}]
    /\ \A i \in ReviewId : files[i] # NONE => RecordInv(files[i])
    /\ OneFilePerBinding

(* A prepared answer is the one the checkpoint will remember; one that is   *)
(* given, or has been, is remembered.                                       *)
AnswersInv ==
    /\ reply = [p \in Proc |-> reply[p]]
    /\ \A p \in Proc :
          /\ pc[p] \in {"prepared", "written"} =>
                draft[p].result = IF request[p].op = "open" THEN NONE
                                  ELSE FirstResult(files[draft[p].name],
                                                   Apply(files[draft[p].name], request[p].req),
                                                   request[p].req)
          /\ pc[p] = "renamed" /\ draft[p].result # NONE =>
                request[p] \in CallRequest /\ Stands(request[p].review, request[p].req.mid, draft[p].result)
          /\ reply[p] # NONE =>
                /\ pc[p] = "answered"
                /\ request[p] \in CallRequest /\ Stands(request[p].review, request[p].req.mid, reply[p])
    /\ \A x \in told : /\ x.review \in ReviewId /\ Stands(x.review, x.mid, x.result)
                       /\ x = [review |-> x.review, mid |-> x.mid, result |-> x.result]

StoreInv == IInv /\ FilesInv /\ AnswersInv

(* One whole step of the ledger keeps the records, and every answer in them. *)
LEMMA LedgerStepKeeps ==
  ASSUME FilesInv, [Ledger!Next]_files
  PROVE  /\ FilesInv'
         /\ \A i \in ReviewId : \A mid, result : Stands(i, mid, result) => Stands(i, mid, result)'
<1>1. ASSUME NEW i \in ReviewId, NEW binding \in Binding, NEW source \in Source, NEW patch \in Patch,
             Ledger!Open(i, binding, source, patch)
      PROVE  /\ FilesInv'
             /\ \A j \in ReviewId : \A mid, result : Stands(j, mid, result) => Stands(j, mid, result)'
  <2> DEFINE n == NewReview(binding, source, patch)
  <2>1. n \in Review /\ RecordInv(n) /\ n.binding = binding /\ n.source = source
    BY NewReviewInv DEF NewReview
  <2> HIDE DEF n
  <2>2. /\ files[i] = NONE /\ \A j \in ReviewId : ~BoundTo(files[j], binding, source)
        /\ files' = [files EXCEPT ![i] = n] /\ files \in [ReviewId -> Review \cup {NONE}]
    BY <1>1 DEF Ledger!Open, FilesInv, n
  <2>3. files'[i] = n /\ \A j \in ReviewId \ {i} : files'[j] = files[j]
    BY <2>2
  <2>4. files' \in [ReviewId -> Review \cup {NONE}]
    BY <2>1, <2>2
  <2>5. \A j \in ReviewId : files'[j] # NONE => RecordInv(files'[j])
    BY <2>1, <2>3 DEF FilesInv
  <2>6. OneFilePerBinding'
    <3>1. \A j \in ReviewId \ {i} : files'[j] # NONE =>
             ~(files'[j].binding = binding /\ files'[j].source = source)
      BY <2>2, <2>3 DEF BoundTo
    <3>2. ASSUME NEW j \in ReviewId, NEW k \in ReviewId, files'[j] # NONE, files'[k] # NONE,
                 files'[j].binding = files'[k].binding, files'[j].source = files'[k].source
          PROVE  j = k
      <4>1. CASE j = i
        BY <2>1, <2>3, <3>1, <3>2, <4>1
      <4>2. CASE k = i
        BY <2>1, <2>3, <3>1, <3>2, <4>2
      <4>3. CASE j # i /\ k # i
        BY <2>3, <3>2, <4>3 DEF FilesInv, OneFilePerBinding
      <4> QED  BY <4>1, <4>2, <4>3
    <3> QED  BY <3>2 DEF OneFilePerBinding
  <2>7. \A j \in ReviewId : \A mid, result : Stands(j, mid, result) => Stands(j, mid, result)'
    BY <2>2, <2>3 DEF Stands
  <2> QED  BY <2>4, <2>5, <2>6, <2>7 DEF FilesInv
<1>2. ASSUME NEW i \in ReviewId, NEW req \in Calls, Ledger!Mutate(i, req)
      PROVE  /\ FilesInv'
             /\ \A j \in ReviewId : \A mid, result : Stands(j, mid, result) => Stands(j, mid, result)'
  <2> DEFINE r == files[i]
             n == Commit(files[i], req)
  <2>1. /\ r # NONE /\ Admits(r, req) /\ r \in Review /\ RecordInv(r)
        /\ files' = [files EXCEPT ![i] = n] /\ files \in [ReviewId -> Review \cup {NONE}]
    BY <1>2 DEF Ledger!Mutate, FilesInv
  <2>2. /\ n \in Review /\ RecordInv(n) /\ n.binding = r.binding /\ n.source = r.source
        /\ r.history.results \subseteq n.history.results
    BY <2>1, RecordInvKept, CommitFields, ResultsGrow
  <2>3. n # NONE
    BY <2>2, NoneAssumption
  <2> HIDE DEF n
  <2>4. files'[i] = n /\ \A j \in ReviewId \ {i} : files'[j] = files[j]
    BY <2>1
  <2>5. files' \in [ReviewId -> Review \cup {NONE}]
    BY <2>1, <2>2
  <2>6. \A j \in ReviewId : files'[j] # NONE => RecordInv(files'[j])
    BY <2>2, <2>4 DEF FilesInv
  <2>7. \A j \in ReviewId : files'[j] # NONE =>
           /\ files[j] # NONE
           /\ files'[j].binding = files[j].binding /\ files'[j].source = files[j].source
    BY <2>1, <2>2, <2>4
  <2>8. OneFilePerBinding'
    BY <2>7 DEF FilesInv, OneFilePerBinding
  <2>9. \A j \in ReviewId : \A mid, result : Stands(j, mid, result) => Stands(j, mid, result)'
    BY <2>2, <2>3, <2>4 DEF Stands
  <2> QED  BY <2>5, <2>6, <2>8, <2>9 DEF FilesInv
<1>3. CASE UNCHANGED files
  BY <1>3 DEF FilesInv, OneFilePerBinding, Stands
<1> QED  BY <1>1, <1>2, <1>3 DEF Ledger!Next

LEMMA StoreInvStep ==
  ASSUME StoreInv, [Next]_vars
  PROVE  StoreInv'
<1> DEFINE Ready(p) == pc[p] \in {"prepared", "written"}
           Prepared(p) == draft[p].result = IF request[p].op = "open" THEN NONE
                                  ELSE FirstResult(files[draft[p].name],
                                                   Apply(files[draft[p].name], request[p].req),
                                                   request[p].req)
           Placed(p) == request[p] \in CallRequest
                           /\ Stands(request[p].review, request[p].req.mid, draft[p].result)
           Answered(p) == pc[p] = "answered" /\ request[p] \in CallRequest
                           /\ Stands(request[p].review, request[p].req.mid, reply[p])
           Told(x) == /\ x.review \in ReviewId /\ Stands(x.review, x.mid, x.result)
                      /\ x = [review |-> x.review, mid |-> x.mid, result |-> x.result]
<1>a. \A p, q \in Proc : pc[p] \in Holding /\ pc[q] \in Holding => p = q
  BY DEF StoreInv, IInv, LockedWhileServing
<1>b. pc \in [Proc -> Phases] /\ request = [p \in Proc |-> request[p]]
      /\ draft = [p \in Proc |-> draft[p]] /\ reply = [p \in Proc |-> reply[p]]
  BY DEF StoreInv, IInv, Shape, AnswersInv
<1>c. /\ \A p \in Proc : Ready(p) => Prepared(p)
      /\ \A p \in Proc : pc[p] = "renamed" /\ draft[p].result # NONE => Placed(p)
      /\ \A p \in Proc : reply[p] # NONE => Answered(p)
      /\ \A x \in told : Told(x)
  BY DEF StoreInv, AnswersInv
<1>d. FilesInv' /\ \A i \in ReviewId : \A mid, result : Stands(i, mid, result) => Stands(i, mid, result)'
  BY StepSimulates, LedgerStepKeeps DEF StoreInv
<1>e. IInv'
  BY ShapeStep, LockedStep, DraftStep DEF IInv, StoreInv
<1>f. \A o \in CallRequest : o.review \in ReviewId /\ o.req \in Calls
  BY DEF CallRequest
(* The others, and what was told, stand whatever p does. *)
<1>1. ASSUME NEW p \in Proc, reply' = [q \in Proc |-> reply'[q]],
             \A q \in Proc \ {p} :
                /\ pc'[q] = pc[q] /\ request'[q] = request[q] /\ draft'[q] = draft[q]
                /\ reply'[q] = reply[q] /\ (Ready(q) => files' = files),
             Ready(p)' => Prepared(p)',
             pc'[p] = "renamed" /\ draft'[p].result # NONE => Placed(p)',
             reply'[p] # NONE => Answered(p)',
             \A x \in told' : x \in told \/ Told(x)'
      PROVE  AnswersInv'
  <2>1. \A q \in Proc : Ready(q)' => Prepared(q)'
    BY <1>1, <1>c
  <2>2. \A q \in Proc : pc'[q] = "renamed" /\ draft'[q].result # NONE => Placed(q)'
    BY <1>1, <1>c, <1>d, <1>f
  <2>3. \A q \in Proc : reply'[q] # NONE => Answered(q)'
    BY <1>1, <1>c, <1>d, <1>f
  <2>4. \A x \in told' : Told(x)'
    BY <1>1, <1>c, <1>d
  <2> QED  BY <1>1, <2>1, <2>2, <2>3, <2>4 DEF AnswersInv
<1>2. ASSUME NEW p \in Proc, NEW operation \in Operation, Ask(p, operation)
      PROVE  AnswersInv'
  <2>1. pc'[p] = "asked" /\ reply'[p] = NONE
    BY <1>2, <1>b, <1>c DEF Ask
  <2> QED  BY <1>1, <1>2, <1>b, <2>1 DEF Ask
<1>3. ASSUME NEW p \in Proc, Acquire(p)
      PROVE  AnswersInv'
  <2>1. pc'[p] = "locked" /\ reply'[p] = NONE
    BY <1>3, <1>b, <1>c DEF Acquire
  <2> QED  BY <1>1, <1>3, <1>b, <2>1 DEF Acquire
<1>4. ASSUME NEW p \in Proc, Return(p)
      PROVE  AnswersInv'
  <2>1. pc'[p] = "idle" /\ reply'[p] = NONE /\ files' = files
    BY <1>4, <1>b DEF Return, Forget
  <2>2. \A x \in told' : x \in told \/ Told(x)'
    <3>1. CASE reply[p] = NONE
      BY <1>4, <3>1 DEF Return
    <3>2. CASE reply[p] # NONE
      <4> DEFINE new == [review |-> request[p].review, mid |-> request[p].req.mid, result |-> reply[p]]
      <4>1. told' = told \cup {new}
        BY <1>4, <3>2 DEF Return
      <4>2. new.review \in ReviewId /\ Stands(new.review, new.mid, new.result)
        BY <1>c, <1>f, <3>2
      <4>3. /\ new.review = request[p].review /\ new.mid = request[p].req.mid /\ new.result = reply[p]
            /\ new = [review |-> new.review, mid |-> new.mid, result |-> new.result]
        OBVIOUS
      <4>4. ASSUME NEW x \in told', x \notin told
            PROVE  Told(x)'
        <5>1. x = new
          BY <4>1, <4>4
        <5>2. /\ x.review \in ReviewId /\ Stands(x.review, x.mid, x.result)
              /\ x = [review |-> x.review, mid |-> x.mid, result |-> x.result]
          BY <4>2, <4>3, <5>1
        <5>3. Stands(x.review, x.mid, x.result)'
          BY <2>1, <5>2 DEF Stands
        <5> QED  BY <5>2, <5>3
      <4> QED  BY <4>4
    <3> QED  BY <3>1, <3>2
  <2> HIDE DEF Told
  <2> QED  BY <1>1, <1>4, <1>b, <2>1, <2>2 DEF Return, Forget
<1>5. ASSUME NEW p \in Proc, Crash(p)
      PROVE  AnswersInv'
  <2>1. pc'[p] = "idle" /\ reply'[p] = NONE
    BY <1>5, <1>b DEF Crash, Forget
  <2> QED  BY <1>1, <1>5, <1>b, <2>1 DEF Crash, Forget
<1>6. ASSUME NEW p \in Proc, NEW result, Answer(p, result),
             result # NONE => request[p] \in CallRequest
                               /\ Stands(request[p].review, request[p].req.mid, result)
      PROVE  AnswersInv'
  <2>1. pc'[p] = "answered" /\ reply'[p] = result /\ files' = files /\ request' = request /\ told' = told
    BY <1>6, <1>b DEF Answer
  <2>2. reply'[p] # NONE => Answered(p)'
    BY <1>6, <2>1 DEF Stands
  <2> QED  BY <1>1, <1>6, <1>b, <2>1, <2>2 DEF Answer
<1>7. ASSUME NEW p \in Proc, OpenExisting(p) \/ Refuse(p) \/ WriteFails(p)
      PROVE  AnswersInv'
  BY <1>6, <1>7 DEF OpenExisting, Refuse, WriteFails
<1>8. ASSUME NEW p \in Proc, Replay(p)
      PROVE  AnswersInv'
  <2> DEFINE o == request[p]
             x == ReceiptOf(files[o.review], o.req.mid)
  <2>1. /\ pc[p] = "locked" /\ o.op \in {"call", "reconcile"} /\ files[o.review] # NONE
        /\ HasReceipt(files[o.review], o.req.mid)
        /\ Answer(p, ReceiptResult(files[o.review], x)) \/ Answer(p, NONE)
    BY <1>8 DEF Replay
  <2>2. o \in CallRequest /\ o.review \in ReviewId
    BY <1>f, <2>1, OperationKinds DEF StoreInv, IInv, Shape
  <2>3. x \in files[o.review].mutations /\ x.mid = o.req.mid
    BY <2>1 DEF HasReceipt, ReceiptOf
  <2>4. Replayable(files[o.review])
    BY <2>1, <2>2 DEF StoreInv, FilesInv, RecordInv
  <2>5. Stands(o.review, o.req.mid, ReceiptResult(files[o.review], x))
    BY <2>1, <2>3, <2>4 DEF Replayable, Stands
  <2> HIDE DEF o, x
  <2>6. CASE Answer(p, NONE)
    BY <1>6, <2>6
  <2>7. CASE Answer(p, ReceiptResult(files[o.review], x))
    BY <1>6, <2>2, <2>5, <2>7 DEF o
  <2> QED  BY <2>1, <2>6, <2>7
<1>9. ASSUME NEW p \in Proc, SyncDirectory(p)
      PROVE  AnswersInv'
  BY <1>6, <1>9, <1>c DEF SyncDirectory
<1>10. ASSUME NEW p \in Proc, NEW i \in ReviewId, OpenNew(p, i)
       PROVE  AnswersInv'
  <2>1. /\ pc'[p] = "prepared" /\ request' = request /\ files' = files /\ reply' = reply /\ told' = told
        /\ draft'[p].result = NONE /\ request[p].op = "open" /\ pc[p] = "locked"
    BY <1>10, <1>b DEF OpenNew, Prepare
  <2>2. reply'[p] = NONE
    BY <1>c, <2>1
  <2> QED  BY <1>1, <1>10, <1>b, <2>1, <2>2 DEF OpenNew, Prepare
<1>11. ASSUME NEW p \in Proc, Modify(p)
       PROVE  AnswersInv'
  <2> DEFINE o == request[p]
             r == files[o.review]
  <2>1. CASE ValidRecord(Commit(r, o.req))
    <3>1. /\ Prepare(p, o.review, Commit(r, o.req), FirstResult(r, Apply(r, o.req), o.req))
          /\ o.op = "call" /\ pc[p] = "locked"
      BY <1>11, <2>1 DEF Modify
    <3>2. /\ pc'[p] = "prepared" /\ request' = request /\ files' = files /\ reply' = reply /\ told' = told
          /\ draft'[p].result = FirstResult(r, Apply(r, o.req), o.req) /\ draft'[p].name = o.review
      BY <3>1, <1>b DEF Prepare
    <3>3. reply'[p] = NONE
      BY <1>c, <3>1, <3>2
    <3>4. Prepared(p)'
      BY <3>1, <3>2
    <3> HIDE DEF Prepared
    <3> QED  BY <1>1, <1>b, <3>1, <3>2, <3>3, <3>4 DEF Prepare
  <2>2. CASE ~ValidRecord(Commit(r, o.req))
    BY <1>6, <1>11, <2>2 DEF Modify
  <2> QED  BY <2>1, <2>2
<1>12. ASSUME NEW p \in Proc, WriteTemporary(p)
       PROVE  AnswersInv'
  <2>1. /\ pc'[p] = "written" /\ pc[p] = "prepared" /\ request' = request /\ files' = files
        /\ reply' = reply /\ told' = told /\ draft' = draft
    BY <1>12, <1>b DEF WriteTemporary
  <2>2. reply'[p] = NONE /\ Prepared(p)'
    BY <1>c, <2>1
  <2> HIDE DEF Prepared
  <2> QED  BY <1>1, <1>12, <1>b, <2>1, <2>2 DEF WriteTemporary
<1>13. ASSUME NEW p \in Proc, Rename(p)
       PROVE  AnswersInv'
  <2> DEFINE o == request[p]
             name == draft[p].name
             r == files[name]
  <2>1. /\ pc'[p] = "renamed" /\ pc[p] = "written" /\ request' = request /\ reply' = reply
        /\ told' = told /\ draft' = draft /\ files' = [files EXCEPT ![name] = draft[p].record]
    BY <1>13, <1>b DEF Rename
  <2>2. \A q \in Proc \ {p} : ~Ready(q)
    BY <1>a, <2>1 DEF Holding, Phases
  <2>3. reply'[p] = NONE
    BY <1>c, <2>1
  <2>4. ASSUME draft[p].result # NONE
        PROVE  Placed(p)'
    <3>1. o.op # "open" /\ draft[p].result = FirstResult(r, Apply(r, o.req), o.req)
      BY <1>c, <2>1, <2>4
    <3>2. /\ r # NONE /\ o.op = "call" /\ o.review = name /\ draft[p].record = Commit(r, o.req)
      BY <2>1, <3>1 DEF StoreInv, IInv, DraftSucceedsCheckpoint
    <3>3. o \in CallRequest /\ name \in ReviewId /\ o.req \in Calls
      BY <1>f, <2>1, <3>2, OperationKinds DEF StoreInv, IInv, Shape
    <3>4. r \in Review
      BY <3>2, <3>3 DEF StoreInv, FilesInv
    <3>5. [mid |-> o.req.mid, result |-> draft[p].result] \in Commit(r, o.req).history.results
      BY <3>1, <3>3, <3>4, ResultsGrow
    <3>6. Commit(r, o.req) # NONE
      BY <3>3, <3>4, CommitFields, NoneAssumption
    <3>7. files'[name] = Commit(r, o.req)
      BY <2>1, <3>2, <3>3 DEF StoreInv, FilesInv
    <3>8. Stands(name, o.req.mid, draft[p].result)'
      BY <2>1, <3>5, <3>6, <3>7 DEF Stands
    <3> QED  BY <2>1, <3>2, <3>3, <3>8
  <2> HIDE DEF Placed
  <2> QED  BY <1>1, <1>13, <1>b, <2>1, <2>2, <2>3, <2>4 DEF Rename
<1>14. ASSUME UNCHANGED vars
       PROVE  AnswersInv'
  BY <1>14 DEF vars, StoreInv, AnswersInv, Stands
<1>15. AnswersInv'
  BY <1>2, <1>3, <1>4, <1>5, <1>7, <1>8, <1>9, <1>10, <1>11, <1>12, <1>13, <1>14 DEF Next, Serve
<1> QED  BY <1>d, <1>e, <1>15 DEF StoreInv

LEMMA StoreInvHolds == Spec => []StoreInv
<1>1. Init => StoreInv
  <2> SUFFICES ASSUME Init PROVE StoreInv
    OBVIOUS
  <2>1. IInv
    BY ShapeInit, ProcAssumption DEF Init, IInv, LockedWhileServing, DraftSucceedsCheckpoint, Holding
  <2>2. FilesInv
    BY DEF Init, FilesInv, OneFilePerBinding
  <2>3. AnswersInv
    BY DEF Init, AnswersInv
  <2> QED  BY <2>1, <2>2, <2>3 DEF StoreInv
<1>2. StoreInv /\ [Next]_vars => StoreInv'
  BY StoreInvStep
<1> QED  BY <1>1, <1>2, PTL DEF Spec

(* However many processes ask, die and ask again: one review for what they  *)
(* ask about, and one answer to each mutation, which stands.                *)
THEOREM OneReviewAndOneAnswer == Spec => []OneReviewOneAnswer
<1>1. StoreInv => OneReviewOneAnswer
  <2> SUFFICES ASSUME StoreInv PROVE OneReviewOneAnswer
    OBVIOUS
  <2>1. ToldIsCommitted
    BY DEF StoreInv, AnswersInv, Stands, ToldIsCommitted
  <2>2. ASSUME NEW x \in told, NEW y \in told, x.review = y.review, x.mid = y.mid
        PROVE  x = y
    <3> DEFINE r == files[x.review]
    <3>1. /\ x.review \in ReviewId /\ r # NONE
          /\ [mid |-> x.mid, result |-> x.result] \in r.history.results
          /\ [mid |-> y.mid, result |-> y.result] \in r.history.results
          /\ x = [review |-> x.review, mid |-> x.mid, result |-> x.result]
          /\ y = [review |-> y.review, mid |-> y.mid, result |-> y.result]
      BY <2>2 DEF StoreInv, AnswersInv, Stands
    <3>2. OneResult(r)
      BY <3>1 DEF StoreInv, FilesInv, RecordInv
    <3>3. x.result = y.result
      BY <2>2, <3>1, <3>2 DEF OneResult
    <3> QED  BY <2>2, <3>1, <3>3
  <2> QED  BY <2>1, <2>2 DEF OneReviewOneAnswer, AnswersStand, OneAnswerPerMutation, StoreInv, FilesInv
<1> QED  BY <1>1, StoreInvHolds, PTL
=============================================================================
