------------------------------ MODULE ReviewLedger ------------------------------
(***************************************************************************)
(* The durable reviews as their clients see them: every call takes effect  *)
(* at once, as a whole, or not at all.                                     *)
(***************************************************************************)
EXTENDS ReviewRecord

VARIABLE reviews     \* the record of each review, NONE before it is opened

Serial == INSTANCE SerialStore

Opened == {i \in ReviewId : reviews[i] # NONE}
---------------------------------------------------------------------------
(* Safety *)

(* Every record has the shape the code declares (ReviewRecord and its parts). *)
TypeOK == \A i \in Opened : reviews[i] \in Review

(* No sequence of accepted calls reaches a record that validate_record      *)
(* refuses: persist never fails on one, and load never rejects a checkpoint *)
(* the store wrote.                                                         *)
AlwaysPersistable == \A i \in Opened : ValidRecord(reviews[i])

(* The change log is the tail of one unbroken sequence of revisions ending  *)
(* at the record's: a reader whose cursor is not older than the first entry *)
(* misses nothing.                                                          *)
ChangeLogUnbroken ==
    \A i \in Opened :
        LET r == reviews[i] IN
        /\ Len(r.changes) = (IF r.revision < MaxChanges THEN r.revision ELSE MaxChanges)
        /\ \A k \in DOMAIN r.changes : r.changes[k].revision = r.revision - Len(r.changes) + k

(* A client_mutation_id has one effect, at one revision: every revision     *)
(* after the first belongs to exactly one receipt, whatever was evicted     *)
(* from the change log.                                                     *)
OneReceiptPerRevision ==
    \A i \in Opened :
        LET r == reviews[i] IN
        /\ \A v \in 2..r.revision : \E x \in r.mutations : x.revision = v
        /\ \A x \in r.mutations : x.revision \in 2..r.revision
        /\ \A x, y \in r.mutations : x.revision = y.revision => x = y

(* A retry is told what the first caller was told, although the receipt of  *)
(* a submission only refers to it and the submission has been acknowledged  *)
(* since.                                                                   *)
ReplayIsFirstAnswer ==
    \A i \in Opened :
        \A x \in reviews[i].mutations :
            [mid |-> x.mid, result |-> ReceiptResult(reviews[i], x)]
                \in reviews[i].history.results

(* So a reader of the log, a writer who counts revisions and one who retries *)
(* are told one and the same story.                                         *)
RevisionsAccounted == ChangeLogUnbroken /\ OneReceiptPerRevision /\ ReplayIsFirstAnswer

(* A thread that is not marked stale is bound to the current generation and *)
(* its file's section is byte for byte the one it was last anchored in,     *)
(* over any number of refreshes.                                            *)
LiveThreadsOnTheirEvidence ==
    \A i \in Opened :
        \A t \in reviews[i].threads :
            ~t.stale =>
                /\ t.generation = reviews[i].generation
                /\ <<t.id, Sections[reviews[i].patch][t.file]>> \in reviews[i].history.anchored

(* A reviewed file or hunk has not changed since it was marked reviewed.    *)
ReviewedMeansUnchanged ==
    \A i \in Opened :
        LET r == reviews[i]
            items == {<<f, 0>> : f \in r.reviewed_files} \cup r.reviewed_hunks
        IN  \A m \in items : <<m, Sections[r.patch][m[1]]>> \in r.history.marked

(* What is shown as current evidence is: no comment and no mark has moved to *)
(* text it was not made on.                                                 *)
EvidenceStands == LiveThreadsOnTheirEvidence /\ ReviewedMeansUnchanged

(* A verdict stands only on the snapshot it was given on, and a return      *)
(* names submissions of the current generation only.                        *)
VerdictAndReturnAreCurrent ==
    \A i \in Opened :
        LET r == reviews[i] IN
        /\ r.verdict # NONE => r.history.judged = r.patch
        /\ r.last_return # NONE =>
              \A id \in r.last_return.submission_ids :
                  \E s \in r.submissions : s.id = id /\ s.generation = r.generation

(* No submission repeats feedback: each delivers some human message text    *)
(* that no other submission before it had delivered.                        *)
SubmissionsAreNews ==
    \A i \in Opened :
        \A s \in reviews[i].submissions :
            \E m \in s.messages :
                /\ m.origin = "human" /\ ~m.deleted
                /\ \A e \in reviews[i].submissions :
                      e.id < s.id => \A n \in e.messages : <<n.id, n.revision>> # <<m.id, m.revision>>

(* A conversation has one review of a source. *)
OneReviewPerBinding ==
    \A i, j \in Opened :
        reviews[i].binding = reviews[j].binding /\ reviews[i].source = reviews[j].source => i = j

---------------------------------------------------------------------------
(* Action properties *)

(* What was delivered stays as it was: later edits, removals, reanchors and *)
(* refreshes never alter a submission, and acknowledgements only grow.      *)
SubmissionsImmutable ==
    [][\A i \in Opened :
          \A s \in reviews[i].submissions :
              \E e \in reviews'[i].submissions :
                  /\ s.acknowledged_by \subseteq e.acknowledged_by
                  /\ [e EXCEPT !.acknowledged_by = s.acknowledged_by] = s]_reviews

(* Evidence moves only when asked: a snapshot is replaced by review.refresh  *)
(* alone, under the next generation, and a stale thread is made live again   *)
(* by review.reanchor alone, never by a refresh that happens to bring its    *)
(* section back.                                                             *)
SnapshotOnlyByRefresh(r, n) ==
    LET refreshed == n.patch # r.patch
    IN  /\ refreshed <=> n.generation # r.generation
        /\ refreshed => /\ n.generation = r.generation + 1
                        /\ n.changes[Len(n.changes)].kind = "review.refresh"

StaleUntilReanchored(r, n) ==
    \A t \in r.threads, u \in n.threads :
        t.id = u.id /\ t.stale /\ ~u.stale =>
            \E x \in n.mutations \ r.mutations : x.request.method = "review.reanchor"

EvidenceMovesOnlyWhenAsked ==
    [][\A i \in Opened : /\ SnapshotOnlyByRefresh(reviews[i], reviews'[i])
                         /\ StaleUntilReanchored(reviews[i], reviews'[i])]_reviews
=============================================================================
