------------------------------ MODULE ReviewRecordProofs ------------------------------
(***************************************************************************)
(* What one request does to one record, for every record, request and      *)
(* limit.  First each handler: the type of the record it leaves and what   *)
(* it leaves alone.  Then the envelope a commit puts around it.  Then one  *)
(* section for each conjunct of RecordInv, which every commit keeps.       *)
(* ReviewStoreProofs lifts RecordInvKept to the behaviours of the         *)
(* specifications.                                                         *)
(***************************************************************************)
EXTENDS ReviewRecord, FiniteSetTheorems, TLAPS

LEMMA RequestTypes ==
  ASSUME NEW req \in Calls
  PROVE  /\ req.method \in Methods /\ req.mid \in MutationId /\ req.generation \in Nat
         /\ HasArgs(req.method, req.args)
  BY CallsAssumption DEF IsRequest

LEMMA SectionTypes ==
  ASSUME NEW p \in Patch, NEW f \in File
  PROVE  Sections[p][f] \in Section \cup {NONE}
  BY RecordAssumption

---------------------------------------------------------------------------
(* The handlers one at a time: the type of the record they leave, and that  *)
(* they do not touch what belongs to the envelope.                          *)

SameEnvelope(n, r) ==
    /\ n.binding = r.binding /\ n.source = r.source /\ n.revision = r.revision
    /\ n.changes = r.changes /\ n.mutations = r.mutations /\ n.history = r.history

SameSnapshot(n, r) == n.generation = r.generation /\ n.patch = r.patch
SameComments(n, r) == n.threads = r.threads /\ n.messages = r.messages
SameFeedback(n, r) == n.submissions = r.submissions /\ n.last_return = r.last_return
SameProgress(n, r) == /\ n.reviewed_files = r.reviewed_files
                      /\ n.reviewed_hunks = r.reviewed_hunks /\ n.verdict = r.verdict

LEMMA CarryTypes ==
  ASSUME NEW t \in Thread, NEW g \in Nat, NEW retained
  PROVE  CarryThread(t, retained, g) \in Thread
  BY DEF CarryThread, Thread

LEMMA RefreshTypes ==
  ASSUME NEW r \in Review, NEW a, a.patch \in Patch
  PROVE  LET n == Refresh(r, a)
             retained == UnchangedPaths(r.patch, a.patch)
         IN  /\ n \in Review /\ SameEnvelope(n, r)
             /\ n.messages = r.messages /\ n.submissions = r.submissions
             /\ a.patch = r.patch => n = r
             /\ a.patch # r.patch =>
                  /\ n.patch = a.patch /\ n.generation = r.generation + 1
                  /\ n.threads = {CarryThread(t, retained, r.generation + 1) : t \in r.threads}
                  /\ n.reviewed_files = r.reviewed_files \cap retained
                  /\ n.reviewed_hunks = {h \in r.reviewed_hunks : h[1] \in retained}
                  /\ n.verdict = NONE /\ n.last_return = NONE
<1> DEFINE retained == UnchangedPaths(r.patch, a.patch)
           threads == {CarryThread(t, retained, r.generation + 1) : t \in r.threads}
           files == r.reviewed_files \cap retained
           hunks == {h \in r.reviewed_hunks : h[1] \in retained}
           generation == r.generation + 1
           n == [r EXCEPT !.patch = a.patch, !.generation = generation, !.threads = threads,
                          !.reviewed_files = files, !.reviewed_hunks = hunks,
                          !.verdict = NONE, !.last_return = NONE]
<1>1. generation \in Nat /\ r.threads \subseteq Thread
  BY DEF Review
<1>2. threads \in SUBSET Thread
  BY <1>1, CarryTypes
<1>3. files \in SUBSET File /\ hunks \in SUBSET (File \X Hunk)
  BY DEF Review
<1>4. a.patch # r.patch => Refresh(r, a) = n
  BY DEF Refresh
<1> HIDE DEF threads, files, hunks, generation
<1>5. /\ n \in Review /\ SameEnvelope(n, r)
      /\ n.messages = r.messages /\ n.submissions = r.submissions
      /\ n.patch = a.patch /\ n.generation = generation /\ n.threads = threads
      /\ n.reviewed_files = files /\ n.reviewed_hunks = hunks
      /\ n.verdict = NONE /\ n.last_return = NONE
  BY <1>1, <1>2, <1>3 DEF Review, SameEnvelope
<1>6. a.patch = r.patch => Refresh(r, a) = r
  BY DEF Refresh
<1> HIDE DEF n
<1> QED  BY <1>4, <1>5, <1>6 DEF SameEnvelope, threads, files, hunks, generation

LEMMA MessageTypes ==
  ASSUME NEW r \in Review, NEW a, a.origin \in Origin, a.body \in Body,
         NEW thread \in Nat, NEW reply_to \in Nat \cup {NONE}
  PROVE  NewMessage(r, thread, reply_to, a) \in Message
  BY DEF NewMessage, Message, NextRevision, Review

LEMMA AddTypes ==
  ASSUME NEW r \in Review, NEW a, a \in [file: File, origin: Origin, body: Body]
  PROVE  LET n == AddComment(r, a)
         IN  /\ n \in Review /\ SameEnvelope(n, r) /\ SameSnapshot(n, r) /\ SameFeedback(n, r)
             /\ SameProgress(n, r)
             /\ n.threads = r.threads \cup
                    {[id |-> r.revision + 1, file |-> a.file, generation |-> r.generation,
                      stale |-> FALSE, disposition |-> "open"]}
             /\ n.messages = r.messages \cup {NewMessage(r, r.revision + 1, NONE, a)}
<1> DEFINE thread == [id |-> NextRevision(r), file |-> a.file, generation |-> r.generation,
                      stale |-> FALSE, disposition |-> "open"]
           message == NewMessage(r, NextRevision(r), NONE, a)
           threads == r.threads \cup {thread}
           messages == r.messages \cup {message}
<1>1. NextRevision(r) \in Nat
  BY DEF NextRevision, Review
<1>2. thread \in Thread
  BY <1>1 DEF Thread, Review, Dispositions
<1>3. message \in Message
  BY <1>1, MessageTypes
<1>4. AddComment(r, a) = [r EXCEPT !.threads = threads, !.messages = messages]
  BY DEF AddComment
<1> HIDE DEF thread, message
<1>5. threads \in SUBSET Thread /\ messages \in SUBSET Message
  BY <1>2, <1>3 DEF Review
<1> HIDE DEF threads, messages
<1>6. LET n == AddComment(r, a)
      IN  /\ n \in Review /\ SameEnvelope(n, r) /\ SameSnapshot(n, r) /\ SameFeedback(n, r)
          /\ SameProgress(n, r) /\ n.threads = threads /\ n.messages = messages
  <2> DEFINE n == [r EXCEPT !.threads = threads, !.messages = messages]
  <2>1. n \in Review /\ n.threads = threads /\ n.messages = messages
    BY <1>5 DEF Review
  <2>2. SameEnvelope(n, r) /\ SameSnapshot(n, r)
    BY DEF Review, SameEnvelope, SameSnapshot
  <2>3. SameFeedback(n, r) /\ SameProgress(n, r)
    BY DEF Review, SameFeedback, SameProgress
  <2> HIDE DEF n
  <2>4. AddComment(r, a) = n
    BY <1>4 DEF n
  <2> QED  BY <2>1, <2>2, <2>3, <2>4
<1> QED  BY <1>6 DEF threads, thread, messages, message, NextRevision

LEMMA ReplyTypes ==
  ASSUME NEW r \in Review, NEW a, a \in [thread: Nat, reply_to: Nat, origin: Origin, body: Body]
  PROVE  LET n == Reply(r, a)
         IN  /\ n \in Review /\ SameEnvelope(n, r) /\ SameSnapshot(n, r) /\ SameFeedback(n, r)
             /\ SameProgress(n, r) /\ n.threads = r.threads
             /\ n.messages = r.messages \cup {NewMessage(r, a.thread, a.reply_to, a)}
<1> DEFINE message == NewMessage(r, a.thread, a.reply_to, a)
<1>1. message \in Message
  BY MessageTypes
<1>2. Reply(r, a) = [r EXCEPT !.messages = @ \cup {message}]
  BY DEF Reply
<1> HIDE DEF message
<1>3. LET n == Reply(r, a)
      IN  /\ n \in Review /\ SameEnvelope(n, r) /\ SameSnapshot(n, r) /\ SameFeedback(n, r)
          /\ SameProgress(n, r) /\ n.threads = r.threads /\ n.messages = r.messages \cup {message}
  <2> DEFINE messages == r.messages \cup {message}
             n == [r EXCEPT !.messages = messages]
  <2>1. messages \in SUBSET Message
    BY <1>1 DEF Review
  <2>2. Reply(r, a) = n
    BY <1>2
  <2> HIDE DEF messages
  <2>3. n \in Review /\ n.messages = messages /\ n.threads = r.threads
    BY <2>1 DEF Review
  <2>4. SameEnvelope(n, r) /\ SameSnapshot(n, r)
    BY DEF Review, SameEnvelope, SameSnapshot
  <2>5. SameFeedback(n, r) /\ SameProgress(n, r)
    BY DEF Review, SameFeedback, SameProgress
  <2> HIDE DEF n
  <2> QED  BY <2>2, <2>3, <2>4, <2>5 DEF messages
<1> QED  BY <1>3 DEF message

LEMMA RewriteTypes ==
  ASSUME NEW r \in Review, NEW id, NEW body \in Body \cup {NONE}, NEW deleted \in BOOLEAN
  PROVE  LET n == Rewrite(r, id, body, deleted)
         IN  /\ n \in Review /\ SameEnvelope(n, r) /\ SameSnapshot(n, r) /\ SameFeedback(n, r)
             /\ SameProgress(n, r) /\ n.threads = r.threads
<1> DEFINE v == NextRevision(r)
           changed(m) == [m EXCEPT !.body = body, !.deleted = deleted, !.revision = v]
           messages == {IF m.id = id THEN changed(m) ELSE m : m \in r.messages}
<1>1. v \in Nat /\ r.messages \in SUBSET Message
  BY DEF NextRevision, Review
<1> HIDE DEF v
<1>2. ASSUME NEW m \in Message PROVE changed(m) \in Message
  BY <1>1 DEF Message
<1> HIDE DEF changed
<1>3. messages \in SUBSET Message
  BY <1>1, <1>2
<1>4. Rewrite(r, id, body, deleted) = [r EXCEPT !.messages = messages]
  BY DEF Rewrite, v, changed
<1> HIDE DEF messages
<1> QED  BY <1>3, <1>4 DEF Review, SameEnvelope, SameSnapshot, SameComments, SameFeedback, SameProgress

LEMMA DispositionTypes ==
  ASSUME NEW r \in Review, NEW a, a.disposition \in Dispositions
  PROVE  LET n == Disposition(r, a)
         IN  /\ n \in Review /\ SameEnvelope(n, r) /\ SameSnapshot(n, r) /\ SameFeedback(n, r)
             /\ SameProgress(n, r) /\ n.messages = r.messages
             /\ n.threads = {IF t.id = a.thread THEN [t EXCEPT !.disposition = a.disposition]
                                                ELSE t : t \in r.threads}
             /\ \A u \in n.threads : \E t \in r.threads :
                    u.id = t.id /\ u.file = t.file /\ u.generation = t.generation /\ u.stale = t.stale
<1> DEFINE placed(t) == [t EXCEPT !.disposition = a.disposition]
           threads == {IF t.id = a.thread THEN placed(t) ELSE t : t \in r.threads}
<1>1. ASSUME NEW t \in Thread PROVE placed(t) \in Thread
  BY DEF Thread
<1>2. Disposition(r, a) = [r EXCEPT !.threads = threads]
  BY DEF Disposition
<1> HIDE DEF placed
<1>3. threads \in SUBSET Thread
  BY <1>1 DEF Review
<1> HIDE DEF threads
<1>4. LET n == Disposition(r, a)
      IN  /\ n \in Review /\ SameEnvelope(n, r) /\ SameSnapshot(n, r) /\ SameFeedback(n, r)
          /\ SameProgress(n, r) /\ n.messages = r.messages /\ n.threads = threads
  BY <1>2, <1>3 DEF Review, SameEnvelope, SameSnapshot, SameComments, SameFeedback, SameProgress
<1>5. \A t \in r.threads : /\ placed(t).id = t.id /\ placed(t).file = t.file
                           /\ placed(t).generation = t.generation /\ placed(t).stale = t.stale
  BY DEF placed, Review, Thread
<1>6. \A u \in threads : \E t \in r.threads :
         u.id = t.id /\ u.file = t.file /\ u.generation = t.generation /\ u.stale = t.stale
  BY <1>5 DEF threads
<1>7. threads = {IF t.id = a.thread THEN [t EXCEPT !.disposition = a.disposition]
                                    ELSE t : t \in r.threads}
  BY DEF threads, placed
<1> QED  BY <1>4, <1>6, <1>7

LEMMA SubmitTypes ==
  ASSUME NEW r \in Review, NEW a
  PROVE  LET n == Submit(r, a)
         IN  /\ n \in Review /\ SameEnvelope(n, r) /\ SameSnapshot(n, r) /\ SameComments(n, r)
             /\ SameProgress(n, r) /\ n.last_return = r.last_return
<1> DEFINE threads == SelectedThreads(r, a)
           messages == {m \in r.messages : \E t \in threads : t.id = m.thread}
           submission == [id |-> NextRevision(r), generation |-> r.generation,
                          threads |-> threads, messages |-> messages, acknowledged_by |-> {}]
           submissions == r.submissions \cup {submission}
<1>1. threads \in SUBSET Thread /\ messages \in SUBSET Message
  BY DEF SelectedThreads, Review
<1>2. Submit(r, a) = [r EXCEPT !.submissions = submissions]
  BY DEF Submit
<1> HIDE DEF threads, messages
<1>3. submission \in Submission
  BY <1>1 DEF Submission, Review, NextRevision
<1> HIDE DEF submission
<1>4. submissions \in SUBSET Submission
  BY <1>3 DEF Review
<1> HIDE DEF submissions
<1> QED  BY <1>2, <1>4 DEF Review, SameEnvelope, SameSnapshot, SameComments, SameFeedback, SameProgress

LEMMA AcknowledgeTypes ==
  ASSUME NEW r \in Review, NEW a, a.consumer \in Consumer
  PROVE  LET n == Acknowledge(r, a)
         IN  /\ n \in Review /\ SameEnvelope(n, r) /\ SameSnapshot(n, r) /\ SameComments(n, r)
             /\ SameProgress(n, r) /\ n.last_return = r.last_return
             /\ n.submissions = {IF s.id = a.submission
                                 THEN [s EXCEPT !.acknowledged_by = @ \cup {a.consumer}] ELSE s
                                 : s \in r.submissions}
<1> DEFINE seen(s) == [s EXCEPT !.acknowledged_by = @ \cup {a.consumer}]
           submissions == {IF s.id = a.submission THEN seen(s) ELSE s : s \in r.submissions}
<1>1. ASSUME NEW s \in Submission PROVE seen(s) \in Submission
  BY DEF Submission
<1>2. Acknowledge(r, a) = [r EXCEPT !.submissions = submissions]
  BY DEF Acknowledge
<1> HIDE DEF seen
<1>3. submissions \in SUBSET Submission
  BY <1>1 DEF Review
<1> HIDE DEF submissions
<1>4. LET n == Acknowledge(r, a)
      IN  /\ n \in Review /\ SameEnvelope(n, r) /\ SameSnapshot(n, r) /\ SameComments(n, r)
          /\ SameProgress(n, r) /\ n.last_return = r.last_return /\ n.submissions = submissions
  BY <1>2, <1>3 DEF Review, SameEnvelope, SameSnapshot, SameComments, SameFeedback, SameProgress
<1> QED  BY <1>4 DEF submissions, seen

LEMMA ReturnTypes ==
  ASSUME NEW r \in Review, NEW a, a \in [outcome: Outcomes, submission_ids: SUBSET Nat]
  PROVE  LET n == Finish(r, a)
         IN  /\ n \in Review /\ SameEnvelope(n, r) /\ SameSnapshot(n, r) /\ SameComments(n, r)
             /\ SameProgress(n, r) /\ n.submissions = r.submissions
             /\ n.last_return = [outcome |-> a.outcome, submission_ids |-> a.submission_ids,
                                 revision |-> r.revision + 1]
<1> DEFINE returned == [outcome |-> a.outcome, submission_ids |-> a.submission_ids,
                        revision |-> NextRevision(r)]
<1>1. returned \in ReviewReturn
  BY DEF ReviewReturn, NextRevision, Review
<1>2. Finish(r, a) = [r EXCEPT !.last_return = returned]
  BY DEF Finish
<1> HIDE DEF returned
<1>3. LET n == Finish(r, a)
      IN  /\ n \in Review /\ SameEnvelope(n, r) /\ SameSnapshot(n, r) /\ SameComments(n, r)
          /\ SameProgress(n, r) /\ n.submissions = r.submissions /\ n.last_return = returned
  BY <1>1, <1>2 DEF Review, SameEnvelope, SameSnapshot, SameComments, SameFeedback, SameProgress
<1> QED  BY <1>3 DEF returned, NextRevision

LEMMA BeginTypes ==
  ASSUME NEW r \in Review
  PROVE  LET n == Begin(r)
         IN  /\ n \in Review /\ SameEnvelope(n, r) /\ SameSnapshot(n, r) /\ SameComments(n, r)
             /\ SameProgress(n, r) /\ n.submissions = r.submissions
             /\ n.last_return = NONE
  BY DEF Begin, Review, SameEnvelope, SameSnapshot, SameComments, SameFeedback, SameProgress

LEMMA ProgressTypes ==
  ASSUME NEW r \in Review, NEW a \in ProgressArgs
  PROVE  LET n == Progress(r, a)
         IN  /\ n \in Review /\ SameEnvelope(n, r) /\ SameSnapshot(n, r) /\ SameComments(n, r)
             /\ SameFeedback(n, r)
             /\ n.reviewed_files =
                    IF a.file # NONE
                    THEN IF a.reviewed THEN r.reviewed_files \cup {a.file}
                                       ELSE r.reviewed_files \ {a.file}
                    ELSE Given(a.reviewed_files, r.reviewed_files)
             /\ n.reviewed_hunks = IF a.file # NONE THEN r.reviewed_hunks
                                   ELSE Given(a.reviewed_hunks, r.reviewed_hunks)
             /\ n.verdict = IF a.file # NONE THEN r.verdict ELSE Given(a.verdict, r.verdict)
<1> DEFINE toggled == IF a.reviewed THEN r.reviewed_files \cup {a.file}
                                    ELSE r.reviewed_files \ {a.file}
           files == Given(a.reviewed_files, r.reviewed_files)
           hunks == Given(a.reviewed_hunks, r.reviewed_hunks)
           verdict == Given(a.verdict, r.verdict)
<1>1. CASE a.file # NONE
  <2>1. toggled \in SUBSET File
    BY <1>1 DEF ProgressArgs, Review
  <2>2. Progress(r, a) = [r EXCEPT !.reviewed_files = toggled]
    BY <1>1 DEF Progress
  <2> HIDE DEF toggled
  <2>3. LET n == Progress(r, a)
        IN  /\ n \in Review /\ SameEnvelope(n, r) /\ SameSnapshot(n, r) /\ SameComments(n, r)
            /\ SameFeedback(n, r) /\ n.reviewed_files = toggled
            /\ n.reviewed_hunks = r.reviewed_hunks /\ n.verdict = r.verdict
    BY <2>1, <2>2 DEF Review, SameEnvelope, SameSnapshot, SameComments, SameFeedback, SameProgress
  <2> QED  BY <1>1, <2>3 DEF toggled
<1>2. CASE a.file = NONE
  <2>1. /\ files \in SUBSET File /\ hunks \in SUBSET (File \X Hunk)
        /\ verdict \in Verdict \cup {NONE}
    BY DEF ProgressArgs, Lists, Review, Given
  <2>2. Progress(r, a) = [r EXCEPT !.reviewed_files = files, !.reviewed_hunks = hunks,
                                   !.verdict = verdict]
    BY <1>2 DEF Progress
  <2> HIDE DEF files, hunks, verdict
  <2>3. LET n == Progress(r, a)
        IN  /\ n \in Review /\ SameEnvelope(n, r) /\ SameSnapshot(n, r) /\ SameComments(n, r)
            /\ SameFeedback(n, r) /\ n.reviewed_files = files
            /\ n.reviewed_hunks = hunks /\ n.verdict = verdict
    <3> DEFINE n == [r EXCEPT !.reviewed_files = files, !.reviewed_hunks = hunks, !.verdict = verdict]
    <3>1. n \in Review /\ n.reviewed_files = files /\ n.reviewed_hunks = hunks /\ n.verdict = verdict
      BY <2>1 DEF Review
    <3>2. SameEnvelope(n, r) /\ SameSnapshot(n, r)
      BY DEF Review, SameEnvelope, SameSnapshot
    <3>3. SameComments(n, r) /\ SameFeedback(n, r)
      BY DEF Review, SameComments, SameFeedback
    <3> HIDE DEF n
    <3>4. Progress(r, a) = n
      BY <2>2 DEF n
    <3> QED  BY <3>1, <3>2, <3>3, <3>4
  <2> QED  BY <1>2, <2>3 DEF files, hunks, verdict
<1> QED  BY <1>1, <1>2

LEMMA ReanchorTypes ==
  ASSUME NEW r \in Review, NEW a, IsAnchorUpdates(a.updates),
         a.progress = NONE \/ a.progress \in ProgressArgs
  PROVE  LET n == Reanchor(r, a)
         IN  /\ n \in Review /\ SameEnvelope(n, r) /\ SameSnapshot(n, r) /\ SameFeedback(n, r)
             /\ n.messages = r.messages
             /\ n.threads = {IF t.id \in DOMAIN a.updates
                             THEN [t EXCEPT !.file = a.updates[t.id].file,
                                            !.stale = a.updates[t.id].stale,
                                            !.generation = r.generation]
                             ELSE t : t \in r.threads}
             /\ \E m \in Review :
                   /\ SameProgress(m, r)
                   /\ IF a.progress = NONE THEN n = m ELSE n = Progress(m, a.progress)
<1> DEFINE u == a.updates
           moved(t) == [t EXCEPT !.file = u[t.id].file, !.stale = u[t.id].stale,
                                 !.generation = r.generation]
           threads == {IF t.id \in DOMAIN u THEN moved(t) ELSE t : t \in r.threads}
           anchored == [r EXCEPT !.threads = threads]
<1>1. ASSUME NEW t \in Thread, t.id \in DOMAIN u PROVE moved(t) \in Thread
  <2>1. PICK file \in File, stale \in BOOLEAN : u[t.id].file = file /\ u[t.id].stale = stale
    BY <1>1 DEF IsAnchorUpdates
  <2>2. PICK generation \in Nat : r.generation = generation
    BY DEF Review
  <2>3. moved(t) = [t EXCEPT !.file = file, !.stale = stale, !.generation = generation]
    BY <2>1, <2>2
  <2> QED  BY <2>3 DEF Thread
<1>2. Reanchor(r, a) = IF a.progress = NONE THEN anchored ELSE Progress(anchored, a.progress)
  BY DEF Reanchor
<1> HIDE DEF moved, u
<1>3. threads \in SUBSET Thread
  BY <1>1 DEF Review
<1> HIDE DEF threads
<1>4. /\ anchored \in Review /\ SameEnvelope(anchored, r) /\ SameSnapshot(anchored, r)
      /\ SameFeedback(anchored, r) /\ SameProgress(anchored, r)
      /\ anchored.messages = r.messages /\ anchored.threads = threads
  BY <1>3 DEF Review, SameEnvelope, SameSnapshot, SameComments, SameFeedback, SameProgress
<1> HIDE DEF anchored
<1>5. LET n == Reanchor(r, a)
      IN  /\ n \in Review /\ SameEnvelope(n, r) /\ SameSnapshot(n, r) /\ SameFeedback(n, r)
          /\ n.messages = r.messages /\ n.threads = threads
  <2>1. CASE a.progress = NONE
    BY <1>2, <1>4, <2>1
  <2>2. CASE a.progress # NONE
    <3> DEFINE n == Progress(anchored, a.progress)
    <3>1. Reanchor(r, a) = n
      BY <1>2, <2>2
    <3>2. /\ n \in Review /\ SameEnvelope(n, anchored) /\ SameSnapshot(n, anchored)
          /\ SameComments(n, anchored) /\ SameFeedback(n, anchored)
      BY <1>4, <2>2, ProgressTypes
    <3> HIDE DEF n
    <3> QED  BY <1>4, <3>1, <3>2 DEF SameEnvelope, SameSnapshot, SameComments, SameFeedback
  <2> QED  BY <2>1, <2>2
<1> QED  BY <1>2, <1>4, <1>5 DEF threads, moved, u

(* What a handler may change, by the method that dispatches to it. *)
Effects(n, r, method) ==
    /\ n \in Review /\ SameEnvelope(n, r)
    /\ method # "review.refresh" => SameSnapshot(n, r)
    /\ method \notin {"review.refresh", "comment.add", "review.disposition", "review.reanchor"} =>
          n.threads = r.threads
    /\ method \notin {"comment.add", "comment.reply", "comment.edit", "comment.remove"} =>
          n.messages = r.messages
    /\ method \notin {"feedback.submit", "feedback.ack"} => n.submissions = r.submissions
    /\ method \notin {"review.refresh", "review.finish", "review.begin"} =>
          n.last_return = r.last_return
    /\ method \notin {"review.refresh", "review.progress", "review.reanchor"} => SameProgress(n, r)

LEMMA ApplyEffects ==
  ASSUME NEW r \in Review, NEW req \in Calls
  PROVE  Effects(Apply(r, req), r, req.method)
<1> DEFINE a == req.args
           n == Apply(r, req)
<1>0. req.method \in Methods /\ HasArgs(req.method, a)
  BY RequestTypes
<1> USE DEF Effects
<1>1. CASE req.method = "review.refresh"
  <2>1. n = Refresh(r, a)
    BY <1>1 DEF Apply
  <2> HIDE DEF n, a
  <2>2. a.patch \in Patch
    BY <1>0, <1>1 DEF HasArgs
  <2>3. /\ n \in Review /\ SameEnvelope(n, r) /\ n.submissions = r.submissions
        /\ n.messages = r.messages
    BY <2>1, <2>2, RefreshTypes
  <2> QED  BY <1>1, <2>3 DEF n, SameComments, SameFeedback
<1>2. CASE req.method = "comment.add"
  <2>1. n = AddComment(r, a)
    BY <1>2 DEF Apply
  <2> HIDE DEF n, a
  <2>2. a \in [file: File, origin: Origin, body: Body]
    BY <1>0, <1>2 DEF HasArgs
  <2>3. n \in Review /\ SameEnvelope(n, r) /\ SameSnapshot(n, r) /\ SameFeedback(n, r) /\ SameProgress(n, r)
    BY <2>1, <2>2, AddTypes
  <2> QED  BY <1>2, <2>3 DEF n, SameComments, SameFeedback
<1>3. CASE req.method = "comment.reply"
  <2>1. n = Reply(r, a)
    BY <1>3 DEF Apply
  <2> HIDE DEF n, a
  <2>2. a \in [thread: Nat, reply_to: Nat, origin: Origin, body: Body]
    BY <1>0, <1>3 DEF HasArgs
  <2> QED  BY <1>3, <2>1, <2>2, ReplyTypes DEF n, SameComments, SameFeedback
<1>4. CASE req.method = "comment.edit"
  <2>1. n = Rewrite(r, a.message, a.body, FALSE)
    BY <1>4 DEF Apply, EditComment
  <2> HIDE DEF n, a
  <2>2. a.body \in Body
    BY <1>0, <1>4 DEF HasArgs
  <2>3. n \in Review /\ SameEnvelope(n, r) /\ SameSnapshot(n, r) /\ SameFeedback(n, r)
        /\ SameProgress(n, r) /\ n.threads = r.threads
    BY <2>1, <2>2, RewriteTypes
  <2> QED  BY <1>4, <2>3 DEF n, SameFeedback
<1>5. CASE req.method = "comment.remove"
  <2>1. n = Rewrite(r, a.message, NONE, TRUE)
    BY <1>5 DEF Apply, RemoveComment
  <2> HIDE DEF n, a
  <2>2. n \in Review /\ SameEnvelope(n, r) /\ SameSnapshot(n, r) /\ SameFeedback(n, r)
        /\ SameProgress(n, r) /\ n.threads = r.threads
    BY <2>1, RewriteTypes
  <2> QED  BY <1>5, <2>2 DEF n, SameFeedback
<1>6. CASE req.method = "feedback.submit"
  <2>1. n = Submit(r, a)
    BY <1>6 DEF Apply
  <2> HIDE DEF n, a
  <2> QED  BY <1>6, <2>1, SubmitTypes DEF n, SameComments, SameFeedback
<1>7. CASE req.method = "feedback.ack"
  <2>1. n = Acknowledge(r, a)
    BY <1>7 DEF Apply
  <2> HIDE DEF n, a
  <2>2. a.consumer \in Consumer
    BY <1>0, <1>7 DEF HasArgs
  <2>3. n \in Review /\ SameEnvelope(n, r) /\ SameSnapshot(n, r) /\ SameComments(n, r) /\ SameProgress(n, r)
        /\ n.last_return = r.last_return
    BY <2>1, <2>2, AcknowledgeTypes
  <2> QED  BY <1>7, <2>3 DEF n, SameComments, SameFeedback
<1>8. CASE req.method = "review.finish"
  <2>1. n = Finish(r, a)
    BY <1>8 DEF Apply
  <2> HIDE DEF n, a
  <2>2. a \in [outcome: Outcomes, submission_ids: SUBSET Nat]
    BY <1>0, <1>8 DEF HasArgs
  <2>3. n \in Review /\ SameEnvelope(n, r) /\ SameSnapshot(n, r) /\ SameComments(n, r) /\ SameProgress(n, r)
        /\ n.submissions = r.submissions
    BY <2>1, <2>2, ReturnTypes
  <2> QED  BY <1>8, <2>3 DEF n, SameComments, SameFeedback
<1>9. CASE req.method = "review.disposition"
  <2>1. n = Disposition(r, a)
    BY <1>9 DEF Apply
  <2> HIDE DEF n, a
  <2>2. a.disposition \in Dispositions
    BY <1>0, <1>9 DEF HasArgs
  <2>3. /\ n \in Review /\ SameEnvelope(n, r) /\ SameSnapshot(n, r) /\ SameFeedback(n, r)
        /\ SameProgress(n, r) /\ n.messages = r.messages
    BY <2>1, <2>2, DispositionTypes
  <2> QED  BY <1>9, <2>3 DEF n, SameComments, SameFeedback
<1>10. CASE req.method = "review.progress"
  <2>1. n = Progress(r, a)
    BY <1>10 DEF Apply
  <2> HIDE DEF n, a
  <2>2. a \in ProgressArgs
    BY <1>0, <1>10 DEF HasArgs
  <2>3. n \in Review /\ SameEnvelope(n, r) /\ SameSnapshot(n, r) /\ SameComments(n, r) /\ SameFeedback(n, r)
    BY <2>1, <2>2, ProgressTypes
  <2> QED  BY <1>10, <2>3 DEF n, SameComments, SameFeedback
<1>11. CASE req.method = "review.reanchor"
  <2>1. n = Reanchor(r, a)
    BY <1>11 DEF Apply
  <2> HIDE DEF n, a
  <2>2. IsAnchorUpdates(a.updates) /\ (a.progress = NONE \/ a.progress \in ProgressArgs)
    BY <1>0, <1>11 DEF HasArgs
  <2>3. /\ n \in Review /\ SameEnvelope(n, r) /\ SameSnapshot(n, r) /\ SameFeedback(n, r)
        /\ n.messages = r.messages
    BY <2>1, <2>2, ReanchorTypes
  <2> QED  BY <1>11, <2>3 DEF n, SameComments, SameFeedback
<1>12. CASE req.method = "review.begin"
  <2>1. n = Begin(r)
    BY <1>12 DEF Apply
  <2> HIDE DEF n, a
  <2> QED  BY <1>12, <2>1, BeginTypes DEF n, SameComments, SameFeedback
<1> QED
  BY <1>0, <1>1, <1>2, <1>3, <1>4, <1>5, <1>6, <1>7, <1>8, <1>9, <1>10, <1>11, <1>12 DEF Methods

LEMMA ApplyTypes ==
  ASSUME NEW r \in Review, NEW req \in Calls
  PROVE  Apply(r, req) \in Review /\ SameEnvelope(Apply(r, req), r)
  BY ApplyEffects DEF Effects

---------------------------------------------------------------------------
(* Receipt, change log and history *)

LEMMA LoggedTypes ==
  ASSUME NEW changes \in Seq(Change), NEW change \in Change
  PROVE  Logged(changes, change) \in Seq(Change)
  BY DEF Logged

LEMMA SubmittedNow ==
  ASSUME NEW r \in Review, NEW a
  PROVE  \E s \in Submission : /\ s.id = NextRevision(r) /\ s.generation = r.generation
                               /\ s.acknowledged_by = {}
                               /\ s.threads = SelectedThreads(r, a)
                               /\ s.messages = {m \in r.messages :
                                     \E t \in SelectedThreads(r, a) : t.id = m.thread}
                               /\ Submit(r, a).submissions = r.submissions \cup {s}
<1> DEFINE threads == SelectedThreads(r, a)
           messages == {m \in r.messages : \E t \in threads : t.id = m.thread}
           submission == [id |-> NextRevision(r), generation |-> r.generation,
                          threads |-> threads, messages |-> messages, acknowledged_by |-> {}]
<1>1. threads \in SUBSET Thread /\ messages \in SUBSET Message
  BY DEF SelectedThreads, Review
<1>2. Submit(r, a) = [r EXCEPT !.submissions = @ \cup {submission}]
  BY DEF Submit
<1> HIDE DEF threads, messages
<1>3. submission \in Submission
  BY <1>1 DEF Submission, Review, NextRevision
<1>4. /\ submission.id = NextRevision(r) /\ submission.generation = r.generation
      /\ submission.acknowledged_by = {}
      /\ submission.threads = threads /\ submission.messages = messages
  OBVIOUS
<1> HIDE DEF submission
<1>5. Submit(r, a).submissions = r.submissions \cup {submission}
  BY <1>2 DEF Review
<1> QED  BY <1>3, <1>4, <1>5 DEF threads, messages

LEMMA FirstResultTypes ==
  ASSUME NEW r \in Review, NEW req \in Calls
  PROVE  FirstResult(r, Apply(r, req), req) \in Result
<1> DEFINE applied == Apply(r, req)
<1>1. applied \in Review
  BY ApplyTypes
<1>2. NextRevision(r) \in Nat
  BY DEF NextRevision, Review
<1>3. CASE req.method = "feedback.submit"
  <2>1. applied = Submit(r, req.args)
    BY <1>3 DEF Apply
  <2>2. \E s \in applied.submissions : s.id = NextRevision(r)
    BY <2>1, SubmittedNow
  <2>3. (CHOOSE x \in applied.submissions : x.id = NextRevision(r)) \in applied.submissions
    BY <2>2
  <2> HIDE DEF applied
  <2>4. (CHOOSE x \in applied.submissions : x.id = NextRevision(r)) \in Submission
    BY <1>1, <2>3 DEF Review
  <2> QED  BY <1>1, <1>2, <1>3, <2>4 DEF FirstResult, Result, Review, applied
<1>4. CASE req.method # "feedback.submit"
  <2> HIDE DEF applied
  <2> QED  BY <1>1, <1>2, <1>4 DEF FirstResult, Result, Review, applied
<1> QED  BY <1>3, <1>4

LEMMA AnchorTypes ==
  ASSUME NEW r \in Review, NEW req \in Calls
  PROVE  AssertedAnchors(r, req) \subseteq Nat \X File
<1> DEFINE a == req.args
<1>0. HasArgs(req.method, a)
  BY RequestTypes
<1> HIDE DEF a
<1>1. CASE req.method = "comment.add"
  <2>1. a.file \in File
    BY <1>0, <1>1 DEF HasArgs
  <2> QED  BY <1>1, <2>1 DEF AssertedAnchors, NextRevision, Review, a
<1>2. CASE req.method = "review.reanchor"
  <2>1. IsAnchorUpdates(a.updates)
    BY <1>0, <1>2 DEF HasArgs
  <2>2. \A id \in DOMAIN a.updates : id \in Nat /\ a.updates[id].file \in File
    BY <2>1 DEF IsAnchorUpdates
  <2>3. AssertedAnchors(r, req) = {<<id, a.updates[id].file>> : id \in DOMAIN a.updates}
    BY <1>2 DEF AssertedAnchors, a
  <2> QED  BY <2>2, <2>3
<1>3. CASE req.method \notin {"comment.add", "review.reanchor"}
  BY <1>3 DEF AssertedAnchors
<1> QED  BY <1>1, <1>2, <1>3

LEMMA AssertedProgressTypes ==
  ASSUME NEW req \in Calls
  PROVE  AssertedProgress(req) = NONE \/ AssertedProgress(req) \in ProgressArgs
<1>0. HasArgs(req.method, req.args)
  BY RequestTypes
<1>1. CASE req.method = "review.progress"
  BY <1>0, <1>1 DEF HasArgs, AssertedProgress
<1>2. CASE req.method = "review.reanchor"
  BY <1>0, <1>2 DEF HasArgs, AssertedProgress
<1>3. CASE req.method \notin {"review.progress", "review.reanchor"}
  BY <1>3 DEF AssertedProgress
<1> QED  BY <1>1, <1>2, <1>3

LEMMA MarkTypes ==
  ASSUME NEW req \in Calls
  PROVE  AssertedMarks(req) \subseteq File \X (Hunk \cup {0})
<1> DEFINE a == AssertedProgress(req)
<1>1. a = NONE \/ a \in ProgressArgs
  BY AssertedProgressTypes
<1> HIDE DEF a
<1>2. CASE a = NONE
  BY <1>2 DEF AssertedMarks, a
<1>3. CASE a # NONE /\ a.file # NONE
  <2>1. AssertedMarks(req) = IF a.reviewed THEN {<<a.file, 0>>} ELSE {}
    BY <1>3 DEF AssertedMarks, a
  <2> QED  BY <1>1, <1>3, <2>1 DEF ProgressArgs
<1>4. CASE a # NONE /\ a.file = NONE
  <2> DEFINE files == Given(a.reviewed_files, {})
             hunks == Given(a.reviewed_hunks, {})
  <2>1. files \subseteq File /\ hunks \subseteq File \X Hunk
    BY <1>1, <1>4 DEF ProgressArgs, Lists, Given
  <2>2. AssertedMarks(req) = {<<f, 0>> : f \in files} \cup hunks
    BY <1>4 DEF AssertedMarks, a
  <2> HIDE DEF files, hunks
  <2> QED  BY <2>1, <2>2
<1> QED  BY <1>2, <1>3, <1>4

LEMMA RememberTypes ==
  ASSUME NEW r \in Review, NEW req \in Calls
  PROVE  Remember(r, Apply(r, req), req) \in History
<1> DEFINE applied == Apply(r, req)
           anchors == AssertedAnchors(r, req)
           marks == AssertedMarks(req)
           result == FirstResult(r, applied, req)
           h == Remember(r, applied, req)
<1>1. applied.patch \in Patch /\ r.history \in History
  BY ApplyTypes DEF Review
<1>2. anchors \subseteq Nat \X File /\ marks \subseteq File \X (Hunk \cup {0})
  BY AnchorTypes, MarkTypes
<1>3. result \in Result /\ req.mid \in MutationId
  BY FirstResultTypes, RequestTypes
<1>4. h = [anchored |-> {x \in r.history.anchored : \A a \in anchors : a[1] # x[1]}
                        \cup {<<a[1], Sections[applied.patch][a[2]]>> : a \in anchors},
           marked |-> {x \in r.history.marked : x[1] \notin marks}
                        \cup {<<m, Sections[applied.patch][m[1]]>> : m \in marks},
           judged |-> IF SetsVerdict(req) THEN applied.patch ELSE r.history.judged,
           results |-> r.history.results \cup {[mid |-> req.mid, result |-> result]}]
  BY DEF Remember
<1> HIDE DEF applied, anchors, marks, result, h
<1>5. \A f \in File : Sections[applied.patch][f] \in Section \cup {NONE}
  BY <1>1, SectionTypes
<1>6. {<<a[1], Sections[applied.patch][a[2]]>> : a \in anchors} \subseteq Nat \X (Section \cup {NONE})
  BY <1>2, <1>5
<1>7. {<<m, Sections[applied.patch][m[1]]>> : m \in marks}
         \subseteq (File \X (Hunk \cup {0})) \X (Section \cup {NONE})
  BY <1>2, <1>5
<1>8. h.anchored \subseteq Nat \X (Section \cup {NONE})
  BY <1>1, <1>4, <1>6 DEF History
<1>9. h.marked \subseteq (File \X (Hunk \cup {0})) \X (Section \cup {NONE})
  BY <1>1, <1>4, <1>7 DEF History
<1>10. h.judged \in Patch \cup {NONE}
  BY <1>1, <1>4 DEF History
<1>11. h.results \subseteq [mid: MutationId, result: Result]
  BY <1>1, <1>3, <1>4 DEF History
<1>12. h = [anchored |-> h.anchored, marked |-> h.marked, judged |-> h.judged, results |-> h.results]
  BY <1>4
<1> QED  BY <1>8, <1>9, <1>10, <1>11, <1>12 DEF History, h, applied

LEMMA ReceiptTypes ==
  ASSUME NEW r \in Review, NEW req \in Calls, NEW applied \in Review
  PROVE  MakeReceipt(r, applied, req) \in Receipt
<1>1. req.mid \in MutationId
  BY RequestTypes
<1>2. NextRevision(r) \in Nat /\ applied.generation \in Nat
  BY DEF NextRevision, Review
<1> QED  BY <1>1, <1>2 DEF MakeReceipt, Receipt

(* A commit is the handler's record in a new envelope. *)
LEMMA CommitFields ==
  ASSUME NEW r \in Review, NEW req \in Calls
  PROVE  LET applied == Apply(r, req)
             n == Commit(r, req)
         IN  /\ n \in Review
             /\ n.binding = r.binding /\ n.source = r.source
             /\ n.generation = applied.generation /\ n.patch = applied.patch
             /\ n.threads = applied.threads /\ n.messages = applied.messages
             /\ n.submissions = applied.submissions /\ n.last_return = applied.last_return
             /\ n.reviewed_files = applied.reviewed_files
             /\ n.reviewed_hunks = applied.reviewed_hunks /\ n.verdict = applied.verdict
             /\ n.revision = r.revision + 1
             /\ n.changes = Logged(r.changes, [revision |-> r.revision + 1, kind |-> req.method,
                                               generation |-> applied.generation])
             /\ n.mutations = r.mutations \cup {MakeReceipt(r, applied, req)}
             /\ n.history = Remember(r, applied, req)
<1> DEFINE applied == Apply(r, req)
           change == [revision |-> NextRevision(r), kind |-> req.method,
                      generation |-> applied.generation]
           revision == NextRevision(r)
           changes == Logged(applied.changes, change)
           mutations == applied.mutations \cup {MakeReceipt(r, applied, req)}
           history == Remember(r, applied, req)
           n == Commit(r, req)
<1>1. applied \in Review /\ SameEnvelope(applied, r)
  BY ApplyTypes
<1>2. history \in History
  BY RememberTypes
<1>3. n = [applied EXCEPT !.revision = revision, !.changes = changes, !.mutations = mutations,
                          !.history = history]
  BY DEF Commit
<1>4. revision \in Nat /\ revision = r.revision + 1
  BY DEF NextRevision, Review
<1>5. req.method \in Methods
  BY RequestTypes
<1> HIDE DEF applied
<1>6. change \in Change
  BY <1>1, <1>4, <1>5 DEF Change, Review
<1>7. changes \in Seq(Change)
  BY <1>1, <1>6, LoggedTypes DEF Review
<1>8. mutations \in SUBSET Receipt
  <2>1. applied.mutations \in SUBSET Receipt
    BY <1>1 DEF Review
  <2>2. MakeReceipt(r, applied, req) \in Receipt
    BY <1>1, ReceiptTypes
  <2> QED  BY <2>1, <2>2
<1>9. /\ changes = Logged(r.changes, [revision |-> r.revision + 1, kind |-> req.method,
                                      generation |-> applied.generation])
      /\ mutations = r.mutations \cup {MakeReceipt(r, applied, req)}
  BY <1>1, <1>4 DEF SameEnvelope
<1> HIDE DEF revision, changes, mutations, history, n
<1>10. n \in Review
  BY <1>1, <1>2, <1>3, <1>4, <1>7, <1>8 DEF Review
<1>11. /\ n.binding = applied.binding /\ n.source = applied.source
       /\ n.generation = applied.generation /\ n.patch = applied.patch
       /\ n.threads = applied.threads /\ n.messages = applied.messages
       /\ n.submissions = applied.submissions /\ n.last_return = applied.last_return
       /\ n.reviewed_files = applied.reviewed_files
       /\ n.reviewed_hunks = applied.reviewed_hunks /\ n.verdict = applied.verdict
       /\ n.revision = revision /\ n.changes = changes /\ n.mutations = mutations
       /\ n.history = history
  BY <1>1, <1>3 DEF Review
<1> QED  BY <1>1, <1>4, <1>9, <1>10, <1>11 DEF SameEnvelope, n, applied, history

---------------------------------------------------------------------------
(* Submissions: identified by their id, and never changed but for who       *)
(* acknowledged them.                                                       *)

SubmissionIds(r) ==
    /\ r.revision >= 1
    /\ \A s, t \in r.submissions : s.id = t.id => s = t
    /\ \A s \in r.submissions : s.id <= r.revision

SameDelivery(e, s) ==
    /\ e.id = s.id /\ e.generation = s.generation
    /\ e.threads = s.threads /\ e.messages = s.messages
    /\ s.acknowledged_by \subseteq e.acknowledged_by

LEMMA SubmissionsKept ==
  ASSUME NEW r \in Review, NEW req \in Calls
  PROVE  LET n == Apply(r, req)
         IN  /\ \A s \in r.submissions : \E e \in n.submissions : SameDelivery(e, s)
             /\ \A e \in n.submissions :
                   \/ \E s \in r.submissions : SameDelivery(e, s)
                   \/ /\ req.method = "feedback.submit"
                      /\ e.id = r.revision + 1 /\ e.generation = r.generation
                      /\ e.acknowledged_by = {}
<1> DEFINE a == req.args
           n == Apply(r, req)
<1>1. CASE req.method \notin {"feedback.submit", "feedback.ack"}
  <2>1. n.submissions = r.submissions
    BY <1>1, ApplyEffects DEF Effects
  <2> HIDE DEF n
  <2> QED  BY <2>1 DEF SameDelivery, n
<1>2. CASE req.method = "feedback.submit"
  <2>1. n = Submit(r, a)
    BY <1>2 DEF Apply
  <2>2. PICK new : /\ new.id = r.revision + 1 /\ new.generation = r.generation
                   /\ new.acknowledged_by = {} /\ n.submissions = r.submissions \cup {new}
    BY <2>1, SubmittedNow DEF NextRevision
  <2> HIDE DEF n
  <2> QED  BY <1>2, <2>2 DEF SameDelivery, n
<1>3. CASE req.method = "feedback.ack"
  <2>1. n = Acknowledge(r, a)
    BY <1>3 DEF Apply
  <2>2. a.consumer \in Consumer
    BY <1>3, RequestTypes DEF HasArgs
  <2> DEFINE seen(s) == [s EXCEPT !.acknowledged_by = @ \cup {a.consumer}]
  <2>3. n.submissions = {IF s.id = a.submission THEN seen(s) ELSE s : s \in r.submissions}
    BY <2>1, <2>2, AcknowledgeTypes
  <2>4. \A s \in r.submissions : SameDelivery(seen(s), s) /\ SameDelivery(s, s)
    BY DEF SameDelivery, Review, Submission
  <2> HIDE DEF n, seen
  <2> QED  BY <2>3, <2>4 DEF n
<1> QED  BY <1>1, <1>2, <1>3

LEMMA SubmissionIdsKept ==
  ASSUME NEW r \in Review, NEW req \in Calls, SubmissionIds(r)
  PROVE  SubmissionIds(Commit(r, req))
<1> DEFINE n == Apply(r, req)
           c == Commit(r, req)
<1>1. c.revision = r.revision + 1 /\ c.submissions = n.submissions /\ r.revision \in Nat
  BY CommitFields DEF Review
<1>2. \A s \in r.submissions : s.id \in Nat
  BY DEF Review, Submission
<1>3. \A s, t \in n.submissions : s.id = t.id => s = t
  <2>1. CASE req.method \notin {"feedback.submit", "feedback.ack"}
    BY <2>1, ApplyEffects DEF Effects, SubmissionIds
  <2>2. CASE req.method = "feedback.submit"
    <3>1. PICK new : new.id = r.revision + 1 /\ n.submissions = r.submissions \cup {new}
      <4>1. n = Submit(r, req.args)
        BY <2>2 DEF Apply
      <4> QED  BY <4>1, SubmittedNow DEF NextRevision
    <3> HIDE DEF n
    <3> QED  BY <1>1, <1>2, <3>1 DEF SubmissionIds
  <2>3. CASE req.method = "feedback.ack"
    <3> DEFINE a == req.args
               seen(s) == [s EXCEPT !.acknowledged_by = @ \cup {a.consumer}]
    <3>1. n.submissions = {IF s.id = a.submission THEN seen(s) ELSE s : s \in r.submissions}
      <4>1. n = Acknowledge(r, a)
        BY <2>3 DEF Apply
      <4>2. a.consumer \in Consumer
        BY <2>3, RequestTypes DEF HasArgs
      <4> QED  BY <4>1, <4>2, AcknowledgeTypes
    <3>2. \A s \in r.submissions : seen(s).id = s.id
      BY DEF Review, Submission
    <3> HIDE DEF n, seen
    <3> QED  BY <3>1, <3>2 DEF SubmissionIds
  <2> QED  BY <2>1, <2>2, <2>3
<1>4. \A s \in n.submissions : s.id <= r.revision + 1
  BY <1>1, <1>2, SubmissionsKept DEF SameDelivery, SubmissionIds
<1> HIDE DEF n, c
<1> QED  BY <1>1, <1>3, <1>4 DEF SubmissionIds, c

---------------------------------------------------------------------------
(* Receipts and the change log *)

Receipts(r) ==
    /\ \A v \in 2..r.revision : \E x \in r.mutations : x.revision = v
    /\ \A x \in r.mutations : x.revision \in 2..r.revision
    /\ \A x, y \in r.mutations : x.revision = y.revision => x = y

LEMMA ReceiptsKept ==
  ASSUME NEW r \in Review, NEW req \in Calls, SubmissionIds(r), Receipts(r)
  PROVE  Receipts(Commit(r, req))
<1> DEFINE c == Commit(r, req)
           new == MakeReceipt(r, Apply(r, req), req)
<1>1. /\ c.revision = r.revision + 1 /\ c.mutations = r.mutations \cup {new}
      /\ r.revision \in Nat /\ r.revision >= 1
  BY CommitFields DEF Review, SubmissionIds
<1>2. new.revision = r.revision + 1
  BY DEF MakeReceipt, NextRevision
<1> HIDE DEF c, new
<1>3. ASSUME NEW v \in 2..c.revision PROVE \E x \in c.mutations : x.revision = v
  <2>1. CASE v = r.revision + 1
    BY <1>1, <1>2, <2>1
  <2>2. CASE v # r.revision + 1
    <3>1. v \in 2..r.revision
      BY <1>1, <2>2
    <3> QED  BY <1>1, <3>1 DEF Receipts
  <2> QED  BY <2>1, <2>2
<1>4. \A x \in c.mutations : x.revision \in 2..c.revision
  BY <1>1, <1>2 DEF Receipts
<1>5. \A x, y \in c.mutations : x.revision = y.revision => x = y
  BY <1>1, <1>2 DEF Receipts
<1> QED  BY <1>3, <1>4, <1>5 DEF Receipts, c

ChangeLog(r) ==
    /\ Len(r.changes) = (IF r.revision < MaxChanges THEN r.revision ELSE MaxChanges)
    /\ \A k \in DOMAIN r.changes : r.changes[k].revision = r.revision - Len(r.changes) + k

LEMMA ChangeLogKept ==
  ASSUME NEW r \in Review, NEW req \in Calls, SubmissionIds(r), ChangeLog(r)
  PROVE  ChangeLog(Commit(r, req))
<1> DEFINE c == Commit(r, req)
           old == r.changes
           change == [revision |-> r.revision + 1, kind |-> req.method,
                      generation |-> Apply(r, req).generation]
<1>1. /\ c.revision = r.revision + 1 /\ c.changes = Logged(old, change)
      /\ r.revision \in Nat /\ r.revision >= 1 /\ old \in Seq(Change)
  BY CommitFields DEF Review, SubmissionIds
<1>2. change.revision = r.revision + 1
  OBVIOUS
<1>3. MaxChanges \in Nat \ {0}
  BY RecordAssumption DEF Limits
<1>4. change \in Change
  <2>1. Apply(r, req).generation \in Nat /\ req.method \in Methods
    BY ApplyTypes, RequestTypes DEF Review
  <2> QED  BY <1>1, <2>1 DEF Change
<1>5. /\ Len(old) = (IF r.revision < MaxChanges THEN r.revision ELSE MaxChanges)
      /\ \A k \in 1..Len(old) : old[k].revision = r.revision - Len(old) + k
  BY <1>1 DEF ChangeLog
<1> HIDE DEF c, change, old
<1> DEFINE full == Append(old, change)
<1>6. /\ full \in Seq(Change) /\ Len(full) = Len(old) + 1
      /\ \A k \in 1..Len(full) : full[k].revision = r.revision - Len(old) + k
  BY <1>1, <1>2, <1>4, <1>5
<1>7. CASE Len(old) >= MaxChanges
  <2>1. c.changes = Tail(full)
    BY <1>1, <1>7 DEF Logged
  <2> HIDE DEF full
  <2>2. /\ Len(Tail(full)) = Len(old) /\ DOMAIN Tail(full) = 1..Len(old)
        /\ \A k \in 1..Len(old) : Tail(full)[k] = full[k + 1]
    BY <1>1, <1>6
  <2> DEFINE last == Tail(full)
  <2> HIDE DEF last
  <2>3. Len(old) = MaxChanges /\ r.revision >= MaxChanges
    BY <1>1, <1>3, <1>5, <1>7
  <2>4. ASSUME NEW k \in 1..Len(old)
        PROVE  last[k].revision = (r.revision + 1) - MaxChanges + k
    <3>1. last[k] = full[k + 1] /\ k + 1 \in 1..Len(full)
      BY <1>3, <1>6, <2>2, <2>3 DEF last
    <3>2. full[k + 1].revision = r.revision - Len(old) + (k + 1)
      BY <1>6, <3>1
    <3>3. r.revision - MaxChanges + (k + 1) = (r.revision + 1) - MaxChanges + k
      BY <1>1, <1>3
    <3> QED  BY <2>3, <3>1, <3>2, <3>3
  <2>5. c.changes = last /\ Len(last) = MaxChanges /\ DOMAIN last = 1..Len(old)
    BY <2>1, <2>2, <2>3 DEF last
  <2> QED  BY <1>1, <1>3, <2>3, <2>4, <2>5 DEF ChangeLog, c
<1>8. CASE Len(old) < MaxChanges
  <2>1. c.changes = full
    BY <1>1, <1>3, <1>5, <1>8 DEF Logged
  <2> HIDE DEF full
  <2>2. DOMAIN full = 1..Len(full)
    BY <1>6
  <2> QED  BY <1>1, <1>3, <1>5, <1>6, <1>8, <2>1, <2>2 DEF ChangeLog, c
<1> QED  BY <1>1, <1>3, <1>7, <1>8

---------------------------------------------------------------------------
(* Replay: a receipt's result is what was answered first, because the       *)
(* submission it refers to is still there and differs at most in who        *)
(* acknowledged it.                                                         *)

Replayable(r) ==
    \A x \in r.mutations :
        /\ [mid |-> x.mid, result |-> ReceiptResult(r, x)] \in r.history.results
        /\ x.submission_ref # NONE => \E s \in r.submissions : s.id = x.submission_ref

Unacknowledged(s) == [s EXCEPT !.acknowledged_by = {}]

LEMMA SameUnacknowledged ==
  ASSUME NEW s \in Submission, NEW e \in Submission, SameDelivery(e, s)
  PROVE  Unacknowledged(e) = Unacknowledged(s)
  BY DEF SameDelivery, Unacknowledged, Submission

LEMMA ChosenSubmission ==
  ASSUME NEW r \in Review, SubmissionIds(r), NEW s \in r.submissions
  PROVE  (CHOOSE e \in r.submissions : e.id = s.id) = s
  BY DEF SubmissionIds

LEMMA OldResultKept ==
  ASSUME NEW r \in Review, NEW req \in Calls, SubmissionIds(r), Replayable(r),
         NEW x \in r.mutations
  PROVE  LET c == Commit(r, req)
         IN  /\ ReceiptResult(c, x) = ReceiptResult(r, x)
             /\ x.submission_ref # NONE => \E s \in c.submissions : s.id = x.submission_ref
<1> DEFINE c == Commit(r, req)
<1>1. c \in Review /\ SubmissionIds(c) /\ c.submissions = Apply(r, req).submissions
  BY CommitFields, SubmissionIdsKept
<1>2. \A s \in r.submissions : \E e \in c.submissions : SameDelivery(e, s)
  BY <1>1, SubmissionsKept
<1> HIDE DEF c
<1>3. CASE x.submission_ref = NONE
  BY <1>3 DEF ReceiptResult, c
<1>4. CASE x.submission_ref # NONE
  <2>1. PICK s \in r.submissions : s.id = x.submission_ref
    BY <1>4 DEF Replayable
  <2>2. PICK e \in c.submissions : SameDelivery(e, s)
    BY <1>2
  <2>3. (CHOOSE y \in r.submissions : y.id = x.submission_ref) = s
    BY <2>1, ChosenSubmission
  <2>4. (CHOOSE y \in c.submissions : y.id = x.submission_ref) = e
    BY <1>1, <2>1, <2>2, ChosenSubmission DEF SameDelivery
  <2>5. s \in Submission /\ e \in Submission
    BY <1>1 DEF Review
  <2>6. Unacknowledged(e) = Unacknowledged(s)
    BY <2>2, <2>5, SameUnacknowledged
  <2>7. /\ ReceiptResult(r, x) = [generation |-> x.generation, revision |-> x.revision,
                                  submission |-> Unacknowledged(s)]
        /\ ReceiptResult(c, x) = [generation |-> x.generation, revision |-> x.revision,
                                  submission |-> Unacknowledged(e)]
    BY <1>4, <2>3, <2>4 DEF ReceiptResult, Unacknowledged
  <2>8. e.id = x.submission_ref
    BY <2>1, <2>2 DEF SameDelivery
  <2> QED  BY <2>6, <2>7, <2>8 DEF c
<1> QED  BY <1>3, <1>4

LEMMA NewResultKept ==
  ASSUME NEW r \in Review, NEW req \in Calls, SubmissionIds(r)
  PROVE  LET c == Commit(r, req)
             x == MakeReceipt(r, Apply(r, req), req)
         IN  /\ ReceiptResult(c, x) = FirstResult(r, Apply(r, req), req)
             /\ x.submission_ref # NONE => \E s \in c.submissions : s.id = x.submission_ref
<1> DEFINE n == Apply(r, req)
           c == Commit(r, req)
           x == MakeReceipt(r, n, req)
<1>1. c \in Review /\ SubmissionIds(c) /\ c.submissions = n.submissions
  BY CommitFields, SubmissionIdsKept
<1>2. x.generation = n.generation /\ x.revision = NextRevision(r)
  BY DEF MakeReceipt
<1>3. CASE req.method # "feedback.submit"
  <2>1. x.submission_ref = NONE
    BY <1>3 DEF MakeReceipt
  <2> HIDE DEF n, c, x
  <2> QED  BY <1>2, <1>3, <2>1 DEF ReceiptResult, FirstResult, n, c, x
<1>4. CASE req.method = "feedback.submit"
  <2>1. x.submission_ref = NextRevision(r) /\ NextRevision(r) \in Nat
    BY <1>4 DEF MakeReceipt, NextRevision, Review
  <2>2. x.submission_ref # NONE
    BY <2>1, RecordAssumption
  <2>3. PICK s \in n.submissions : s.id = NextRevision(r) /\ s.acknowledged_by = {}
    <3>1. n = Submit(r, req.args)
      BY <1>4 DEF Apply
    <3> QED  BY <3>1, SubmittedNow
  <2>4. s \in Submission
    BY <1>1, <2>3 DEF Review
  <2> HIDE DEF n, c, x
  <2>5. (CHOOSE e \in c.submissions : e.id = NextRevision(r)) = s
    BY <1>1, <2>3, ChosenSubmission
  <2>6. Unacknowledged(s) = s
    BY <2>3, <2>4 DEF Unacknowledged, Submission
  <2>7. ReceiptResult(c, x) = [generation |-> n.generation, revision |-> NextRevision(r),
                               submission |-> Unacknowledged(s)]
    BY <1>2, <2>1, <2>2, <2>5 DEF ReceiptResult, Unacknowledged
  <2>8. FirstResult(r, n, req) = [generation |-> n.generation, revision |-> NextRevision(r),
                                  submission |-> s]
    BY <1>1, <1>4, <2>5 DEF FirstResult
  <2> QED  BY <1>1, <2>1, <2>3, <2>6, <2>7, <2>8 DEF n, c, x
<1> QED  BY <1>3, <1>4

LEMMA ReplayableKept ==
  ASSUME NEW r \in Review, NEW req \in Calls, SubmissionIds(r), Replayable(r)
  PROVE  Replayable(Commit(r, req))
<1> DEFINE c == Commit(r, req)
           new == MakeReceipt(r, Apply(r, req), req)
           result == FirstResult(r, Apply(r, req), req)
<1>1. c.mutations = r.mutations \cup {new} /\ c.history = Remember(r, Apply(r, req), req)
  BY CommitFields
<1>2. Remember(r, Apply(r, req), req).results
        = r.history.results \cup {[mid |-> req.mid, result |-> result]}
  BY DEF Remember
<1>3. new.mid = req.mid
  BY DEF MakeReceipt
<1>4. /\ ReceiptResult(c, new) = result
      /\ new.submission_ref # NONE => \E s \in c.submissions : s.id = new.submission_ref
  BY NewResultKept
<1>5. \A x \in r.mutations :
         /\ ReceiptResult(c, x) = ReceiptResult(r, x)
         /\ x.submission_ref # NONE => \E s \in c.submissions : s.id = x.submission_ref
  BY OldResultKept
<1> HIDE DEF c, new, result
<1>6. c.history.results = r.history.results \cup {[mid |-> req.mid, result |-> result]}
  BY <1>1, <1>2
<1> QED  BY <1>1, <1>3, <1>4, <1>5, <1>6 DEF Replayable, c

---------------------------------------------------------------------------
(* Evidence: live threads, review marks, verdict and return.                *)

OnEvidence(r) ==
    \A t \in r.threads :
        /\ t.id <= r.revision
        /\ ~t.stale => /\ t.generation = r.generation
                       /\ <<t.id, Sections[r.patch][t.file]>> \in r.history.anchored

(* A pair survives Remember unless its thread is anchored again. *)
LEMMA AnchorsAfter ==
  ASSUME NEW r \in Review, NEW req \in Calls
  PROVE  LET c == Commit(r, req)
             anchors == AssertedAnchors(r, req)
         IN  /\ \A x \in r.history.anchored :
                   (\A a \in anchors : a[1] # x[1]) => x \in c.history.anchored
             /\ \A a \in anchors : <<a[1], Sections[c.patch][a[2]]>> \in c.history.anchored
<1> DEFINE n == Apply(r, req)
           c == Commit(r, req)
           anchors == AssertedAnchors(r, req)
<1>1. c.history = Remember(r, n, req) /\ c.patch = n.patch
  BY CommitFields
<1>2. Remember(r, n, req).anchored
        = {x \in r.history.anchored : \A a \in anchors : a[1] # x[1]}
            \cup {<<a[1], Sections[n.patch][a[2]]>> : a \in anchors}
  BY DEF Remember
<1> HIDE DEF n, c, anchors
<1> QED  BY <1>1, <1>2 DEF n, c, anchors

LEMMA OnEvidenceKept ==
  ASSUME NEW r \in Review, NEW req \in Calls, OnEvidence(r)
  PROVE  OnEvidence(Commit(r, req))
<1> DEFINE a == req.args
           n == Apply(r, req)
           c == Commit(r, req)
           anchors == AssertedAnchors(r, req)
           Fine(t) == /\ t.id <= c.revision
                      /\ ~t.stale => /\ t.generation = c.generation
                                     /\ <<t.id, Sections[c.patch][t.file]>> \in c.history.anchored
<1>1. /\ c.revision = r.revision + 1 /\ c.threads = n.threads
      /\ c.generation = n.generation /\ c.patch = n.patch
      /\ r.revision \in Nat
  BY CommitFields DEF Review
<1>2. \A t \in r.threads : t \in Thread /\ t.id \in Nat /\ t.id <= r.revision
  BY DEF Review, Thread, OnEvidence
<1>3. \A x \in r.history.anchored :
         (\A b \in anchors : b[1] # x[1]) => x \in c.history.anchored
  BY AnchorsAfter
<1>4. \A b \in anchors : <<b[1], Sections[c.patch][b[2]]>> \in c.history.anchored
  BY AnchorsAfter
<1>5. SUFFICES \A t \in n.threads : Fine(t)
  BY <1>1 DEF OnEvidence
(* A thread whose anchor, staleness and file stay, on the same snapshot. *)
<1>6. ASSUME NEW t \in r.threads, SameSnapshot(n, r), \A b \in anchors : b[1] # t.id
      PROVE  Fine(t)
  <2> HIDE DEF n, c, anchors
  <2> QED  BY <1>1, <1>2, <1>3, <1>6 DEF OnEvidence, SameSnapshot
<1>7. CASE req.method = "review.refresh"
  <2> DEFINE retained == UnchangedPaths(r.patch, a.patch)
             g == r.generation + 1
  <2>1. n = Refresh(r, a)
    BY <1>7 DEF Apply
  <2>2. a.patch \in Patch
    BY <1>7, RequestTypes DEF HasArgs
  <2>3. anchors = {}
    BY <1>7 DEF AssertedAnchors
  <2>4. CASE a.patch = r.patch
    <3>1. n = r
      BY <2>1, <2>2, <2>4, RefreshTypes
    <3>2. SameSnapshot(n, r)
      BY <3>1 DEF SameSnapshot
    <3> QED  BY <1>6, <2>3, <3>1, <3>2
  <2>5. CASE a.patch # r.patch
    <3>1. /\ n.threads = {CarryThread(t, retained, g) : t \in r.threads}
          /\ n.patch = a.patch /\ n.generation = g
      BY <2>1, <2>2, <2>5, RefreshTypes
    <3>2. ASSUME NEW t \in r.threads PROVE Fine(CarryThread(t, retained, g))
      <4> DEFINE u == CarryThread(t, retained, g)
      <4>1. u.id = t.id /\ u.file = t.file
        BY <1>2 DEF CarryThread, Thread
      <4>2. ~u.stale => /\ ~t.stale /\ t.file \in retained /\ u.generation = g
        BY <1>2 DEF CarryThread, Thread
      <4> HIDE DEF u
      <4>3. t.file \in retained => Sections[a.patch][t.file] = Sections[r.patch][t.file]
        BY DEF UnchangedPaths
      <4> HIDE DEF n, c, anchors, retained, g
      <4>4. ~u.stale => <<u.id, Sections[c.patch][u.file]>> \in c.history.anchored
        BY <1>1, <1>3, <2>3, <3>1, <4>1, <4>2, <4>3 DEF OnEvidence
      <4> QED  BY <1>1, <1>2, <3>1, <4>1, <4>2, <4>4 DEF u
    <3> HIDE DEF Fine, n
    <3> QED  BY <3>1, <3>2
  <2> QED  BY <2>4, <2>5
<1>8. CASE req.method = "comment.add"
  <2> DEFINE new == [id |-> r.revision + 1, file |-> a.file, generation |-> r.generation,
                     stale |-> FALSE, disposition |-> "open"]
  <2>1. n = AddComment(r, a)
    BY <1>8 DEF Apply
  <2>2. a \in [file: File, origin: Origin, body: Body]
    BY <1>8, RequestTypes DEF HasArgs
  <2>3. n.threads = r.threads \cup {new} /\ SameSnapshot(n, r)
    BY <2>1, <2>2, AddTypes
  <2>4. anchors = {<<r.revision + 1, a.file>>}
    BY <1>8 DEF AssertedAnchors, NextRevision
  <2>5. Fine(new)
    <3> HIDE DEF n, c, anchors
    <3> QED  BY <1>1, <1>4, <2>3, <2>4 DEF SameSnapshot
  <2>6. ASSUME NEW t \in r.threads PROVE Fine(t)
    <3>1. t.id # r.revision + 1
      BY <1>1, <1>2
    <3>2. \A b \in anchors : b[1] # t.id
      BY <2>4, <3>1
    <3> QED  BY <1>6, <2>3, <3>2
  <2> HIDE DEF Fine, n
  <2> QED  BY <2>3, <2>5, <2>6
<1>9. CASE req.method = "review.reanchor"
  <2> DEFINE u == a.updates
             moved(t) == [t EXCEPT !.file = u[t.id].file, !.stale = u[t.id].stale,
                                   !.generation = r.generation]
  <2>1. n = Reanchor(r, a)
    BY <1>9 DEF Apply
  <2>2. IsAnchorUpdates(u) /\ (a.progress = NONE \/ a.progress \in ProgressArgs)
    BY <1>9, RequestTypes DEF HasArgs
  <2>3. /\ n.threads = {IF t.id \in DOMAIN u THEN moved(t) ELSE t : t \in r.threads}
        /\ SameSnapshot(n, r)
    BY <2>1, <2>2, ReanchorTypes
  <2>4. anchors = {<<id, u[id].file>> : id \in DOMAIN u}
    BY <1>9 DEF AssertedAnchors
  <2>5. ASSUME NEW t \in r.threads, t.id \in DOMAIN u PROVE Fine(moved(t))
    <3>1. /\ moved(t).id = t.id /\ moved(t).file = u[t.id].file
          /\ moved(t).generation = r.generation
      BY <1>2 DEF Thread
    <3>2. <<t.id, Sections[c.patch][u[t.id].file]>> \in c.history.anchored
      <4>1. <<t.id, u[t.id].file>> \in anchors
        BY <2>4, <2>5
      <4> HIDE DEF c, anchors
      <4> QED  BY <1>4, <4>1
    <3> HIDE DEF n, c, moved
    <3>3. c.generation = r.generation /\ c.revision = r.revision + 1
      BY <1>1, <2>3 DEF SameSnapshot
    <3>4. t.id <= c.revision
      <4>1. t.id \in Nat /\ t.id <= r.revision /\ r.revision \in Nat
        BY <1>2 DEF Thread, Review
      <4> QED  BY <3>3, <4>1
    <3> QED  BY <3>1, <3>2, <3>3, <3>4
  <2>6. ASSUME NEW t \in r.threads, t.id \notin DOMAIN u PROVE Fine(t)
    <3>1. \A b \in anchors : b[1] # t.id
      BY <2>4, <2>6
    <3> QED  BY <1>6, <2>3, <3>1
  <2> HIDE DEF Fine, n, moved
  <2> QED  BY <2>3, <2>5, <2>6
<1>10. CASE req.method = "review.disposition"
  <2>1. n = Disposition(r, a)
    BY <1>10 DEF Apply
  <2>2. a.disposition \in Dispositions
    BY <1>10, RequestTypes DEF HasArgs
  <2>3. /\ SameSnapshot(n, r)
        /\ \A v \in n.threads : \E t \in r.threads :
              v.id = t.id /\ v.file = t.file /\ v.generation = t.generation /\ v.stale = t.stale
    BY <2>1, <2>2, DispositionTypes
  <2>4. anchors = {}
    BY <1>10 DEF AssertedAnchors
  <2>5. ASSUME NEW v \in n.threads PROVE Fine(v)
    <3>1. PICK t \in r.threads :
              v.id = t.id /\ v.file = t.file /\ v.generation = t.generation /\ v.stale = t.stale
      BY <2>3
    <3>2. Fine(t)
      BY <1>6, <2>3, <2>4
    <3> QED  BY <3>1, <3>2
  <2> QED  BY <2>5
<1>11. CASE req.method \notin {"review.refresh", "comment.add", "review.reanchor",
                               "review.disposition"}
  <2>1. n.threads = r.threads /\ SameSnapshot(n, r)
    BY <1>11, ApplyEffects DEF Effects
  <2>2. anchors = {}
    BY <1>11 DEF AssertedAnchors
  <2> QED  BY <1>6, <2>1, <2>2
<1> QED  BY <1>7, <1>8, <1>9, <1>10, <1>11

Items(r) == {<<f, 0>> : f \in r.reviewed_files} \cup r.reviewed_hunks

OnUnchanged(r) == \A m \in Items(r) : <<m, Sections[r.patch][m[1]]>> \in r.history.marked

LEMMA MarksAfter ==
  ASSUME NEW r \in Review, NEW req \in Calls
  PROVE  LET c == Commit(r, req)
             marks == AssertedMarks(req)
         IN  /\ \A x \in r.history.marked : x[1] \notin marks => x \in c.history.marked
             /\ \A m \in marks : <<m, Sections[c.patch][m[1]]>> \in c.history.marked
<1> DEFINE n == Apply(r, req)
           c == Commit(r, req)
           marks == AssertedMarks(req)
<1>1. c.history = Remember(r, n, req) /\ c.patch = n.patch
  BY CommitFields
<1>2. Remember(r, n, req).marked
        = {x \in r.history.marked : x[1] \notin marks}
            \cup {<<m, Sections[n.patch][m[1]]>> : m \in marks}
  BY DEF Remember
<1> HIDE DEF n, c, marks
<1> QED  BY <1>1, <1>2 DEF n, c, marks

(* Progress reviews nothing but what was reviewed and what it names. *)
LEMMA ProgressItems ==
  ASSUME NEW r \in Review, NEW a \in ProgressArgs, NEW req \in Calls, AssertedProgress(req) = a,
         a # NONE
  PROVE  Items(Progress(r, a)) \subseteq Items(r) \cup AssertedMarks(req)
<1> DEFINE n == Progress(r, a)
<1>1. CASE a.file # NONE
  <2>1. n.reviewed_files \subseteq r.reviewed_files \cup (IF a.reviewed THEN {a.file} ELSE {})
    BY <1>1, ProgressTypes
  <2>2. n.reviewed_hunks = r.reviewed_hunks
    BY <1>1, ProgressTypes
  <2>3. AssertedMarks(req) = IF a.reviewed THEN {<<a.file, 0>>} ELSE {}
    BY <1>1 DEF AssertedMarks
  <2> HIDE DEF n
  <2> QED  BY <2>1, <2>2, <2>3 DEF Items, n
<1>2. CASE a.file = NONE
  <2> DEFINE files == Given(a.reviewed_files, {})
             hunks == Given(a.reviewed_hunks, {})
  <2>1. n.reviewed_files = Given(a.reviewed_files, r.reviewed_files)
    BY <1>2, ProgressTypes
  <2>2. n.reviewed_hunks = Given(a.reviewed_hunks, r.reviewed_hunks)
    BY <1>2, ProgressTypes
  <2>3. AssertedMarks(req) = {<<f, 0>> : f \in files} \cup hunks
    BY <1>2 DEF AssertedMarks
  <2> HIDE DEF n
  <2>4. n.reviewed_files \subseteq r.reviewed_files \cup files
    BY <2>1 DEF Given
  <2>5. n.reviewed_hunks \subseteq r.reviewed_hunks \cup hunks
    BY <2>2 DEF Given
  <2> HIDE DEF files, hunks
  <2> QED  BY <2>3, <2>4, <2>5 DEF Items, n
<1> QED  BY <1>1, <1>2

LEMMA OnUnchangedKept ==
  ASSUME NEW r \in Review, NEW req \in Calls, OnUnchanged(r)
  PROVE  OnUnchanged(Commit(r, req))
<1> DEFINE a == req.args
           n == Apply(r, req)
           c == Commit(r, req)
           marks == AssertedMarks(req)
<1>1. c.patch = n.patch /\ Items(c) = Items(n)
  BY CommitFields DEF Items
<1>2. \A x \in r.history.marked : x[1] \notin marks => x \in c.history.marked
  BY MarksAfter
<1>3. \A m \in marks : <<m, Sections[c.patch][m[1]]>> \in c.history.marked
  BY MarksAfter
<1>4. ASSUME n.patch = r.patch, Items(n) \subseteq Items(r) \cup marks
      PROVE  OnUnchanged(c)
  <2> HIDE DEF n, c, marks
  <2>1. ASSUME NEW m \in Items(n), m \notin marks
        PROVE  <<m, Sections[c.patch][m[1]]>> \in c.history.marked
    <3> DEFINE x == <<m, Sections[r.patch][m[1]]>>
    <3>1. x \in r.history.marked /\ x[1] = m
      BY <1>4, <2>1 DEF OnUnchanged
    <3> QED  BY <1>1, <1>2, <1>4, <2>1, <3>1
  <2> QED  BY <1>1, <1>3, <2>1 DEF OnUnchanged
<1>5. CASE req.method = "review.refresh"
  <2> DEFINE retained == UnchangedPaths(r.patch, a.patch)
  <2>1. n = Refresh(r, a)
    BY <1>5 DEF Apply
  <2>2. a.patch \in Patch
    BY <1>5, RequestTypes DEF HasArgs
  <2>3. marks = {}
    BY <1>5 DEF AssertedMarks, AssertedProgress
  <2>4. CASE a.patch = r.patch
    <3>1. n = r
      BY <2>1, <2>2, <2>4, RefreshTypes
    <3> QED  BY <1>4, <3>1
  <2>5. CASE a.patch # r.patch
    <3>1. /\ n.patch = a.patch /\ n.reviewed_files = r.reviewed_files \cap retained
          /\ n.reviewed_hunks = {h \in r.reviewed_hunks : h[1] \in retained}
      BY <2>1, <2>2, <2>5, RefreshTypes
    <3> HIDE DEF n, c, marks
    <3>2. \A m \in Items(n) : m \in Items(r) /\ m[1] \in retained
      BY <3>1 DEF Items
    <3>3. \A f \in retained : Sections[a.patch][f] = Sections[r.patch][f]
      BY DEF UnchangedPaths
    <3> HIDE DEF retained
    <3>4. ASSUME NEW m \in Items(n)
          PROVE  <<m, Sections[c.patch][m[1]]>> \in c.history.marked
      <4> DEFINE x == <<m, Sections[r.patch][m[1]]>>
      <4>1. x \in r.history.marked /\ x \in c.history.marked
        BY <1>2, <2>3, <3>2 DEF OnUnchanged
      <4>2. Sections[c.patch][m[1]] = Sections[r.patch][m[1]]
        BY <1>1, <3>1, <3>2, <3>3
      <4> QED  BY <4>1, <4>2
    <3> QED  BY <1>1, <3>4 DEF OnUnchanged, c
  <2> QED  BY <2>4, <2>5
<1>6. CASE req.method = "review.progress"
  <2>1. n = Progress(r, a) /\ AssertedProgress(req) = a
    BY <1>6 DEF Apply, AssertedProgress
  <2>2. a \in ProgressArgs /\ a # NONE
    BY <1>6, RequestTypes DEF HasArgs
  <2>3. n.patch = r.patch
    <3>1. SameSnapshot(Progress(r, a), r)
      BY <2>2, ProgressTypes
    <3> QED  BY <2>1, <3>1 DEF SameSnapshot
  <2>4. Items(n) \subseteq Items(r) \cup marks
    BY <2>1, <2>2, ProgressItems
  <2> QED  BY <1>4, <2>3, <2>4
<1>7. CASE req.method = "review.reanchor"
  <2>1. n = Reanchor(r, a) /\ AssertedProgress(req) = a.progress
    BY <1>7 DEF Apply, AssertedProgress
  <2>2. IsAnchorUpdates(a.updates) /\ (a.progress = NONE \/ a.progress \in ProgressArgs)
    BY <1>7, RequestTypes DEF HasArgs
  <2>3. n.patch = r.patch
    <3>1. SameSnapshot(Reanchor(r, a), r)
      BY <2>2, ReanchorTypes
    <3> QED  BY <2>1, <3>1 DEF SameSnapshot
  <2>4. PICK m \in Review : /\ SameProgress(m, r)
                            /\ IF a.progress = NONE THEN n = m ELSE n = Progress(m, a.progress)
    <3>1. \E m \in Review : /\ SameProgress(m, r)
                            /\ IF a.progress = NONE THEN Reanchor(r, a) = m
                               ELSE Reanchor(r, a) = Progress(m, a.progress)
      BY <2>2, ReanchorTypes, Zenon
    <3> HIDE DEF n, a
    <3> QED  BY <2>1, <3>1
  <2>5. Items(m) = Items(r)
    BY <2>4 DEF SameProgress, Items
  <2>6. CASE a.progress = NONE
    <3>1. Items(n) = Items(r)
      BY <2>4, <2>5, <2>6
    <3> QED  BY <1>4, <2>3, <3>1
  <2>7. CASE a.progress # NONE
    <3>1. n = Progress(m, a.progress)
      BY <2>4, <2>7
    <3>2. Items(n) \subseteq Items(m) \cup marks
      BY <2>1, <2>2, <2>7, <3>1, ProgressItems
    <3> QED  BY <1>4, <2>3, <2>5, <3>2
  <2> QED  BY <2>6, <2>7
<1>8. CASE req.method \notin {"review.refresh", "review.progress", "review.reanchor"}
  <2>1. n.patch = r.patch /\ Items(n) = Items(r)
    BY <1>8, ApplyEffects DEF Effects, SameSnapshot, SameProgress, Items
  <2> QED  BY <1>4, <2>1
<1> QED  BY <1>5, <1>6, <1>7, <1>8

VerdictCurrent(r) == r.verdict # NONE => r.history.judged = r.patch

LEMMA VerdictCurrentKept ==
  ASSUME NEW r \in Review, NEW req \in Calls, VerdictCurrent(r)
  PROVE  VerdictCurrent(Commit(r, req))
<1> DEFINE a == req.args
           n == Apply(r, req)
           c == Commit(r, req)
           p == AssertedProgress(req)
<1>1. /\ c.patch = n.patch /\ c.verdict = n.verdict
      /\ c.history.judged = IF SetsVerdict(req) THEN n.patch ELSE r.history.judged
  <2>1. c.patch = n.patch /\ c.verdict = n.verdict /\ c.history = Remember(r, n, req)
    BY CommitFields
  <2>2. Remember(r, n, req).judged = IF SetsVerdict(req) THEN n.patch ELSE r.history.judged
    BY DEF Remember
  <2> HIDE DEF n, c
  <2> QED  BY <2>1, <2>2
<1>2. SUFFICES ASSUME n.verdict # NONE
               PROVE  c.history.judged = n.patch
  BY <1>1 DEF VerdictCurrent
(* The verdict asserted now, or the one before on the same snapshot. *)
<1>3. ASSUME n.verdict = r.verdict, n.patch = r.patch
      PROVE  c.history.judged = n.patch
  <2> HIDE DEF n, c
  <2> QED  BY <1>1, <1>2, <1>3 DEF VerdictCurrent
<1>4. ASSUME p # NONE, n.patch = r.patch,
             n.verdict = IF p.file # NONE THEN r.verdict ELSE Given(p.verdict, r.verdict)
      PROVE  c.history.judged = n.patch
  <2>1. SetsVerdict(req) <=> p.file = NONE /\ p.verdict \notin {KEEP, NONE}
    BY <1>4 DEF SetsVerdict
  <2> HIDE DEF n, c, p
  <2>2. CASE p.file # NONE \/ p.verdict = KEEP
    BY <1>3, <1>4, <2>2 DEF Given
  <2>3. CASE p.file = NONE /\ p.verdict # KEEP
    BY <1>1, <1>2, <1>4, <2>1, <2>3 DEF Given
  <2> QED  BY <2>2, <2>3
<1>5. CASE req.method = "review.refresh"
  <2>1. n = Refresh(r, a)
    BY <1>5 DEF Apply
  <2>2. a.patch \in Patch
    BY <1>5, RequestTypes DEF HasArgs
  <2>3. n = r
    BY <1>2, <2>1, <2>2, RefreshTypes
  <2> QED  BY <1>3, <2>3
<1>6. CASE req.method = "review.progress"
  <2>1. n = Progress(r, a) /\ p = a
    BY <1>6 DEF Apply, AssertedProgress
  <2>2. a \in ProgressArgs /\ a # NONE
    BY <1>6, RequestTypes DEF HasArgs
  <2>3. /\ n.patch = r.patch
        /\ n.verdict = IF a.file # NONE THEN r.verdict ELSE Given(a.verdict, r.verdict)
    <3> HIDE DEF n, p, a
    <3>1. /\ SameSnapshot(Progress(r, a), r)
          /\ Progress(r, a).verdict = IF a.file # NONE THEN r.verdict
                                      ELSE Given(a.verdict, r.verdict)
      BY <2>2, ProgressTypes
    <3> QED  BY <2>1, <3>1 DEF SameSnapshot
  <2> HIDE DEF n, p
  <2> QED  BY <1>4, <2>1, <2>2, <2>3
<1>7. CASE req.method = "review.reanchor"
  <2>1. n = Reanchor(r, a) /\ p = a.progress
    BY <1>7 DEF Apply, AssertedProgress
  <2>2. IsAnchorUpdates(a.updates) /\ (a.progress = NONE \/ a.progress \in ProgressArgs)
    BY <1>7, RequestTypes DEF HasArgs
  <2>3. n.patch = r.patch
    <3>1. SameSnapshot(Reanchor(r, a), r)
      BY <2>2, ReanchorTypes
    <3> QED  BY <2>1, <3>1 DEF SameSnapshot
  <2>4. PICK m \in Review : /\ SameProgress(m, r)
                            /\ IF a.progress = NONE THEN n = m ELSE n = Progress(m, a.progress)
    <3>1. \E m \in Review : /\ SameProgress(m, r)
                            /\ IF a.progress = NONE THEN Reanchor(r, a) = m
                               ELSE Reanchor(r, a) = Progress(m, a.progress)
      BY <2>2, ReanchorTypes, Zenon
    <3> HIDE DEF n, a
    <3> QED  BY <2>1, <3>1
  <2>5. CASE a.progress = NONE
    <3>1. n.verdict = r.verdict
      BY <2>4, <2>5 DEF SameProgress
    <3> QED  BY <1>3, <2>3, <3>1
  <2>6. CASE a.progress # NONE
    <3>1. n = Progress(m, p)
      BY <2>1, <2>4, <2>6
    <3>2. n.verdict = IF p.file # NONE THEN m.verdict ELSE Given(p.verdict, m.verdict)
      <4> HIDE DEF n, p, a
      <4>1. p \in ProgressArgs
        BY <2>1, <2>2, <2>6
      <4>2. Progress(m, p).verdict = IF p.file # NONE THEN m.verdict
                                     ELSE Given(p.verdict, m.verdict)
        BY <4>1, ProgressTypes
      <4> QED  BY <3>1, <4>2
    <3>3. m.verdict = r.verdict
      BY <2>4 DEF SameProgress
    <3> HIDE DEF n, p
    <3> QED  BY <1>4, <2>1, <2>3, <2>6, <3>2, <3>3
  <2> QED  BY <2>5, <2>6
<1>8. CASE req.method \notin {"review.refresh", "review.progress", "review.reanchor"}
  <2>1. n.patch = r.patch /\ n.verdict = r.verdict
    BY <1>8, ApplyEffects DEF Effects, SameSnapshot, SameProgress
  <2> QED  BY <1>3, <2>1
<1> QED  BY <1>5, <1>6, <1>7, <1>8

ReturnCurrent(r) ==
    r.last_return # NONE =>
        \A id \in r.last_return.submission_ids :
            \E s \in r.submissions : s.id = id /\ s.generation = r.generation

LEMMA ReturnCurrentKept ==
  ASSUME NEW r \in Review, NEW req \in Calls, Admits(r, req), ReturnCurrent(r)
  PROVE  ReturnCurrent(Commit(r, req))
<1> DEFINE a == req.args
           n == Apply(r, req)
           c == Commit(r, req)
<1>1. /\ c.last_return = n.last_return /\ c.submissions = n.submissions
      /\ c.generation = n.generation
  BY CommitFields
<1>2. \A s \in r.submissions : \E e \in n.submissions : SameDelivery(e, s)
  BY SubmissionsKept
<1>3. ASSUME n.generation = r.generation, n.last_return # NONE,
             \A id \in n.last_return.submission_ids :
                \E s \in r.submissions : s.id = id /\ s.generation = r.generation
      PROVE  ReturnCurrent(c)
  <2> HIDE DEF n, c
  <2> QED  BY <1>1, <1>2, <1>3 DEF ReturnCurrent, SameDelivery
<1>4. CASE n.last_return = NONE
  BY <1>1, <1>4 DEF ReturnCurrent
<1>5. CASE n.last_return # NONE /\ req.method = "review.refresh"
  <2>1. n = Refresh(r, a)
    BY <1>5 DEF Apply
  <2>2. a.patch \in Patch
    BY <1>5, RequestTypes DEF HasArgs
  <2>3. n = r
    BY <1>5, <2>1, <2>2, RefreshTypes
  <2> QED  BY <1>3, <1>5, <2>3 DEF ReturnCurrent
<1>6. CASE n.last_return # NONE /\ req.method = "review.finish"
  <2>1. n = Finish(r, a)
    BY <1>6 DEF Apply
  <2>2. a \in [outcome: Outcomes, submission_ids: SUBSET Nat]
    BY <1>6, RequestTypes DEF HasArgs
  <2>3. n.generation = r.generation /\ n.last_return.submission_ids = a.submission_ids
    <3> HIDE DEF n, a
    <3>1. /\ SameSnapshot(Finish(r, a), r)
          /\ Finish(r, a).last_return = [outcome |-> a.outcome, revision |-> r.revision + 1,
                                         submission_ids |-> a.submission_ids]
      BY <2>2, ReturnTypes
    <3> QED  BY <2>1, <3>1 DEF SameSnapshot
  <2>4. FinishAccepts(r, a)
    BY <1>6 DEF Admits, Accepts
  <2> HIDE DEF n, c, a
  <2> QED  BY <1>3, <1>6, <2>3, <2>4 DEF FinishAccepts, c
<1>7. CASE n.last_return # NONE /\ req.method = "review.begin"
  <2>1. n = Begin(r)
    BY <1>7 DEF Apply
  <2> QED  BY <1>7, <2>1, BeginTypes
<1>8. CASE /\ n.last_return # NONE
           /\ req.method \notin {"review.refresh", "review.finish", "review.begin"}
  <2>1. n.last_return = r.last_return /\ n.generation = r.generation
    BY <1>8, ApplyEffects DEF Effects, SameSnapshot
  <2> QED  BY <1>3, <1>8, <2>1 DEF ReturnCurrent
<1> QED  BY <1>4, <1>5, <1>6, <1>7, <1>8

---------------------------------------------------------------------------
(* No submission repeats feedback. *)

News(r) ==
    \A s \in r.submissions :
        \E m \in s.messages :
            /\ m.origin = "human" /\ ~m.deleted
            /\ \A e \in r.submissions :
                  e.id < s.id => \A q \in e.messages : <<q.id, q.revision>> # <<m.id, m.revision>>

LEMMA NewsKept ==
  ASSUME NEW r \in Review, NEW req \in Calls, Admits(r, req), SubmissionIds(r), News(r)
  PROVE  News(Commit(r, req))
<1> DEFINE a == req.args
           n == Apply(r, req)
           c == Commit(r, req)
<1>1. c.submissions = n.submissions /\ r.revision \in Nat
  BY CommitFields DEF Review
<1>2. \A e \in n.submissions :
         (\E s \in r.submissions : SameDelivery(e, s)) \/ e.id = r.revision + 1
  BY SubmissionsKept
<1>3. \A s \in r.submissions : s.id \in Nat /\ s.id <= r.revision
  BY DEF Review, Submission, SubmissionIds
<1>4. ASSUME NEW x \in n.submissions, NEW s \in r.submissions, SameDelivery(x, s)
      PROVE  \E m \in x.messages :
                /\ m.origin = "human" /\ ~m.deleted
                /\ \A e \in n.submissions :
                      e.id < x.id => \A q \in e.messages : <<q.id, q.revision>> # <<m.id, m.revision>>
  <2>1. PICK m \in s.messages :
            /\ m.origin = "human" /\ ~m.deleted
            /\ \A e \in r.submissions :
                  e.id < s.id => \A q \in e.messages : <<q.id, q.revision>> # <<m.id, m.revision>>
    BY DEF News
  <2>2. m \in x.messages /\ x.id = s.id
    BY <1>4 DEF SameDelivery
  <2> HIDE DEF n
  <2>3. ASSUME NEW e \in n.submissions, e.id < x.id
        PROVE  \A q \in e.messages : <<q.id, q.revision>> # <<m.id, m.revision>>
    <3>1. e.id # r.revision + 1
      BY <1>1, <1>3, <2>2, <2>3
    <3>2. PICK f \in r.submissions : SameDelivery(e, f)
      BY <1>2, <3>1
    <3> QED  BY <2>1, <2>2, <2>3, <3>2 DEF SameDelivery
  <2> QED  BY <2>1, <2>2, <2>3
<1>5. CASE req.method # "feedback.submit"
  <2>1. \A x \in n.submissions : \E s \in r.submissions : SameDelivery(x, s)
    BY <1>5, SubmissionsKept
  <2> HIDE DEF n, c
  <2> QED  BY <1>1, <1>4, <2>1 DEF News, c
<1>6. CASE req.method = "feedback.submit"
  <2>1. n = Submit(r, a)
    BY <1>6 DEF Apply
  <2>2. PICK new : /\ new.id = r.revision + 1 /\ n.submissions = r.submissions \cup {new}
                   /\ new.messages = {m \in r.messages :
                         \E t \in SelectedThreads(r, a) : t.id = m.thread}
    BY <2>1, SubmittedNow DEF NextRevision
  <2>3. SubmitAccepts(r, a)
    BY <1>6 DEF Admits, Accepts
  <2>4. PICK t \in SelectedThreads(r, a) : TRUE
    BY <2>3 DEF SubmitAccepts
  <2>5. PICK m \in NewFeedback(r) : m.thread = t.id
    BY <2>4 DEF SelectedThreads
  <2>6. /\ m \in r.messages /\ m.origin = "human" /\ ~m.deleted
        /\ <<m.id, m.revision>> \notin PreviouslySubmitted(r)
    BY <2>5 DEF NewFeedback
  <2>7. m \in new.messages
    BY <2>2, <2>4, <2>5, <2>6
  <2> HIDE DEF n, c
  <2>8. ASSUME NEW e \in n.submissions, e.id < new.id
        PROVE  \A q \in e.messages : <<q.id, q.revision>> # <<m.id, m.revision>>
    <3>1. e \in r.submissions
      BY <1>1, <2>2, <2>8
    <3> QED  BY <2>6, <3>1 DEF PreviouslySubmitted
  <2>9. \A x \in r.submissions : SameDelivery(x, x)
    BY DEF SameDelivery
  <2> QED  BY <1>1, <1>4, <2>2, <2>6, <2>7, <2>8, <2>9 DEF News, c
<1> QED  BY <1>5, <1>6

---------------------------------------------------------------------------
(* Answers *)

(* What each mutation was answered is remembered under its receipt, once.   *)
OneResult(r) ==
    /\ \A x, y \in r.mutations : x.mid = y.mid => x = y
    /\ \A x \in r.history.results : HasReceipt(r, x.mid)
    /\ \A x, y \in r.history.results : x.mid = y.mid => x = y

(* The results a commit remembers are those before and its own. *)
LEMMA ResultsGrow ==
  ASSUME NEW r \in Review, NEW req \in Calls
  PROVE  Commit(r, req).history.results = r.history.results
            \cup {[mid |-> req.mid, result |-> FirstResult(r, Apply(r, req), req)]}
<1> DEFINE n == Apply(r, req)
           c == Commit(r, req)
<1>1. c.history = Remember(r, n, req)
  BY CommitFields
<1>2. Remember(r, n, req).results = r.history.results
         \cup {[mid |-> req.mid, result |-> FirstResult(r, n, req)]}
  BY DEF Remember
<1> HIDE DEF n, c
<1> QED  BY <1>1, <1>2 DEF n, c

LEMMA OneResultKept ==
  ASSUME NEW r \in Review, NEW req \in Calls, Admits(r, req), OneResult(r)
  PROVE  OneResult(Commit(r, req))
<1> DEFINE c == Commit(r, req)
           receipt == MakeReceipt(r, Apply(r, req), req)
           result == [mid |-> req.mid, result |-> FirstResult(r, Apply(r, req), req)]
<1>1. /\ c.mutations = r.mutations \cup {receipt}
      /\ c.history.results = r.history.results \cup {result}
  BY CommitFields, ResultsGrow
<1>2. receipt.mid = req.mid /\ result.mid = req.mid
  BY DEF MakeReceipt
<1>3. \A x \in r.mutations : x.mid # req.mid
  BY DEF Admits, HasReceipt
<1> HIDE DEF c, receipt, result
<1>4. \A x \in r.history.results : x.mid # req.mid
  BY <1>3 DEF OneResult, HasReceipt
<1>5. \A x \in c.history.results : HasReceipt(c, x.mid)
  BY <1>1, <1>2 DEF OneResult, HasReceipt
<1> QED  BY <1>1, <1>2, <1>3, <1>4, <1>5 DEF OneResult, c

---------------------------------------------------------------------------
(* Threads and messages: never removed, and each in its place. *)

LEMMA ThreadsRenewed ==
  ASSUME NEW r \in Review, NEW req \in Calls, req.method # "comment.add"
  PROVE  \E f : /\ Apply(r, req).threads = {f[t] : t \in r.threads}
                /\ \A t \in r.threads : f[t].id = t.id
<1> DEFINE a == req.args
           n == Apply(r, req)
<1>1. ASSUME n.threads = r.threads
      PROVE  \E f : n.threads = {f[t] : t \in r.threads} /\ \A t \in r.threads : f[t].id = t.id
  <2> DEFINE f == [t \in r.threads |-> t]
  <2>1. r.threads = {f[t] : t \in r.threads} /\ \A t \in r.threads : f[t].id = t.id
    OBVIOUS
  <2> HIDE DEF f, n
  <2> QED  BY <1>1, <2>1
<1>2. CASE req.method = "review.refresh"
  <2>1. n = Refresh(r, a)
    BY <1>2 DEF Apply
  <2>2. a.patch \in Patch
    BY <1>2, RequestTypes DEF HasArgs
  <2>3. CASE a.patch = r.patch
    BY <1>1, <2>1, <2>2, <2>3, RefreshTypes
  <2>4. CASE a.patch # r.patch
    <3> DEFINE retained == UnchangedPaths(r.patch, a.patch)
               f == [t \in r.threads |-> CarryThread(t, retained, r.generation + 1)]
    <3>1. n.threads = {CarryThread(t, retained, r.generation + 1) : t \in r.threads}
      BY <2>1, <2>2, <2>4, RefreshTypes
    <3>2. \A t \in r.threads : CarryThread(t, retained, r.generation + 1).id = t.id
      BY DEF CarryThread, Review, Thread
    <3> HIDE DEF n, retained
    <3>3. n.threads = {f[t] : t \in r.threads} /\ \A t \in r.threads : f[t].id = t.id
      BY <3>1, <3>2
    <3> HIDE DEF f
    <3> QED  BY <3>3 DEF n
  <2> QED  BY <2>3, <2>4
<1>3. CASE req.method = "review.disposition"
  <2>1. n = Disposition(r, a)
    BY <1>3 DEF Apply
  <2>2. a.disposition \in Dispositions
    BY <1>3, RequestTypes DEF HasArgs
  <2> DEFINE placed(t) == [t EXCEPT !.disposition = a.disposition]
             f == [t \in r.threads |-> IF t.id = a.thread THEN placed(t) ELSE t]
  <2>3. n.threads = {IF t.id = a.thread THEN placed(t) ELSE t : t \in r.threads}
    BY <2>1, <2>2, DispositionTypes
  <2>4. \A t \in r.threads : placed(t).id = t.id
    BY DEF Review, Thread
  <2> HIDE DEF n, placed
  <2>5. n.threads = {f[t] : t \in r.threads} /\ \A t \in r.threads : f[t].id = t.id
    BY <2>3, <2>4
  <2> HIDE DEF f
  <2> QED  BY <2>5 DEF n
<1>4. CASE req.method = "review.reanchor"
  <2>1. n = Reanchor(r, a)
    BY <1>4 DEF Apply
  <2>2. IsAnchorUpdates(a.updates) /\ (a.progress = NONE \/ a.progress \in ProgressArgs)
    BY <1>4, RequestTypes DEF HasArgs
  <2> DEFINE moved(t) == [t EXCEPT !.file = a.updates[t.id].file,
                                   !.stale = a.updates[t.id].stale,
                                   !.generation = r.generation]
             f == [t \in r.threads |-> IF t.id \in DOMAIN a.updates THEN moved(t) ELSE t]
  <2>3. n.threads = {IF t.id \in DOMAIN a.updates THEN moved(t) ELSE t : t \in r.threads}
    BY <2>1, <2>2, ReanchorTypes
  <2>4. \A t \in r.threads : moved(t).id = t.id
    BY DEF Review, Thread
  <2> HIDE DEF n, moved
  <2>5. n.threads = {f[t] : t \in r.threads} /\ \A t \in r.threads : f[t].id = t.id
    BY <2>3, <2>4
  <2> HIDE DEF f
  <2> QED  BY <2>5 DEF n
<1>5. CASE req.method \notin {"review.refresh", "review.disposition", "review.reanchor"}
  <2>1. n.threads = r.threads
    BY <1>5, ApplyEffects DEF Effects
  <2> QED  BY <1>1, <2>1
<1> QED  BY <1>2, <1>3, <1>4, <1>5

(* A message keeps its place; an edit or a removal gives it this revision. *)
SameComment(k, m, r) ==
    /\ k.id = m.id /\ k.thread = m.thread /\ k.reply_to = m.reply_to
    /\ k.revision \in {m.revision, r.revision + 1}
    /\ (m.body = NONE => m.deleted) => (k.body = NONE => k.deleted)

LEMMA MessagesRewritten ==
  ASSUME NEW r \in Review, NEW id, NEW body \in Body \cup {NONE}, NEW deleted \in BOOLEAN,
         body = NONE => deleted = TRUE
  PROVE  \E f : /\ Rewrite(r, id, body, deleted).messages = {f[m] : m \in r.messages}
                /\ \A m \in r.messages : SameComment(f[m], m, r)
<1>0. Rewrite(r, id, body, deleted).messages =
         {IF m.id = id
          THEN [m EXCEPT !.body = body, !.deleted = deleted, !.revision = NextRevision(r)]
          ELSE m : m \in r.messages}
  BY DEF Rewrite, Review
<1> DEFINE n == Rewrite(r, id, body, deleted)
           changed(m) == [m EXCEPT !.body = body, !.deleted = deleted,
                                   !.revision = NextRevision(r)]
           f == [m \in r.messages |-> IF m.id = id THEN changed(m) ELSE m]
<1>1. n.messages = {IF m.id = id THEN changed(m) ELSE m : m \in r.messages}
  BY <1>0
<1>2. \A m \in r.messages :
         /\ changed(m).id = m.id /\ changed(m).thread = m.thread
         /\ changed(m).reply_to = m.reply_to /\ changed(m).revision = r.revision + 1
         /\ changed(m).body = body /\ changed(m).deleted = deleted
  BY DEF Review, Message, NextRevision
<1> HIDE DEF n, changed
<1>3. n.messages = {f[m] : m \in r.messages}
  BY <1>1
<1>4. \A m \in r.messages : SameComment(f[m], m, r)
  BY <1>2 DEF SameComment
<1> HIDE DEF f
<1> QED  BY <1>3, <1>4 DEF n

LEMMA MessagesRenewed ==
  ASSUME NEW r \in Review, NEW req \in Calls,
         req.method \notin {"comment.add", "comment.reply"}
  PROVE  \E f : /\ Apply(r, req).messages = {f[m] : m \in r.messages}
                /\ \A m \in r.messages : SameComment(f[m], m, r)
<1> DEFINE a == req.args
           n == Apply(r, req)
<1>1. CASE req.method = "comment.edit"
  <2>1. n = Rewrite(r, a.message, a.body, FALSE)
    BY <1>1 DEF Apply, EditComment
  <2>2. a.body \in Body /\ a.body # NONE
    BY <1>1, RequestTypes, RecordAssumption DEF HasArgs
  <2> HIDE DEF n, a
  <2>3. \E f : /\ Rewrite(r, a.message, a.body, FALSE).messages = {f[m] : m \in r.messages}
               /\ \A m \in r.messages : SameComment(f[m], m, r)
    BY <2>2, MessagesRewritten
  <2> QED  BY <2>1, <2>3 DEF n
<1>2. CASE req.method = "comment.remove"
  <2>1. n = Rewrite(r, a.message, NONE, TRUE)
    BY <1>2 DEF Apply, RemoveComment
  <2> HIDE DEF n, a
  <2>2. \E f : /\ Rewrite(r, a.message, NONE, TRUE).messages = {f[m] : m \in r.messages}
               /\ \A m \in r.messages : SameComment(f[m], m, r)
    BY MessagesRewritten
  <2> QED  BY <2>1, <2>2 DEF n
<1>3. CASE req.method \notin {"comment.edit", "comment.remove"}
  <2>1. n.messages = r.messages
    BY <1>3, ApplyEffects DEF Effects
  <2> DEFINE f == [m \in r.messages |-> m]
  <2>2. r.messages = {f[m] : m \in r.messages} /\ \A m \in r.messages : SameComment(f[m], m, r)
    BY DEF SameComment
  <2> HIDE DEF f, n
  <2> QED  BY <2>1, <2>2 DEF n
<1> QED  BY <1>1, <1>2, <1>3

(* Threads and messages are well formed, and as old as the record at most.  *)
Comments(r) ==
    /\ r.revision >= 1
    /\ \A t \in r.threads : t.id <= r.revision
    /\ \A m \in r.messages : m.id <= r.revision
    /\ ValidThreads(r)

LEMMA CommentsKept ==
  ASSUME NEW r \in Review, NEW req \in Calls, Admits(r, req), Comments(r)
  PROVE  Comments(Commit(r, req))
<1> DEFINE a == req.args
           n == Apply(r, req)
           c == Commit(r, req)
<1>1. /\ c.revision = r.revision + 1 /\ c.threads = n.threads /\ c.messages = n.messages
      /\ r.revision \in Nat
  BY CommitFields DEF Review
<1>2. /\ \A t \in r.threads : t.id \in Nat
      /\ \A m \in r.messages : m.id \in Nat /\ m.revision \in Nat
  BY DEF Review, Thread, Message
<1>3. CASE req.method = "comment.add"
  <2> DEFINE thread == [id |-> r.revision + 1, file |-> a.file, generation |-> r.generation,
                        stale |-> FALSE, disposition |-> "open"]
             message == NewMessage(r, r.revision + 1, NONE, a)
  <2>1. n = AddComment(r, a)
    BY <1>3 DEF Apply
  <2>2. a \in [file: File, origin: Origin, body: Body]
    BY <1>3, RequestTypes DEF HasArgs
  <2>3. n.threads = r.threads \cup {thread} /\ n.messages = r.messages \cup {message}
    BY <2>1, <2>2, AddTypes
  <2>4. /\ thread.id = r.revision + 1 /\ message.id = r.revision + 1
        /\ message.thread = r.revision + 1 /\ message.reply_to = NONE
        /\ message.revision = r.revision + 1 /\ message.body # NONE
    BY <2>2, RecordAssumption DEF NewMessage, NextRevision
  <2> HIDE DEF n, c, thread, message, a
  <2>5. \A s, t \in c.threads : s.id = t.id => s = t
    BY <1>1, <1>2, <2>3, <2>4 DEF Comments, ValidThreads
  <2>6. \A t \in c.threads : \E m \in c.messages : m.thread = t.id
    BY <1>1, <2>3, <2>4 DEF Comments, ValidThreads
  <2>7. \A k, m \in c.messages : k.id = m.id => k = m
    BY <1>1, <1>2, <2>3, <2>4 DEF Comments, ValidThreads
  <2>8. ASSUME NEW m \in c.messages
        PROVE  /\ m.revision <= c.revision
               /\ m.body = NONE => m.deleted
               /\ m.reply_to # NONE =>
                     \E k \in c.messages : k.id = m.reply_to /\ k.thread = m.thread /\ k.id < m.id
    <3>1. CASE m = message
      BY <1>1, <2>4, <3>1
    <3>2. CASE m \in r.messages
      BY <1>1, <1>2, <2>3, <3>2 DEF Comments, ValidThreads
    <3> QED  BY <1>1, <2>3, <3>1, <3>2
  <2>9. /\ \A t \in c.threads : t.id <= c.revision
        /\ \A m \in c.messages : m.id <= c.revision
    BY <1>1, <1>2, <2>3, <2>4 DEF Comments
  <2> QED  BY <1>1, <2>5, <2>6, <2>7, <2>8, <2>9 DEF Comments, ValidThreads, c
<1>4. CASE req.method # "comment.add"
  <2>1. PICK f : /\ n.threads = {f[t] : t \in r.threads}
                 /\ \A t \in r.threads : f[t].id = t.id
    BY <1>4, ThreadsRenewed
  <2>2. CASE req.method = "comment.reply"
    <3> DEFINE message == NewMessage(r, a.thread, a.reply_to, a)
    <3>1. n = Reply(r, a)
      BY <2>2 DEF Apply
    <3>2. a \in [thread: Nat, reply_to: Nat, origin: Origin, body: Body]
      BY <2>2, RequestTypes DEF HasArgs
    <3>3. n.messages = r.messages \cup {message}
      BY <3>1, <3>2, ReplyTypes
    <3>4. /\ message.id = r.revision + 1
          /\ message.thread = a.thread /\ message.reply_to = a.reply_to
          /\ message.revision = r.revision + 1 /\ message.body # NONE
      BY <3>2, RecordAssumption DEF NewMessage, NextRevision
    <3>5. \E m \in r.messages : m.id = a.reply_to /\ m.thread = a.thread
      BY <2>2 DEF Admits, Accepts, ReplyAccepts
    <3> HIDE DEF n, c, message, a
    <3>6. \A s, t \in c.threads : s.id = t.id => s = t
      BY <1>1, <2>1 DEF Comments, ValidThreads
    <3>7. \A t \in c.threads : \E m \in c.messages : m.thread = t.id
      BY <1>1, <2>1, <3>3 DEF Comments, ValidThreads
    <3>8. \A k, m \in c.messages : k.id = m.id => k = m
      BY <1>1, <1>2, <3>3, <3>4 DEF Comments, ValidThreads
    <3>9. ASSUME NEW m \in c.messages
          PROVE  /\ m.revision <= c.revision
                 /\ m.body = NONE => m.deleted
                 /\ m.reply_to # NONE =>
                       \E k \in c.messages : k.id = m.reply_to /\ k.thread = m.thread /\ k.id < m.id
      <4>1. CASE m = message
        BY <1>1, <1>2, <3>3, <3>4, <3>5, <4>1 DEF Comments
      <4>2. CASE m \in r.messages
        BY <1>1, <1>2, <3>3, <4>2 DEF Comments, ValidThreads
      <4> QED  BY <1>1, <3>3, <4>1, <4>2
    <3>10. /\ \A t \in c.threads : t.id <= c.revision
           /\ \A m \in c.messages : m.id <= c.revision
      BY <1>1, <1>2, <2>1, <3>3, <3>4 DEF Comments
    <3> QED  BY <1>1, <3>6, <3>7, <3>8, <3>9, <3>10 DEF Comments, ValidThreads, c
  <2>3. CASE req.method # "comment.reply"
    <3>1. PICK g : /\ n.messages = {g[m] : m \in r.messages}
                   /\ \A m \in r.messages : SameComment(g[m], m, r)
      BY <1>4, <2>3, MessagesRenewed
    <3> HIDE DEF n, c, a
    <3>2. \A s, t \in c.threads : s.id = t.id => s = t
      BY <1>1, <2>1 DEF Comments, ValidThreads
    <3>3. ASSUME NEW t \in c.threads
          PROVE  \E m \in c.messages : m.thread = t.id
      <4>1. PICK u \in r.threads : t = f[u] /\ t.id = u.id
        BY <1>1, <2>1
      <4>2. PICK m \in r.messages : m.thread = u.id
        BY DEF Comments, ValidThreads
      <4> QED  BY <1>1, <3>1, <4>1, <4>2 DEF SameComment
    <3>4. \A k, m \in c.messages : k.id = m.id => k = m
      BY <1>1, <3>1 DEF Comments, ValidThreads, SameComment
    <3>5. ASSUME NEW k \in c.messages
          PROVE  /\ k.revision <= c.revision
                 /\ k.body = NONE => k.deleted
                 /\ k.reply_to # NONE =>
                       \E e \in c.messages : e.id = k.reply_to /\ e.thread = k.thread /\ e.id < k.id
      <4>1. PICK m \in r.messages : k = g[m] /\ SameComment(k, m, r)
        BY <1>1, <3>1
      <4>2. k.revision <= c.revision
        BY <1>1, <1>2, <4>1 DEF Comments, ValidThreads, SameComment
      <4>3. k.body = NONE => k.deleted
        BY <4>1 DEF Comments, ValidThreads, SameComment
      <4>4. ASSUME k.reply_to # NONE
            PROVE  \E e \in c.messages : e.id = k.reply_to /\ e.thread = k.thread /\ e.id < k.id
        <5>1. PICK e \in r.messages : e.id = m.reply_to /\ e.thread = m.thread /\ e.id < m.id
          BY <4>1, <4>4 DEF Comments, ValidThreads, SameComment
        <5>2. g[e] \in c.messages /\ SameComment(g[e], e, r)
          BY <1>1, <3>1
        <5> QED  BY <4>1, <5>1, <5>2 DEF SameComment
      <4> QED  BY <4>2, <4>3, <4>4
    <3>6. /\ \A t \in c.threads : t.id <= c.revision
          /\ \A m \in c.messages : m.id <= c.revision
      BY <1>1, <1>2, <2>1, <3>1 DEF Comments, SameComment
    <3> QED  BY <1>1, <3>2, <3>3, <3>4, <3>5, <3>6 DEF Comments, ValidThreads, c
  <2> QED  BY <2>2, <2>3
<1> QED  BY <1>3, <1>4

---------------------------------------------------------------------------
(* Deliveries: a submission names what the record knows, and repeats what   *)
(* earlier ones had of its threads.                                        *)

(* A message as it is later: rewritten, never moved or removed. *)
Later(n, m) == n.id = m.id /\ n.thread = m.thread /\ n.revision >= m.revision

LEMMA HistoryGrows ==
  ASSUME NEW r \in Review, NEW req \in Calls, Comments(r)
  PROVE  LET n == Apply(r, req)
         IN  /\ n.generation \in {r.generation, r.generation + 1}
             /\ \A t \in r.threads : HasThread(n, t.id)
             /\ \A m \in r.messages : \E k \in n.messages : Later(k, m)
<1> DEFINE a == req.args
           n == Apply(r, req)
<1>0. r.revision \in Nat /\ \A m \in r.messages : m.revision \in Nat /\ m.revision <= r.revision
  BY DEF Review, Message, Comments, ValidThreads
<1>1. n.generation \in {r.generation, r.generation + 1}
  <2>1. CASE req.method = "review.refresh"
    <3>1. n = Refresh(r, a)
      BY <2>1 DEF Apply
    <3>2. a.patch \in Patch
      BY <2>1, RequestTypes DEF HasArgs
    <3> HIDE DEF n, a
    <3>3. Refresh(r, a).generation \in {r.generation, r.generation + 1}
      BY <3>2, RefreshTypes
    <3> QED  BY <3>1, <3>3
  <2>2. CASE req.method # "review.refresh"
    BY <2>2, ApplyEffects DEF Effects, SameSnapshot
  <2> QED  BY <2>1, <2>2
<1>2. CASE req.method = "comment.add"
  <2>1. n = AddComment(r, a)
    BY <1>2 DEF Apply
  <2>2. a \in [file: File, origin: Origin, body: Body]
    BY <1>2, RequestTypes DEF HasArgs
  <2>3. r.threads \subseteq n.threads /\ r.messages \subseteq n.messages
    BY <2>1, <2>2, AddTypes
  <2> HIDE DEF n
  <2> QED  BY <1>0, <1>1, <2>3 DEF HasThread, Later, n
<1>3. CASE req.method # "comment.add"
  <2>1. PICK f : /\ n.threads = {f[t] : t \in r.threads}
                 /\ \A t \in r.threads : f[t].id = t.id
    BY <1>3, ThreadsRenewed
  <2>2. \A t \in r.threads : HasThread(n, t.id)
    <3> HIDE DEF n
    <3> QED  BY <2>1 DEF HasThread
  <2>3. \A m \in r.messages : \E k \in n.messages : Later(k, m)
    <3>1. CASE req.method = "comment.reply"
      <4>1. n = Reply(r, a)
        BY <3>1 DEF Apply
      <4>2. a \in [thread: Nat, reply_to: Nat, origin: Origin, body: Body]
        BY <3>1, RequestTypes DEF HasArgs
      <4>3. r.messages \subseteq n.messages
        BY <4>1, <4>2, ReplyTypes
      <4> HIDE DEF n
      <4> QED  BY <1>0, <4>3 DEF Later
    <3>2. CASE req.method # "comment.reply"
      <4>1. PICK g : /\ n.messages = {g[m] : m \in r.messages}
                     /\ \A m \in r.messages : SameComment(g[m], m, r)
        BY <1>3, <3>2, MessagesRenewed
      <4> HIDE DEF n
      <4> QED  BY <1>0, <4>1 DEF Later, SameComment
    <3> QED  BY <3>1, <3>2
  <2> HIDE DEF n
  <2> QED  BY <1>1, <2>2, <2>3 DEF n
<1> QED  BY <1>2, <1>3

(* A submission delivers threads with messages of theirs, all of them known *)
(* to the record since; and a later delivery of a thread has every message   *)
(* an earlier one had of it.                                                *)
Deliveries(r) ==
    /\ r.generation >= 1
    /\ \A s \in r.submissions :
          /\ s.generation \in 1..r.generation
          /\ \A t \in s.threads : HasThread(r, t.id)
          /\ \A m \in s.messages : /\ \E t \in s.threads : t.id = m.thread
                                   /\ \E n \in r.messages : Later(n, m)
    /\ \A s, e \in r.submissions : s.id < e.id =>
          \A m \in s.messages :
              (\E t \in e.threads : t.id = m.thread) => \E n \in e.messages : Later(n, m)

LEMMA DeliveriesKept ==
  ASSUME NEW r \in Review, NEW req \in Calls, SubmissionIds(r), Comments(r), Deliveries(r)
  PROVE  Deliveries(Commit(r, req))
<1> DEFINE n == Apply(r, req)
           c == Commit(r, req)
           Known(s) == /\ s.generation \in 1..c.generation
                       /\ \A t \in s.threads : HasThread(c, t.id)
                       /\ \A m \in s.messages : /\ \E t \in s.threads : t.id = m.thread
                                                /\ \E k \in c.messages : Later(k, m)
           Follows(e, s) == \A m \in s.messages :
                (\E t \in e.threads : t.id = m.thread) => \E k \in e.messages : Later(k, m)
<1>1. /\ c.generation = n.generation /\ c.threads = n.threads /\ c.messages = n.messages
      /\ c.submissions = n.submissions /\ r.generation \in Nat /\ r.revision \in Nat
      /\ n \in Review
  BY CommitFields, ApplyTypes DEF Review
<1>2. /\ n.generation \in {r.generation, r.generation + 1}
      /\ \A t \in r.threads : HasThread(c, t.id)
      /\ \A m \in r.messages : \E k \in c.messages : Later(k, m)
  BY <1>1, HistoryGrows DEF HasThread
<1>3. /\ \A e \in n.submissions :
            \/ \E s \in r.submissions : SameDelivery(e, s)
            \/ e.id = r.revision + 1 /\ req.method = "feedback.submit"
      /\ \A s \in r.submissions : s.id \in Nat /\ s.id <= r.revision
  BY SubmissionsKept DEF SubmissionIds, Review, Submission
<1>4. /\ \A m \in r.messages : m.revision \in Nat
      /\ \A m \in c.messages : m.revision \in Nat
      /\ \A s \in r.submissions : \A m \in s.messages : m.revision \in Nat
  <2>1. \A m \in n.messages : m.revision \in Nat
    BY <1>1 DEF Review, Message
  <2>2. \A m \in r.messages : m.revision \in Nat
    BY DEF Review, Message
  <2>3. \A s \in r.submissions : \A m \in s.messages : m.revision \in Nat
    BY DEF Review, Submission, Message
  <2> HIDE DEF n, c
  <2> QED  BY <1>1, <2>1, <2>2, <2>3
<1>5. ASSUME NEW e \in n.submissions, NEW s \in r.submissions, SameDelivery(e, s)
      PROVE  Known(e)
  <2> HIDE DEF n, c
  <2>1. e.generation \in 1..c.generation
    BY <1>1, <1>2, <1>5 DEF SameDelivery, Deliveries
  <2>2. ASSUME NEW t \in e.threads PROVE HasThread(c, t.id)
    <3>1. \E u \in r.threads : u.id = t.id
      BY <1>5 DEF SameDelivery, Deliveries, HasThread
    <3> QED  BY <1>2, <3>1
  <2>3. ASSUME NEW m \in e.messages
        PROVE  (\E t \in e.threads : t.id = m.thread) /\ \E k \in c.messages : Later(k, m)
    <3>1. /\ m \in s.messages
          /\ \E t \in e.threads : t.id = m.thread
      BY <1>5 DEF SameDelivery, Deliveries
    <3>2. PICK k \in r.messages : Later(k, m)
      BY <3>1 DEF Deliveries
    <3>3. PICK l \in c.messages : Later(l, k)
      BY <1>2
    <3>4. Later(l, m)
      BY <1>4, <3>1, <3>2, <3>3 DEF Later
    <3> QED  BY <3>1, <3>4
  <2> QED  BY <2>1, <2>2, <2>3
<1>6. ASSUME NEW e \in n.submissions, NEW f \in n.submissions, f.id < e.id,
             NEW s \in r.submissions, SameDelivery(e, s),
             NEW u \in r.submissions, SameDelivery(f, u)
      PROVE  Follows(e, f)
  <2> HIDE DEF n, c
  <2>1. u.id < s.id
    BY <1>6 DEF SameDelivery
  <2>2. Follows(s, u)
    BY <2>1 DEF Deliveries
  <2> QED  BY <1>6, <2>2 DEF SameDelivery
<1>7. CASE req.method # "feedback.submit"
  <2>1. \A e \in n.submissions : \E s \in r.submissions : SameDelivery(e, s)
    BY <1>3, <1>7
  <2>2. c.generation >= 1
    BY <1>1, <1>2 DEF Deliveries
  <2> HIDE DEF n, c
  <2>3. \A s \in c.submissions : Known(s)
    BY <1>1, <1>5, <2>1
  <2>4. \A s, e \in c.submissions : s.id < e.id => Follows(e, s)
    BY <1>1, <1>6, <2>1
  <2> QED  BY <2>2, <2>3, <2>4 DEF Deliveries, c
<1>8. CASE req.method = "feedback.submit"
  <2>1. n = Submit(r, req.args)
    BY <1>8 DEF Apply
  <2>2. PICK new : /\ new.id = r.revision + 1 /\ new.generation = r.generation
                   /\ n.submissions = r.submissions \cup {new}
                   /\ new.threads = SelectedThreads(r, req.args)
                   /\ new.messages = {m \in r.messages : \E t \in new.threads : t.id = m.thread}
    BY <2>1, SubmittedNow DEF NextRevision
  <2>3. c.generation >= 1 /\ new.generation \in 1..c.generation
    BY <1>1, <1>2, <2>2 DEF Deliveries
  <2>4. \A t \in new.threads : HasThread(c, t.id)
    BY <1>2, <2>2 DEF SelectedThreads
  <2> HIDE DEF n, c
  <2>5. Known(new)
    <3>1. \A m \in new.messages : \E k \in c.messages : Later(k, m)
      BY <1>2, <2>2
    <3> QED  BY <2>2, <2>3, <2>4, <3>1
  <2>6. ASSUME NEW s \in r.submissions
        PROVE  Follows(new, s)
    <3>1. ASSUME NEW m \in s.messages, \E t \in new.threads : t.id = m.thread
          PROVE  \E k \in new.messages : Later(k, m)
      <4>1. PICK k \in r.messages : Later(k, m)
        BY DEF Deliveries
      <4>2. k \in new.messages
        BY <2>2, <3>1, <4>1 DEF Later
      <4> QED  BY <4>1, <4>2
    <3> QED  BY <3>1
  <2>7. \A s \in r.submissions : SameDelivery(s, s)
    BY DEF SameDelivery
  <2>8. \A s \in c.submissions : Known(s)
    BY <1>1, <1>5, <2>2, <2>5, <2>7
  <2>9. ASSUME NEW s \in c.submissions, NEW e \in c.submissions, s.id < e.id
        PROVE  Follows(e, s)
    <3>1. s \in r.submissions
      BY <1>1, <1>3, <2>2, <2>9
    <3>2. CASE e \in r.submissions
      BY <1>1, <1>6, <2>2, <2>7, <2>9, <3>1, <3>2
    <3>3. CASE e = new
      BY <2>6, <3>1, <3>3
    <3> QED  BY <1>1, <2>2, <3>2, <3>3
  <2> QED  BY <2>3, <2>8, <2>9 DEF Deliveries, c
<1> QED  BY <1>7, <1>8

---------------------------------------------------------------------------
(* Caps, and what validate_record asks for *)

(* Every list is finite and within its cap. *)
Within(S, limit) == IsFiniteSet(S) /\ Cardinality(S) <= limit

BoundedProgress(r) ==
    Within(r.reviewed_files, MaxReviewedFiles) /\ Within(r.reviewed_hunks, MaxReviewedHunks)

Bounded(r) ==
    /\ Within(r.threads, MaxThreads) /\ Within(r.messages, MaxMessages)
    /\ Within(r.mutations, MaxReceipts) /\ Within(r.submissions, MaxSubmissions)
    /\ \A s \in r.submissions : Within(s.acknowledged_by, MaxConsumers)
    /\ BoundedProgress(r)

LEMMA LimitTypes ==
  /\ MaxThreads \in Nat \ {0} /\ MaxMessages \in Nat \ {0} /\ MaxReceipts \in Nat \ {0}
  /\ MaxSubmissions \in Nat \ {0} /\ MaxConsumers \in Nat \ {0} /\ MaxChanges \in Nat \ {0}
  /\ MaxReviewedFiles \in Nat \ {0} /\ MaxReviewedHunks \in Nat \ {0}
  BY RecordAssumption DEF Limits

LEMMA WithinAdded ==
  ASSUME NEW S, NEW x, NEW limit \in Nat, IsFiniteSet(S), Cardinality(S) < limit
  PROVE  Within(S \cup {x}, limit)
<1>1. Cardinality(S) \in Nat
  BY FS_CardinalityType
<1> QED  BY <1>1, FS_AddElement DEF Within

LEMMA WithinImage ==
  ASSUME NEW S, NEW f, NEW limit \in Nat, Within(S, limit)
  PROVE  Within({f[x] : x \in S}, limit)
<1> DEFINE T == {f[x] : x \in S}
           g == [x \in S |-> f[x]]
<1>1. g \in Surjection(S, T)
  BY DEF Surjection
<1>2. IsFiniteSet(S) /\ Cardinality(S) <= limit
  BY DEF Within
<1>3. IsFiniteSet(T) /\ Cardinality(T) <= Cardinality(S)
  BY <1>1, <1>2, FS_Surjection
<1>4. Cardinality(S) \in Nat /\ Cardinality(T) \in Nat
  BY <1>2, <1>3, FS_CardinalityType
<1> QED  BY <1>2, <1>3, <1>4 DEF Within

LEMMA WithinSubset ==
  ASSUME NEW S, NEW T \in SUBSET S, NEW limit \in Nat, Within(S, limit)
  PROVE  Within(T, limit)
<1>1. IsFiniteSet(S) /\ Cardinality(S) <= limit
  BY DEF Within
<1>2. IsFiniteSet(T) /\ Cardinality(T) <= Cardinality(S)
  BY <1>1, FS_Subset
<1>3. Cardinality(S) \in Nat /\ Cardinality(T) \in Nat
  BY <1>1, <1>2, FS_CardinalityType
<1> QED  BY <1>1, <1>2, <1>3 DEF Within

LEMMA ProgressBounded ==
  ASSUME NEW r \in Review, NEW m \in Review, SameProgress(m, r), NEW a \in ProgressArgs,
         BoundedProgress(r), ProgressAccepts(r, a)
  PROVE  BoundedProgress(Progress(m, a))
<1> DEFINE n == Progress(m, a)
           p == Progress(r, a)
<1>1. /\ n.reviewed_files = IF a.file # NONE
                            THEN IF a.reviewed THEN r.reviewed_files \cup {a.file}
                                               ELSE r.reviewed_files \ {a.file}
                            ELSE Given(a.reviewed_files, r.reviewed_files)
      /\ n.reviewed_hunks = IF a.file # NONE THEN r.reviewed_hunks
                            ELSE Given(a.reviewed_hunks, r.reviewed_hunks)
  BY ProgressTypes DEF SameProgress
<1>2. p.reviewed_files = n.reviewed_files /\ p.reviewed_hunks = n.reviewed_hunks
  <2>1. p.reviewed_files = IF a.file # NONE
                           THEN IF a.reviewed THEN r.reviewed_files \cup {a.file}
                                              ELSE r.reviewed_files \ {a.file}
                           ELSE Given(a.reviewed_files, r.reviewed_files)
    BY ProgressTypes
  <2>2. p.reviewed_hunks = IF a.file # NONE THEN r.reviewed_hunks
                           ELSE Given(a.reviewed_hunks, r.reviewed_hunks)
    BY ProgressTypes
  <2> HIDE DEF n, p
  <2> QED  BY <1>1, <2>1, <2>2
<1>3. /\ Cardinality(p.reviewed_files) <= MaxReviewedFiles
      /\ Cardinality(p.reviewed_hunks) <= MaxReviewedHunks
  BY DEF ProgressAccepts
<1>4. IsFiniteSet(r.reviewed_files) /\ IsFiniteSet(r.reviewed_hunks)
  BY DEF BoundedProgress, Within
<1>5. /\ IsFiniteSet(r.reviewed_files \cup {a.file})
      /\ IsFiniteSet(r.reviewed_files \ {a.file})
  BY <1>4, FS_AddElement, FS_RemoveElement
<1>6. /\ IsFiniteSet(Given(a.reviewed_files, r.reviewed_files))
      /\ IsFiniteSet(Given(a.reviewed_hunks, r.reviewed_hunks))
  BY <1>4 DEF Given, ProgressArgs, Lists
<1> HIDE DEF n, p
<1>7. IsFiniteSet(n.reviewed_files) /\ IsFiniteSet(n.reviewed_hunks)
  BY <1>1, <1>4, <1>5, <1>6
<1> QED  BY <1>2, <1>3, <1>7 DEF BoundedProgress, Within, n

LEMMA ProgressKept ==
  ASSUME NEW r \in Review, NEW req \in Calls, Accepts(r, req), BoundedProgress(r)
  PROVE  BoundedProgress(Apply(r, req))
<1> DEFINE a == req.args
           n == Apply(r, req)
<1>1. CASE req.method = "review.refresh"
  <2>1. n = Refresh(r, a)
    BY <1>1 DEF Apply
  <2>2. a.patch \in Patch
    BY <1>1, RequestTypes DEF HasArgs
  <2>3. /\ Refresh(r, a).reviewed_files \in SUBSET r.reviewed_files
        /\ Refresh(r, a).reviewed_hunks \in SUBSET r.reviewed_hunks
    BY <2>2, RefreshTypes
  <2> HIDE DEF n, a
  <2> QED  BY <2>1, <2>3, WithinSubset, LimitTypes DEF BoundedProgress, n
<1>2. CASE req.method = "review.progress"
  <2>1. n = Progress(r, a)
    BY <1>2 DEF Apply
  <2>2. a \in ProgressArgs /\ ProgressAccepts(r, a)
    BY <1>2, RequestTypes DEF HasArgs, Accepts
  <2>3. SameProgress(r, r)
    BY DEF SameProgress
  <2> HIDE DEF n, a
  <2> QED  BY <2>1, <2>2, <2>3, ProgressBounded DEF n
<1>3. CASE req.method = "review.reanchor"
  <2>1. n = Reanchor(r, a) /\ ReanchorAccepts(r, a)
    BY <1>3 DEF Apply, Accepts
  <2>2. IsAnchorUpdates(a.updates) /\ (a.progress = NONE \/ a.progress \in ProgressArgs)
    BY <1>3, RequestTypes DEF HasArgs
  <2>3. PICK m \in Review : /\ SameProgress(m, r)
                            /\ IF a.progress = NONE THEN Reanchor(r, a) = m
                               ELSE Reanchor(r, a) = Progress(m, a.progress)
    BY <2>2, ReanchorTypes, Zenon
  <2> HIDE DEF n, a
  <2>4. CASE a.progress = NONE
    BY <2>1, <2>3, <2>4 DEF SameProgress, BoundedProgress, n
  <2>5. CASE a.progress # NONE
    <3>1. ProgressAccepts(r, a.progress)
      BY <2>1, <2>5 DEF ReanchorAccepts
    <3> QED  BY <2>1, <2>2, <2>3, <2>5, <3>1, ProgressBounded DEF n
  <2> QED  BY <2>4, <2>5
<1>4. CASE req.method \notin {"review.refresh", "review.progress", "review.reanchor"}
  BY <1>4, ApplyEffects DEF Effects, SameProgress, BoundedProgress
<1> QED  BY <1>1, <1>2, <1>3, <1>4

LEMMA SubmissionsBounded ==
  ASSUME NEW r \in Review, NEW req \in Calls, Accepts(r, req), SubmissionIds(r), Bounded(r)
  PROVE  LET n == Apply(r, req)
         IN  /\ Within(n.submissions, MaxSubmissions)
             /\ \A s \in n.submissions : Within(s.acknowledged_by, MaxConsumers)
<1> DEFINE a == req.args
           n == Apply(r, req)
<1>0. /\ Within(r.submissions, MaxSubmissions)
      /\ \A s \in r.submissions : Within(s.acknowledged_by, MaxConsumers)
  BY DEF Bounded
<1>1. CASE req.method = "feedback.submit"
  <2>1. n = Submit(r, a) /\ Cardinality(r.submissions) < MaxSubmissions
    BY <1>1 DEF Apply, Accepts, SubmitAccepts
  <2>2. PICK new : new.acknowledged_by = {} /\ n.submissions = r.submissions \cup {new}
    BY <2>1, SubmittedNow
  <2>3. Within({}, MaxConsumers)
    BY FS_EmptySet, LimitTypes DEF Within
  <2>4. Within(r.submissions \cup {new}, MaxSubmissions)
    BY <1>0, <2>1, WithinAdded, LimitTypes DEF Within
  <2> HIDE DEF n
  <2> QED  BY <1>0, <2>2, <2>3, <2>4 DEF n
<1>2. CASE req.method = "feedback.ack"
  <2>1. n = Acknowledge(r, a) /\ AcknowledgeAccepts(r, a)
    BY <1>2 DEF Apply, Accepts
  <2>2. a.consumer \in Consumer
    BY <1>2, RequestTypes DEF HasArgs
  <2> DEFINE seen(s) == [s EXCEPT !.acknowledged_by = @ \cup {a.consumer}]
             f == [s \in r.submissions |-> IF s.id = a.submission THEN seen(s) ELSE s]
  <2>3. n.submissions = {IF s.id = a.submission THEN seen(s) ELSE s : s \in r.submissions}
    BY <2>1, <2>2, AcknowledgeTypes
  <2>4. \A s \in r.submissions : seen(s).acknowledged_by = s.acknowledged_by \cup {a.consumer}
    BY DEF Review, Submission
  <2> HIDE DEF n, seen, a
  <2>5. n.submissions = {f[s] : s \in r.submissions}
    BY <2>3
  <2>6. Within(n.submissions, MaxSubmissions)
    <3> HIDE DEF f
    <3> QED  BY <1>0, <2>5, WithinImage, LimitTypes
  <2>7. ASSUME NEW s \in r.submissions, s.id = a.submission
        PROVE  Within(seen(s).acknowledged_by, MaxConsumers)
    <3>1. a.consumer \in s.acknowledged_by \/ Cardinality(s.acknowledged_by) < MaxConsumers
      BY <2>1, <2>7 DEF AcknowledgeAccepts, SubmissionIds
    <3>2. IsFiniteSet(s.acknowledged_by) /\ Within(s.acknowledged_by, MaxConsumers)
      BY <1>0 DEF Within
    <3>3. CASE a.consumer \in s.acknowledged_by
      <4>1. s.acknowledged_by \cup {a.consumer} = s.acknowledged_by
        BY <3>3
      <4> QED  BY <2>4, <3>2, <4>1
    <3>4. CASE Cardinality(s.acknowledged_by) < MaxConsumers
      <4>1. Within(s.acknowledged_by \cup {a.consumer}, MaxConsumers)
        BY <3>2, <3>4, WithinAdded, LimitTypes
      <4> QED  BY <2>4, <4>1
    <3> QED  BY <3>1, <3>3, <3>4
  <2>8. \A s \in n.submissions : Within(s.acknowledged_by, MaxConsumers)
    BY <1>0, <2>3, <2>7
  <2> QED  BY <2>6, <2>8 DEF n
<1>3. CASE req.method \notin {"feedback.submit", "feedback.ack"}
  BY <1>0, <1>3, ApplyEffects DEF Effects
<1> QED  BY <1>1, <1>2, <1>3

LEMMA BoundedKept ==
  ASSUME NEW r \in Review, NEW req \in Calls, Admits(r, req), SubmissionIds(r), Bounded(r)
  PROVE  Bounded(Commit(r, req))
<1> DEFINE a == req.args
           n == Apply(r, req)
           c == Commit(r, req)
           receipt == MakeReceipt(r, n, req)
<1>0. Accepts(r, req) /\ Cardinality(r.mutations) < MaxReceipts
  BY DEF Admits
<1>1. /\ c.threads = n.threads /\ c.messages = n.messages /\ c.submissions = n.submissions
      /\ c.mutations = r.mutations \cup {receipt}
      /\ c.reviewed_files = n.reviewed_files /\ c.reviewed_hunks = n.reviewed_hunks
  BY CommitFields
<1>2. Within(n.threads, MaxThreads)
  <2>1. CASE req.method = "comment.add"
    <3>1. n = AddComment(r, a) /\ Cardinality(r.threads) < MaxThreads
      BY <1>0, <2>1 DEF Apply, Accepts, AddCommentAccepts
    <3>2. a \in [file: File, origin: Origin, body: Body]
      BY <2>1, RequestTypes DEF HasArgs
    <3> DEFINE thread == [id |-> r.revision + 1, file |-> a.file, generation |-> r.generation,
                          stale |-> FALSE, disposition |-> "open"]
    <3>3. n.threads = r.threads \cup {thread}
      BY <3>1, <3>2, AddTypes
    <3> HIDE DEF n, thread
    <3>4. IsFiniteSet(r.threads)
      BY DEF Bounded, Within
    <3> QED  BY <3>1, <3>3, <3>4, WithinAdded, LimitTypes
  <2>2. CASE req.method # "comment.add"
    <3>1. PICK f : n.threads = {f[t] : t \in r.threads}
      BY <2>2, ThreadsRenewed
    <3> HIDE DEF n
    <3> QED  BY <3>1, WithinImage, LimitTypes DEF Bounded
  <2> QED  BY <2>1, <2>2
<1>3. Within(n.messages, MaxMessages)
  <2>1. CASE req.method \in {"comment.add", "comment.reply"}
    <3>1. Cardinality(r.messages) < MaxMessages
      BY <1>0, <2>1 DEF Accepts, AddCommentAccepts, ReplyAccepts, MessageCapacity
    <3>2. \E m : n.messages = r.messages \cup {m}
      <4>1. CASE req.method = "comment.add"
        <5>1. n = AddComment(r, a)
          BY <4>1 DEF Apply
        <5>2. a \in [file: File, origin: Origin, body: Body]
          BY <4>1, RequestTypes DEF HasArgs
        <5>3. n.messages = r.messages \cup {NewMessage(r, r.revision + 1, NONE, a)}
          BY <5>1, <5>2, AddTypes
        <5> HIDE DEF n
        <5> QED  BY <5>3
      <4>2. CASE req.method = "comment.reply"
        <5>1. n = Reply(r, a)
          BY <4>2 DEF Apply
        <5>2. a \in [thread: Nat, reply_to: Nat, origin: Origin, body: Body]
          BY <4>2, RequestTypes DEF HasArgs
        <5>3. n.messages = r.messages \cup {NewMessage(r, a.thread, a.reply_to, a)}
          BY <5>1, <5>2, ReplyTypes
        <5> HIDE DEF n
        <5> QED  BY <5>3
      <4> QED  BY <2>1, <4>1, <4>2
    <3> HIDE DEF n
    <3>3. IsFiniteSet(r.messages) /\ MaxMessages \in Nat
      BY LimitTypes DEF Bounded, Within
    <3>4. PICK m : n.messages = r.messages \cup {m}
      BY <3>2
    <3> QED  BY <3>1, <3>3, <3>4, WithinAdded
  <2>2. CASE req.method \notin {"comment.add", "comment.reply"}
    <3>1. PICK f : n.messages = {f[m] : m \in r.messages}
      BY <2>2, MessagesRenewed
    <3> HIDE DEF n
    <3> QED  BY <3>1, WithinImage, LimitTypes DEF Bounded
  <2> QED  BY <2>1, <2>2
<1>4. Within(r.mutations \cup {receipt}, MaxReceipts)
  <2> HIDE DEF receipt
  <2> QED  BY <1>0, WithinAdded, LimitTypes DEF Bounded, Within
<1>5. /\ Within(n.submissions, MaxSubmissions)
      /\ \A s \in n.submissions : Within(s.acknowledged_by, MaxConsumers)
  BY <1>0, SubmissionsBounded
<1>6. BoundedProgress(n)
  BY <1>0, ProgressKept DEF Bounded
<1> HIDE DEF n, c, receipt
<1> QED  BY <1>1, <1>2, <1>3, <1>4, <1>5, <1>6 DEF Bounded, BoundedProgress, c

(* The change log never names a generation that is still to come. *)
ChangeGenerations(r) ==
    \A k \in DOMAIN r.changes : r.changes[k].generation \in 1..r.generation

LEMMA ChangeGenerationsKept ==
  ASSUME NEW r \in Review, NEW req \in Calls, Comments(r), Deliveries(r), ChangeGenerations(r)
  PROVE  ChangeGenerations(Commit(r, req))
<1> DEFINE c == Commit(r, req)
           n == Apply(r, req)
           old == r.changes
           change == [revision |-> r.revision + 1, kind |-> req.method, generation |-> n.generation]
           full == Append(old, change)
<1>1. /\ c.generation = n.generation /\ c.changes = Logged(old, change)
      /\ n.generation \in {r.generation, r.generation + 1} /\ r.generation \in Nat
      /\ r.generation >= 1 /\ old \in Seq(Change)
  BY CommitFields, HistoryGrows DEF Review, Deliveries
<1>2. change.generation = n.generation
  OBVIOUS
<1>3. change \in Change
  <2>1. n.generation \in Nat /\ req.method \in Methods /\ r.revision + 1 \in Nat
    BY ApplyTypes, RequestTypes DEF Review
  <2> QED  BY <2>1 DEF Change
<1> HIDE DEF c, n, change
<1>4. /\ Len(full) = Len(old) + 1 /\ full \in Seq(Change)
      /\ \A k \in 1..Len(old) : full[k] = old[k]
      /\ full[Len(old) + 1] = change
  BY <1>1, <1>3
<1>5. \A k \in 1..Len(full) : full[k].generation \in 1..c.generation
  BY <1>1, <1>2, <1>4 DEF ChangeGenerations
<1> HIDE DEF full
<1>6. c.changes \in {full, Tail(full)}
  BY <1>1 DEF Logged, full
<1>7. ASSUME NEW k \in DOMAIN c.changes
      PROVE  c.changes[k].generation \in 1..c.generation
  <2>1. CASE c.changes = full
    BY <1>4, <1>5, <2>1
  <2>2. CASE c.changes = Tail(full)
    <3>1. /\ DOMAIN Tail(full) = 1..Len(old)
          /\ \A j \in 1..Len(old) : Tail(full)[j] = full[j + 1]
      BY <1>1, <1>4
    <3> QED  BY <1>1, <1>4, <1>5, <2>2, <3>1
  <2> QED  BY <1>6, <2>1, <2>2
<1> QED  BY <1>7 DEF ChangeGenerations, c

(* Together they are what validate_record asks for. *)
LEMMA RecordsAreValid ==
  ASSUME NEW r \in Review, SubmissionIds(r), ChangeLog(r), OneResult(r), Comments(r),
         Deliveries(r), Bounded(r), ChangeGenerations(r)
  PROVE  ValidRecord(r)
<1>1. r.generation \in Nat /\ r.revision \in Nat /\ r.generation >= 1 /\ r.revision >= 1
  BY DEF Review, Deliveries, Comments
<1>2. /\ r.changes \in Seq(Change)
      /\ Len(r.changes) = (IF r.revision < MaxChanges THEN r.revision ELSE MaxChanges)
      /\ \A k \in DOMAIN r.changes : r.changes[k].revision = r.revision - Len(r.changes) + k
  BY DEF Review, ChangeLog
<1>3. WithinLimits(r)
  BY <1>1, <1>2, LimitTypes DEF WithinLimits, Bounded, BoundedProgress, Within
<1>4. ValidChanges(r)
  <2>1. DOMAIN r.changes = 1..Len(r.changes) /\ Len(r.changes) \in Nat
    BY <1>2
  <2>2. \A k \in DOMAIN r.changes : r.changes[k].revision \in 1..r.revision
    BY <1>1, <1>2, <2>1, LimitTypes
  <2>3. \A i, j \in DOMAIN r.changes : i < j => r.changes[i].revision < r.changes[j].revision
    BY <1>1, <1>2, <2>1
  <2> QED  BY <2>2, <2>3 DEF ValidChanges, ChangeGenerations
<1>5. ValidSubmissions(r)
  <2>1. \A s \in r.submissions : \A m \in s.messages : \E n \in r.messages : n.id = m.id
    BY DEF Deliveries, Later
  <2>2. \A s \in r.submissions : Cardinality(s.acknowledged_by) <= MaxConsumers
    BY DEF Bounded, Within
  <2> QED  BY <2>1, <2>2 DEF ValidSubmissions, SubmissionIds, Deliveries
<1> QED  BY <1>1, <1>3, <1>4, <1>5 DEF ValidRecord, Comments, OneResult

---------------------------------------------------------------------------
(* What moves only when it is asked for *)

(* Only review.refresh replaces the snapshot, and takes the next generation. *)
LEMMA SnapshotMoves ==
  ASSUME NEW r \in Review, NEW req \in Calls
  PROVE  LET n == Apply(r, req)
         IN  /\ n.patch # r.patch <=> n.generation # r.generation
             /\ n.patch # r.patch => /\ n.generation = r.generation + 1
                                     /\ req.method = "review.refresh"
<1> DEFINE a == req.args
           n == Apply(r, req)
<1>1. CASE req.method = "review.refresh"
  <2>1. n = Refresh(r, a)
    BY <1>1 DEF Apply
  <2>2. a.patch \in Patch
    BY <1>1, RequestTypes DEF HasArgs
  <2> HIDE DEF n, a
  <2>3. /\ a.patch = r.patch => Refresh(r, a) = r
        /\ a.patch # r.patch => /\ Refresh(r, a).patch = a.patch
                                /\ Refresh(r, a).generation = r.generation + 1
    BY <2>2, RefreshTypes
  <2>4. r.generation \in Nat
    BY DEF Review
  <2> QED  BY <1>1, <2>1, <2>3, <2>4 DEF n
<1>2. CASE req.method # "review.refresh"
  BY <1>2, ApplyEffects DEF Effects, SameSnapshot
<1> QED  BY <1>1, <1>2

(* A stale thread stays stale until it is reanchored. *)
LEMMA StaleKept ==
  ASSUME NEW r \in Review, NEW req \in Calls, Comments(r), req.method # "review.reanchor",
         NEW t \in r.threads, t.stale,
         NEW u \in Apply(r, req).threads, u.id = t.id
  PROVE  u.stale
<1> DEFINE a == req.args
           n == Apply(r, req)
<1>0. /\ \A s \in r.threads : s.id = t.id => s = t
      /\ t.id \in Nat /\ t.id <= r.revision /\ r.revision \in Nat
  BY DEF Comments, ValidThreads, Review, Thread
<1>1. CASE req.method = "review.refresh"
  <2>1. n = Refresh(r, a)
    BY <1>1 DEF Apply
  <2>2. a.patch \in Patch
    BY <1>1, RequestTypes DEF HasArgs
  <2>3. CASE a.patch = r.patch
    BY <1>0, <2>1, <2>2, <2>3, RefreshTypes
  <2>4. CASE a.patch # r.patch
    <3> DEFINE retained == UnchangedPaths(r.patch, a.patch)
               carried(s) == CarryThread(s, retained, r.generation + 1)
    <3>1. n.threads = {carried(s) : s \in r.threads}
      BY <2>1, <2>2, <2>4, RefreshTypes
    <3>2. PICK s \in r.threads : u = carried(s)
      BY <3>1
    <3>3. carried(s).id = s.id
      BY DEF CarryThread, Review, Thread
    <3>4. s = t
      BY <1>0, <3>2, <3>3
    <3>5. carried(t).stale
      BY DEF CarryThread, Review, Thread
    <3> QED  BY <3>2, <3>4, <3>5
  <2> QED  BY <2>3, <2>4
<1>2. CASE req.method = "comment.add"
  <2>1. n = AddComment(r, a)
    BY <1>2 DEF Apply
  <2>2. a \in [file: File, origin: Origin, body: Body]
    BY <1>2, RequestTypes DEF HasArgs
  <2> DEFINE thread == [id |-> r.revision + 1, file |-> a.file, generation |-> r.generation,
                        stale |-> FALSE, disposition |-> "open"]
  <2>3. n.threads = r.threads \cup {thread} /\ thread.id = r.revision + 1
    BY <2>1, <2>2, AddTypes
  <2> HIDE DEF n, thread
  <2>4. u \in r.threads
    BY <1>0, <2>3 DEF n
  <2> QED  BY <1>0, <2>4
<1>3. CASE req.method = "review.disposition"
  <2>1. n = Disposition(r, a)
    BY <1>3 DEF Apply
  <2>2. a.disposition \in Dispositions
    BY <1>3, RequestTypes DEF HasArgs
  <2>3. PICK s \in r.threads : u.id = s.id /\ u.stale = s.stale
    BY <2>1, <2>2, DispositionTypes
  <2> QED  BY <1>0, <2>3
<1>4. CASE req.method \notin {"review.refresh", "comment.add", "review.disposition"}
  BY <1>0, <1>4, ApplyEffects DEF Effects
<1> QED  BY <1>1, <1>2, <1>3, <1>4

(* The last entry of the change log is the one just made. *)
LEMMA LoggedLast ==
  ASSUME NEW changes \in Seq(Change), NEW change \in Change
  PROVE  LET log == Logged(changes, change)
         IN  log[Len(log)] = change
<1> DEFINE full == Append(changes, change)
<1>1. /\ full \in Seq(Change) /\ Len(full) = Len(changes) + 1 /\ Len(changes) \in Nat
      /\ full[Len(full)] = change
  OBVIOUS
<1>2. CASE Len(changes) >= MaxChanges
  <2>1. Len(changes) >= 1
    BY <1>1, <1>2, LimitTypes
  <2> HIDE DEF full
  <2>2. Len(Tail(full)) = Len(changes) /\ Tail(full)[Len(changes)] = full[Len(changes) + 1]
    BY <1>1, <2>1
  <2> QED  BY <1>1, <1>2, <2>2 DEF Logged, full
<1>3. CASE ~(Len(changes) >= MaxChanges)
  BY <1>1, <1>3 DEF Logged
<1> QED  BY <1>2, <1>3

---------------------------------------------------------------------------
(* Everything a commit keeps of a record. *)

RecordInv(r) ==
    /\ SubmissionIds(r) /\ Receipts(r) /\ ChangeLog(r) /\ Replayable(r)
    /\ OnEvidence(r) /\ OnUnchanged(r) /\ VerdictCurrent(r) /\ ReturnCurrent(r) /\ News(r)
    /\ OneResult(r) /\ Comments(r) /\ Deliveries(r) /\ Bounded(r) /\ ChangeGenerations(r)

LEMMA RecordInvKept ==
  ASSUME NEW r \in Review, NEW req \in Calls, Admits(r, req), RecordInv(r)
  PROVE  Commit(r, req) \in Review /\ RecordInv(Commit(r, req))
<1>1. Commit(r, req) \in Review
  BY CommitFields
<1>2. SubmissionIds(Commit(r, req)) /\ Receipts(Commit(r, req)) /\ ChangeLog(Commit(r, req))
  BY SubmissionIdsKept, ReceiptsKept, ChangeLogKept DEF RecordInv
<1>3. Replayable(Commit(r, req)) /\ OnEvidence(Commit(r, req)) /\ OnUnchanged(Commit(r, req))
  BY ReplayableKept, OnEvidenceKept, OnUnchangedKept DEF RecordInv
<1>4. VerdictCurrent(Commit(r, req)) /\ ReturnCurrent(Commit(r, req)) /\ News(Commit(r, req))
  BY VerdictCurrentKept, ReturnCurrentKept, NewsKept DEF RecordInv
<1>5. OneResult(Commit(r, req)) /\ Comments(Commit(r, req)) /\ Deliveries(Commit(r, req))
  BY OneResultKept, CommentsKept, DeliveriesKept DEF RecordInv
<1>6. Bounded(Commit(r, req)) /\ ChangeGenerations(Commit(r, req))
  BY BoundedKept, ChangeGenerationsKept DEF RecordInv
<1> QED  BY <1>1, <1>2, <1>3, <1>4, <1>5, <1>6 DEF RecordInv

LEMMA NewReviewInv ==
  ASSUME NEW binding \in Binding, NEW source \in Source, NEW patch \in Patch
  PROVE  NewReview(binding, source, patch) \in Review /\ RecordInv(NewReview(binding, source, patch))
<1> DEFINE r == NewReview(binding, source, patch)
           opened == [revision |-> 1, kind |-> "review.opened", generation |-> 1]
           history == [anchored |-> {}, marked |-> {}, judged |-> NONE, results |-> {}]
<1>1. opened \in Change /\ history \in History
  BY DEF Change, History
<1>2. /\ r.revision = 1 /\ r.generation = 1 /\ r.threads = {} /\ r.messages = {}
      /\ r.submissions = {} /\ r.last_return = NONE
      /\ r.changes = <<opened>> /\ r.reviewed_files = {} /\ r.reviewed_hunks = {}
      /\ r.verdict = NONE /\ r.mutations = {} /\ r.history.results = {}
  BY DEF NewReview
<1>3. r = [binding |-> binding, source |-> source, generation |-> 1, revision |-> 1,
           patch |-> patch, threads |-> {}, messages |-> {}, submissions |-> {},
           last_return |-> NONE, changes |-> <<opened>>, reviewed_files |-> {},
           reviewed_hunks |-> {}, verdict |-> NONE, mutations |-> {}, history |-> history]
  BY DEF NewReview
<1>4. opened.revision = 1 /\ opened.generation = 1
  OBVIOUS
<1> HIDE DEF opened, history, r
<1>5. r \in Review
  BY <1>1, <1>3 DEF Review
<1>6. MaxChanges \in Nat \ {0}
  BY RecordAssumption DEF Limits
<1>7. SubmissionIds(r) /\ Receipts(r) /\ Replayable(r) /\ OnEvidence(r)
  BY <1>2 DEF SubmissionIds, Receipts, Replayable, OnEvidence
<1>8. ChangeLog(r)
  <2>1. /\ Len(<<opened>>) = 1 /\ DOMAIN <<opened>> = {1} /\ <<opened>>[1] = opened
    OBVIOUS
  <2> QED  BY <1>2, <1>4, <1>6, <2>1 DEF ChangeLog
<1>9. OnUnchanged(r) /\ VerdictCurrent(r) /\ ReturnCurrent(r) /\ News(r)
  BY <1>2 DEF OnUnchanged, Items, VerdictCurrent, ReturnCurrent, News
<1>10. OneResult(r) /\ Comments(r) /\ Deliveries(r)
  BY <1>2 DEF OneResult, Comments, ValidThreads, Deliveries
<1>11. Bounded(r)
  BY <1>2, FS_EmptySet, LimitTypes DEF Bounded, BoundedProgress, Within
<1>12. ChangeGenerations(r)
  <2>1. DOMAIN <<opened>> = {1} /\ <<opened>>[1] = opened
    OBVIOUS
  <2> QED  BY <1>2, <1>4, <2>1 DEF ChangeGenerations
<1> QED  BY <1>5, <1>7, <1>8, <1>9, <1>10, <1>11, <1>12 DEF RecordInv, r
=============================================================================
