------------------------------ MODULE ReviewRecord ------------------------------
(***************************************************************************)
(* One durable review and what each mutation does to it                    *)
(* (crates/mark-session/src/review.rs).  Everything here is a function of  *)
(* a record and a request: the modules that read and write checkpoints     *)
(* build on it.                                                            *)
(*                                                                         *)
(* Abstractions.  An identity made by unique_id() is the revision of the   *)
(* mutation that made it, so the order of identities is the order in which *)
(* the code pushes entities on its vectors, and the vectors are sets.  The *)
(* messages of all threads are one set, each naming its thread.  A patch   *)
(* is a token; Sections gives what snapshot.rs reads in it.  The SHA-256   *)
(* of a request is the request.  Lengths and spellings of strings are left *)
(* out: every input is well formed.                                        *)
(***************************************************************************)
EXTENDS Integers, Sequences, FiniteSets

CONSTANTS
    NONE,            \* an absent value (None, or a JSON null)
    KEEP,            \* a key the request does not have
    File,            \* repository-relative paths
    Hunk,            \* one-based hunk numbers
    Section,         \* contents of one file's section of a patch
    Patch,           \* snapshots
    Sections,        \* Sections[p][f]: the one section patch p has for file f
    Source,          \* comparisons a review can be about
    Conversation,    \* a harness and one of its conversations
    Repository,      \* canonical worktrees
    Body,            \* message texts
    Verdict,         \* final verdicts
    Consumer,        \* readers of feedback
    ReviewId,        \* names of checkpoints
    MutationId,      \* client_mutation_id values
    Calls,           \* the mutations clients may ask for: the bound of a run
    MaxThreads, MaxMessages, MaxChanges, MaxReceipts, MaxSubmissions,
    MaxConsumers, MaxReviewedFiles, MaxReviewedHunks   \* the explicit caps

Limits == {MaxThreads, MaxMessages, MaxChanges, MaxReceipts, MaxSubmissions,
           MaxConsumers, MaxReviewedFiles, MaxReviewedHunks}

ASSUME RecordAssumption ==
    /\ Sections \in [Patch -> [File -> Section \cup {NONE}]]
    /\ Limits \subseteq Nat \ {0}
    /\ Hunk \subseteq Nat \ {0}
    /\ NONE \notin Section \cup Source \cup Verdict \cup Body
    /\ NONE \notin Nat
    /\ KEEP \notin Verdict \cup {NONE}

---------------------------------------------------------------------------
(* The record. *)

Binding == [conversation: Conversation, repository: Repository]
Origin == {"human", "agent"}
Dispositions == {"open", "accepted", "dismissed", "blocking", "non_blocking", "fixed"}
Outcomes == {"back", "submitted", "cancelled"}

Thread == [id: Nat, file: File, generation: Nat, stale: BOOLEAN, disposition: Dispositions]

Message == [id: Nat, thread: Nat, reply_to: Nat \cup {NONE}, origin: Origin,
            body: Body \cup {NONE}, revision: Nat, deleted: BOOLEAN]

Submission == [id: Nat, generation: Nat, threads: SUBSET Thread,
               messages: SUBSET Message, acknowledged_by: SUBSET Consumer]

ReviewReturn == [outcome: Outcomes, submission_ids: SUBSET Nat, revision: Nat]

Methods == {"review.refresh", "comment.add", "comment.reply", "comment.edit", "comment.remove",
            "feedback.submit", "feedback.ack", "review.finish", "review.disposition",
            "review.progress", "review.reanchor", "review.begin"}

Change == [revision: Nat, kind: Methods \cup {"review.opened"}, generation: Nat]

(* What a list of a request can hold. *)
Lists(S) == {list \in SUBSET S : IsFiniteSet(list)}

(* The parameters of each method, beside the ones every mutation has. *)
ProgressArgs == [file: File \cup {NONE}, reviewed: BOOLEAN,
                 reviewed_files: Lists(File) \cup {KEEP},
                 reviewed_hunks: Lists(File \X Hunk) \cup {KEEP},
                 verdict: Verdict \cup {NONE, KEEP}]

IsAnchorUpdates(u) ==
    /\ DOMAIN u \subseteq Nat
    /\ u \in [DOMAIN u -> [file: File, stale: BOOLEAN]]

HasArgs(method, a) ==
    CASE method = "review.refresh" -> a \in [patch: Patch, source: Source \cup {NONE}]
      [] method = "comment.add" -> a \in [file: File, origin: Origin, body: Body]
      [] method = "comment.reply" ->
            a \in [thread: Nat, reply_to: Nat, origin: Origin, body: Body]
      [] method = "comment.edit" -> a \in [message: Nat, body: Body]
      [] method = "comment.remove" -> a \in [message: Nat]
      [] method = "feedback.submit" -> a = [thread_ids |-> NONE] \/ a \in [thread_ids: SUBSET Nat]
      [] method = "feedback.ack" -> a \in [submission: Nat, consumer: Consumer]
      [] method = "review.finish" -> a \in [outcome: Outcomes, submission_ids: SUBSET Nat]
      [] method = "review.disposition" -> a \in [thread: Nat, disposition: Dispositions]
      [] method = "review.progress" -> a \in ProgressArgs \ {NONE}
      [] method = "review.reanchor" -> /\ a = [updates |-> a.updates, progress |-> a.progress]
                                       /\ IsAnchorUpdates(a.updates)
                                       /\ a.progress = NONE \/ a.progress \in ProgressArgs
      [] method = "review.begin" -> a = NONE

IsRequest(req) ==
    /\ req = [method |-> req.method, mid |-> req.mid, generation |-> req.generation,
              expected |-> req.expected, args |-> req.args]
    /\ req.method \in Methods
    /\ req.mid \in MutationId
    /\ req.generation \in Nat
    /\ req.expected = NONE \/ req.expected \in Nat
    /\ HasArgs(req.method, req.args)

ASSUME CallsAssumption == \A req \in Calls : IsRequest(req)

Result == [generation: Nat, revision: Nat, submission: Submission \cup {NONE}]

Receipt == [mid: MutationId, request: Calls, generation: Nat, revision: Nat,
            submission_ref: Nat \cup {NONE}]

(***************************************************************************)
(* History, which no handler reads: the section of its file a thread was   *)
(* last anchored in, the section a review mark was last put on (hunk 0 is  *)
(* the file itself), the patch the verdict was given on, and what the      *)
(* first caller of each mutation was told.                                 *)
(***************************************************************************)
History == [anchored: SUBSET (Nat \X (Section \cup {NONE})),
            marked: SUBSET ((File \X (Hunk \cup {0})) \X (Section \cup {NONE})),
            judged: Patch \cup {NONE},
            results: SUBSET [mid: MutationId, result: Result]]

Review == [binding: Binding, source: Source, generation: Nat, revision: Nat, patch: Patch,
           threads: SUBSET Thread, messages: SUBSET Message, submissions: SUBSET Submission,
           last_return: ReviewReturn \cup {NONE}, changes: Seq(Change),
           reviewed_files: SUBSET File, reviewed_hunks: SUBSET (File \X Hunk),
           verdict: Verdict \cup {NONE}, mutations: SUBSET Receipt, history: History]

ASSUME NoneAssumption == NONE \notin Review

NewReview(binding, source, patch) ==
    [binding |-> binding, source |-> source, generation |-> 1, revision |-> 1, patch |-> patch,
     threads |-> {}, messages |-> {}, submissions |-> {}, last_return |-> NONE,
     changes |-> <<[revision |-> 1, kind |-> "review.opened", generation |-> 1]>>,
     reviewed_files |-> {}, reviewed_hunks |-> {}, verdict |-> NONE, mutations |-> {},
     history |-> [anchored |-> {}, marked |-> {}, judged |-> NONE, results |-> {}]]

BoundTo(r, binding, source) == r # NONE /\ r.binding = binding /\ r.source = source
NextRevision(r) == r.revision + 1
HasThread(r, id) == \E t \in r.threads : t.id = id
(* Mutant: one message too many. *)
MessageCapacity_OffByOne(r) == Cardinality(r.messages) <= MaxMessages
MessageCapacity(r) == Cardinality(r.messages) < MaxMessages

---------------------------------------------------------------------------
(* review.refresh *)

(* Mutant: a file in both patches is taken for unchanged. *)
UnchangedPaths_Present(before, after) ==
    {f \in File : Sections[after][f] # NONE /\ Sections[before][f] # NONE}

(* Only a section that both patches have, once and readable, is evidence. *)
UnchangedPaths(before, after) ==
    {f \in File : Sections[after][f] # NONE /\ Sections[before][f] = Sections[after][f]}

(* Mutant: a stale thread is carried too. *)
CarryThread_RevivesStale(t, retained, generation) ==
    IF t.file \in retained THEN [t EXCEPT !.stale = FALSE, !.generation = generation]
    ELSE [t EXCEPT !.stale = TRUE]

CarryThread(t, retained, generation) ==
    IF t.file \in retained
    THEN IF t.stale THEN t ELSE [t EXCEPT !.generation = generation]
    ELSE [t EXCEPT !.stale = TRUE]

RefreshAccepts(r, a) == a.source \in {NONE, r.source}

Refresh(r, a) ==
    LET retained == UnchangedPaths(r.patch, a.patch)
    IN  IF a.patch = r.patch THEN r
        ELSE [r EXCEPT !.patch = a.patch,
                       !.generation = @ + 1,
                       !.threads = {CarryThread(t, retained, r.generation + 1) : t \in @},
                       !.reviewed_files = @ \cap retained,
                       !.reviewed_hunks = {h \in @ : h[1] \in retained},
                       !.verdict = NONE,
                       !.last_return = NONE]

---------------------------------------------------------------------------
(* Comments *)

NewMessage(r, thread, reply_to, a) ==
    [id |-> NextRevision(r), thread |-> thread, reply_to |-> reply_to, origin |-> a.origin,
     body |-> a.body, revision |-> NextRevision(r), deleted |-> FALSE]

AddCommentAccepts(r, a) == Cardinality(r.threads) < MaxThreads /\ MessageCapacity(r)

AddComment(r, a) ==
    LET thread == [id |-> NextRevision(r), file |-> a.file, generation |-> r.generation,
                   stale |-> FALSE, disposition |-> "open"]
    IN  [r EXCEPT !.threads = @ \cup {thread},
                  !.messages = @ \cup {NewMessage(r, thread.id, NONE, a)}]

ReplyAccepts(r, a) ==
    /\ MessageCapacity(r)
    /\ HasThread(r, a.thread)
    /\ \E m \in r.messages : m.id = a.reply_to /\ m.thread = a.thread

Reply(r, a) == [r EXCEPT !.messages = @ \cup {NewMessage(r, a.thread, a.reply_to, a)}]

(* edit_comment: a human message, and for an edit the last one still there. *)
EditAccepts(r, a) ==
    \E m \in r.messages :
        /\ m.id = a.message /\ m.origin = "human" /\ ~m.deleted
        /\ \A n \in r.messages : n.thread = m.thread /\ n.id > m.id
                                   => n.origin # "human" \/ n.deleted

RemoveAccepts(r, a) == \E m \in r.messages : m.id = a.message /\ m.origin = "human"

(* Mutant: the submissions share the messages instead of copying them. *)
Rewrite_Shared(r, id, body, deleted) ==
    LET rewritten(m) ==
            IF m.id = id
            THEN [m EXCEPT !.body = body, !.deleted = deleted, !.revision = NextRevision(r)]
            ELSE m
    IN  [r EXCEPT !.messages = {rewritten(m) : m \in @},
                  !.submissions = {[s EXCEPT !.messages = {rewritten(m) : m \in @}] : s \in @}]

Rewrite(r, id, body, deleted) ==
    [r EXCEPT !.messages =
        {IF m.id = id
         THEN [m EXCEPT !.body = body, !.deleted = deleted, !.revision = NextRevision(r)]
         ELSE m : m \in @}]

EditComment(r, a) == Rewrite(r, a.message, a.body, FALSE)
RemoveComment(r, a) == Rewrite(r, a.message, NONE, TRUE)

DispositionAccepts(r, a) == HasThread(r, a.thread)

Disposition(r, a) ==
    [r EXCEPT !.threads = {IF t.id = a.thread THEN [t EXCEPT !.disposition = a.disposition]
                                              ELSE t : t \in @}]

---------------------------------------------------------------------------
(* Feedback *)

(* Mutant: only what a consumer acknowledged counts as delivered. *)
PreviouslySubmitted_Acknowledged(r) ==
    UNION {{<<m.id, m.revision>> : m \in s.messages}
              : s \in {e \in r.submissions : e.acknowledged_by # {}}}

PreviouslySubmitted(r) ==
    UNION {{<<m.id, m.revision>> : m \in s.messages} : s \in r.submissions}

NewFeedback(r) ==
    {m \in r.messages : /\ m.origin = "human" /\ ~m.deleted
                        /\ <<m.id, m.revision>> \notin PreviouslySubmitted(r)}

SelectedThreads(r, a) ==
    {t \in r.threads : /\ a.thread_ids # NONE => t.id \in a.thread_ids
                       /\ \E m \in NewFeedback(r) : m.thread = t.id}

SubmitAccepts(r, a) ==
    /\ Cardinality(r.submissions) < MaxSubmissions
    /\ a.thread_ids # NONE => \A id \in a.thread_ids : HasThread(r, id)
    /\ SelectedThreads(r, a) # {}

(* The submission keeps its own copy of the threads it delivers. *)
Submit(r, a) ==
    LET threads == SelectedThreads(r, a)
        submission == [id |-> NextRevision(r), generation |-> r.generation, threads |-> threads,
                       messages |-> {m \in r.messages : \E t \in threads : t.id = m.thread},
                       acknowledged_by |-> {}]
    IN  [r EXCEPT !.submissions = @ \cup {submission}]

AcknowledgeAccepts(r, a) ==
    \E s \in r.submissions :
        /\ s.id = a.submission
        /\ a.consumer \in s.acknowledged_by \/ Cardinality(s.acknowledged_by) < MaxConsumers

Acknowledge(r, a) ==
    [r EXCEPT !.submissions =
        {IF s.id = a.submission THEN [s EXCEPT !.acknowledged_by = @ \cup {a.consumer}]
                                ELSE s : s \in @}]

(* Mutant: submissions of an earlier generation may be returned. *)
FinishAccepts_AnyGeneration(r, a) ==
    /\ \A id \in a.submission_ids : \E s \in r.submissions : s.id = id
    /\ a.outcome = "submitted" <=> a.submission_ids # {}

FinishAccepts(r, a) ==
    /\ \A id \in a.submission_ids :
           \E s \in r.submissions : s.id = id /\ s.generation = r.generation
    /\ a.outcome = "submitted" <=> a.submission_ids # {}

Finish(r, a) ==
    [r EXCEPT !.last_return = [outcome |-> a.outcome, submission_ids |-> a.submission_ids,
                               revision |-> NextRevision(r)]]

Begin(r) == [r EXCEPT !.last_return = NONE]

---------------------------------------------------------------------------
(* Progress and reanchoring *)

Given(value, current) == IF value = KEEP THEN current ELSE value

(* Mutant: a request that does not name the verdict overwrites it. *)
Progress_VerdictTaken(r, a) ==
    IF a.file # NONE
    THEN [r EXCEPT !.reviewed_files = IF a.reviewed THEN @ \cup {a.file} ELSE @ \ {a.file}]
    ELSE [r EXCEPT !.reviewed_files = Given(a.reviewed_files, @),
                   !.reviewed_hunks = Given(a.reviewed_hunks, @),
                   !.verdict = a.verdict]

(* One file toggled, or whole lists and the verdict replaced. *)
Progress(r, a) ==
    IF a.file # NONE
    THEN [r EXCEPT !.reviewed_files = IF a.reviewed THEN @ \cup {a.file} ELSE @ \ {a.file}]
    ELSE [r EXCEPT !.reviewed_files = Given(a.reviewed_files, @),
                   !.reviewed_hunks = Given(a.reviewed_hunks, @),
                   !.verdict = Given(a.verdict, @)]

ProgressAccepts(r, a) ==
    /\ Cardinality(Progress(r, a).reviewed_files) <= MaxReviewedFiles
    /\ Cardinality(Progress(r, a).reviewed_hunks) <= MaxReviewedHunks

(* The code takes a list and refuses a thread named twice; an update whose  *)
(* own generation is not the review's is refused as the request's is.      *)
ReanchorAccepts(r, a) ==
    /\ \A id \in DOMAIN a.updates : HasThread(r, id)
    /\ a.progress # NONE => ProgressAccepts(r, a.progress)

Reanchor(r, a) ==
    LET moved(t) == [t EXCEPT !.file = a.updates[t.id].file,
                              !.stale = a.updates[t.id].stale,
                              !.generation = r.generation]
        anchored == [r EXCEPT !.threads = {IF t.id \in DOMAIN a.updates THEN moved(t) ELSE t
                                              : t \in @}]
    IN  IF a.progress = NONE THEN anchored ELSE Progress(anchored, a.progress)

---------------------------------------------------------------------------
(* Dispatch, receipt and change log *)

Accepts(r, req) ==
    CASE req.method = "review.refresh"     -> RefreshAccepts(r, req.args)
      [] req.method = "comment.add"        -> AddCommentAccepts(r, req.args)
      [] req.method = "comment.reply"      -> ReplyAccepts(r, req.args)
      [] req.method = "comment.edit"       -> EditAccepts(r, req.args)
      [] req.method = "comment.remove"     -> RemoveAccepts(r, req.args)
      [] req.method = "feedback.submit"    -> SubmitAccepts(r, req.args)
      [] req.method = "feedback.ack"       -> AcknowledgeAccepts(r, req.args)
      [] req.method = "review.finish"      -> FinishAccepts(r, req.args)
      [] req.method = "review.disposition" -> DispositionAccepts(r, req.args)
      [] req.method = "review.progress"    -> ProgressAccepts(r, req.args)
      [] req.method = "review.reanchor"    -> ReanchorAccepts(r, req.args)
      [] req.method = "review.begin"       -> TRUE

Apply(r, req) ==
    CASE req.method = "review.refresh"     -> Refresh(r, req.args)
      [] req.method = "comment.add"        -> AddComment(r, req.args)
      [] req.method = "comment.reply"      -> Reply(r, req.args)
      [] req.method = "comment.edit"       -> EditComment(r, req.args)
      [] req.method = "comment.remove"     -> RemoveComment(r, req.args)
      [] req.method = "feedback.submit"    -> Submit(r, req.args)
      [] req.method = "feedback.ack"       -> Acknowledge(r, req.args)
      [] req.method = "review.finish"      -> Finish(r, req.args)
      [] req.method = "review.disposition" -> Disposition(r, req.args)
      [] req.method = "review.progress"    -> Progress(r, req.args)
      [] req.method = "review.reanchor"    -> Reanchor(r, req.args)
      [] req.method = "review.begin"       -> Begin(r)

ReceiptOf(r, mid) == CHOOSE x \in r.mutations : x.mid = mid
HasReceipt(r, mid) == \E x \in r.mutations : x.mid = mid

(* The checks between the receipt lookup and the handler. *)
Admits(r, req) ==
    /\ ~HasReceipt(r, req.mid)
    /\ Cardinality(r.mutations) < MaxReceipts
    /\ req.generation = r.generation
    /\ req.expected \in {NONE, r.revision}
    /\ Accepts(r, req)

(* A submit receipt refers to the submission instead of holding it. *)
MakeReceipt(r, applied, req) ==
    [mid |-> req.mid, request |-> req, generation |-> applied.generation,
     revision |-> NextRevision(r),
     submission_ref |-> IF req.method = "feedback.submit" THEN NextRevision(r) ELSE NONE]

(* Mutant: a retry is shown the submission as it is now. *)
ReceiptResult_Current(r, receipt) ==
    [generation |-> receipt.generation, revision |-> receipt.revision,
     submission |-> IF receipt.submission_ref = NONE THEN NONE
                    ELSE CHOOSE s \in r.submissions : s.id = receipt.submission_ref]

(* The acknowledgements a submission gathered since are not part of the answer. *)
ReceiptResult(r, receipt) ==
    [generation |-> receipt.generation, revision |-> receipt.revision,
     submission |-> IF receipt.submission_ref = NONE THEN NONE
                    ELSE [(CHOOSE s \in r.submissions : s.id = receipt.submission_ref)
                            EXCEPT !.acknowledged_by = {}]]

Logged(changes, change) ==
    IF Len(changes) >= MaxChanges THEN Tail(Append(changes, change)) ELSE Append(changes, change)

(* What the caller whose request is applied is told. *)
FirstResult(r, applied, req) ==
    [generation |-> applied.generation, revision |-> NextRevision(r),
     submission |-> IF req.method = "feedback.submit"
                    THEN CHOOSE s \in applied.submissions : s.id = NextRevision(r)
                    ELSE NONE]

(* History: the anchors, marks and verdict this request asserts. *)
AssertedAnchors(r, req) ==
    CASE req.method = "comment.add" -> {<<NextRevision(r), req.args.file>>}
      [] req.method = "review.reanchor" -> {<<id, req.args.updates[id].file>>
                                               : id \in DOMAIN req.args.updates}
      [] OTHER -> {}

AssertedProgress(req) ==
    CASE req.method = "review.progress" -> req.args
      [] req.method = "review.reanchor" -> req.args.progress
      [] OTHER -> NONE

AssertedMarks(req) ==
    LET a == AssertedProgress(req)
    IN  IF a = NONE THEN {}
        ELSE IF a.file # NONE THEN (IF a.reviewed THEN {<<a.file, 0>>} ELSE {})
        ELSE {<<f, 0>> : f \in Given(a.reviewed_files, {})} \cup Given(a.reviewed_hunks, {})

SetsVerdict(req) ==
    LET a == AssertedProgress(req)
    IN  a # NONE /\ a.file = NONE /\ a.verdict \notin {KEEP, NONE}

Remember(r, applied, req) ==
    LET anchors == AssertedAnchors(r, req)
        marks == AssertedMarks(req)
    IN  [anchored |-> {x \in r.history.anchored : \A a \in anchors : a[1] # x[1]}
                        \cup {<<a[1], Sections[applied.patch][a[2]]>> : a \in anchors},
         marked |-> {x \in r.history.marked : x[1] \notin marks}
                        \cup {<<m, Sections[applied.patch][m[1]]>> : m \in marks},
         judged |-> IF SetsVerdict(req) THEN applied.patch ELSE r.history.judged,
         results |-> r.history.results
                        \cup {[mid |-> req.mid, result |-> FirstResult(r, applied, req)]}]

(* ReviewStore::call from the handler to persist. *)
Commit(r, req) ==
    LET applied == Apply(r, req)
        change == [revision |-> NextRevision(r), kind |-> req.method,
                   generation |-> applied.generation]
    IN  [applied EXCEPT !.revision = NextRevision(r),
                        !.changes = Logged(@, change),
                        !.mutations = @ \cup {MakeReceipt(r, applied, req)},
                        !.history = Remember(r, applied, req)]

---------------------------------------------------------------------------
(* validate_record: what a checkpoint must satisfy to be written or loaded. *)

WithinLimits(r) ==
    /\ Cardinality(r.threads) <= MaxThreads
    /\ Cardinality(r.messages) <= MaxMessages
    /\ Len(r.changes) <= MaxChanges
    /\ Cardinality(r.mutations) <= MaxReceipts
    /\ Cardinality(r.submissions) <= MaxSubmissions
    /\ Cardinality(r.reviewed_files) <= MaxReviewedFiles
    /\ Cardinality(r.reviewed_hunks) <= MaxReviewedHunks

ValidThreads(r) ==
    /\ \A s, t \in r.threads : s.id = t.id => s = t
    /\ \A t \in r.threads : \E m \in r.messages : m.thread = t.id
    /\ \A m, n \in r.messages : m.id = n.id => m = n
    /\ \A m \in r.messages :
          /\ m.revision <= r.revision
          /\ m.body = NONE => m.deleted
          /\ m.reply_to # NONE =>
                \E n \in r.messages : n.id = m.reply_to /\ n.thread = m.thread /\ n.id < m.id

ValidSubmissions(r) ==
    /\ \A s, t \in r.submissions : s.id = t.id => s = t
    /\ \A s \in r.submissions :
          /\ s.generation \in 1..r.generation
          /\ s.id <= r.revision
          /\ \A t \in s.threads : HasThread(r, t.id)
          /\ \A m \in s.messages : \E n \in r.messages : n.id = m.id
          /\ Cardinality(s.acknowledged_by) <= MaxConsumers

ValidChanges(r) ==
    /\ \A i \in DOMAIN r.changes : /\ r.changes[i].revision \in 1..r.revision
                                   /\ r.changes[i].generation \in 1..r.generation
    /\ \A i, j \in DOMAIN r.changes : i < j => r.changes[i].revision < r.changes[j].revision

ValidRecord(r) ==
    /\ r.generation > 0 /\ r.revision > 0
    /\ WithinLimits(r)
    /\ ValidThreads(r)
    /\ ValidSubmissions(r)
    /\ ValidChanges(r)
    /\ \A x, y \in r.mutations : x.mid = y.mid => x = y
=============================================================================
