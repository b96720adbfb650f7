------------------------------ MODULE ViewSync ------------------------------
(***************************************************************************)
(* A terminal view attached to a durable review                            *)
(* (crates/mark-tui/src/integration.rs): the comments a reader writes, the *)
(* copy of the review it merges into them, and the sequence of store calls *)
(* that saves them, while other views and agents write the same review.    *)
(*                                                                         *)
(* The store is what ReviewStore is proved to be: every call is one step   *)
(* of one review, answered once.  Others are any accepted call at any      *)
(* time.  The view's source does not change, so it neither refreshes nor   *)
(* reanchors; a review has one generation.                                 *)
(***************************************************************************)
EXTENDS Integers, FiniteSets, Sequences, SequencesExt, Functions, TLC

CONSTANTS
    RemoteOrigin,                      \* who, besides the reader, adds messages
    NONE,                              \* no text, no identity, no receipt
    Scenarios                          \* what there is to write, and the bounds of a run

(* anchors, bodies, dispositions, files: lines, texts, states of findings,   *)
(* files to mark; events, remote, failures: how often the reader acts,       *)
(* others write and calls fail.                                              *)
ASSUME ViewAssumption ==
    /\ RemoteOrigin \subseteq {"human", "agent"}
    /\ \A s \in Scenarios :
          /\ "open" \in s.dispositions /\ NONE \notin s.bodies
          /\ {s.events, s.remote, s.failures} \subseteq Nat
          /\ \A set \in {s.anchors, s.bodies, s.files} : IsFiniteSet(set)

VARIABLES
    review,     \* the record of the store: revision, messages, dispositions, progress
    ui,         \* comments in order, next_id, marks, the open draft, dirty
    sync,       \* IntegratedReview
    at,         \* where the UI thread is
    step,       \* the store call under way and what was answered
    discarded,  \* history: messages whose comment the reader removed
    past,       \* history: messages the view takes for others (mistaken), comments
                \* whose baseline has changed since the signature (unsigned)
    used        \* the scenario, and how much of the bounds of the run is used

vars == <<review, ui, sync, at, step, discarded, past, used>>

Anchor == used.of.anchors
Body == used.of.bodies
Disposition == used.of.dispositions
File == used.of.files
Phases == {"events", "draw", "polled", "saving", "reply"}
NoStep == [of |-> NONE, call |-> NONE, answer |-> NONE]
NoDraft == [at |-> NONE, basis |-> {}]
OVERTAKEN == NONE                      \* in a basis: not all of it was shown

----------------------------------------------------------------------------
(* The review: what the store makes of a call *)

Threads(r) == {r.messages[m].thread : m \in DOMAIN r.messages}
There(r, m) == ~r.messages[m].deleted
DispositionOf(r, m) == r.dispositions[r.messages[m].thread]

(* edit_comment: a human message, and for an edit the last one still there. *)
RemoveAccepts(r, m) == m \in DOMAIN r.messages /\ r.messages[m].origin = "human"
EditAccepts(r, m) ==
    /\ RemoveAccepts(r, m) /\ There(r, m)
    /\ \A n \in DOMAIN r.messages :
        n > m /\ r.messages[n].thread = r.messages[m].thread
            => r.messages[n].origin # "human" \/ ~There(r, n)

Accepts(r, call) ==
    CASE call.method = "comment.edit"   -> EditAccepts(r, call.message)
      [] call.method = "comment.remove" -> RemoveAccepts(r, call.message)
      [] OTHER -> TRUE

Put(f, x, value) == [y \in DOMAIN f \cup {x} |-> IF y = x THEN value ELSE f[y]]

(* A message is named by the revision that made it, a thread by its first;   *)
(* `by` is history: who wrote its body.                                      *)
WithMessage(r, thread, anchor, origin, body, who) ==
    [r EXCEPT
        !.messages = Put(@, r.revision + 1,
                         [thread |-> thread, at |-> anchor, origin |-> origin,
                          body |-> body, deleted |-> FALSE, by |-> who]),
        !.dispositions = IF thread \in DOMAIN @ THEN @ ELSE Put(@, thread, "open")]

Apply(r, call, who) ==
    LET next ==
        CASE call.method = "comment.add" ->
                WithMessage(r, r.revision + 1, call.at, call.origin, call.body, who)
          [] call.method = "comment.reply" ->
                WithMessage(r, call.thread, r.messages[call.thread].at, call.origin, call.body, who)
          [] call.method = "comment.edit" ->
                [r EXCEPT !.messages[call.message].body = call.body,
                          !.messages[call.message].by = who]
          [] call.method = "comment.remove" ->
                [r EXCEPT !.messages[call.message].deleted = TRUE]
          [] call.method = "review.disposition" ->
                [r EXCEPT !.dispositions[call.thread] = call.disposition]
          [] call.method = "review.progress" -> [r EXCEPT !.marks = call.marks]
    IN  [next EXCEPT !.revision = r.revision + 1]

----------------------------------------------------------------------------
(* The comments of the view: ReviewCommentStore *)

Comments == ToSet(ui.comments)
CurrentIds == {c.id : c \in Comments}
IsHuman(c) == c.id[1] = "human"
Visible(c) == c.disp # "dismissed"
ShownIn(comments, a) == {i \in DOMAIN comments : comments[i].at = a /\ Visible(comments[i])}
HumansIn(comments, a) == {i \in ShownIn(comments, a) : IsHuman(comments[i])}
ShownAt(a) == ShownIn(ui.comments, a)
HumansAt(a) == HumansIn(ui.comments, a)
LastHumanAt(a) == ui.comments[Max(HumansAt(a))]

(* The comment a draft at a line edits, if there is one, and its text. *)
LastAt(comments, a) ==
    LET humans == HumansIn(comments, a)
    IN  IF humans = {} THEN <<>> ELSE <<comments[Max(humans)].id, comments[Max(humans)].text>>

(* Those of the comments that are kept, in their order. *)
Keep(comments, kept) ==
    LET first[n \in 0..Len(comments)] ==
            IF n = 0 THEN <<>>
            ELSE IF comments[n] \in kept THEN Append(first[n - 1], comments[n]) ELSE first[n - 1]
    IN  first[Len(comments)]

Imported(id) == id \in DOMAIN sync.imported
Base(id) == sync.imported[id]

(* History: the texts a reader has seen who writes on a comment. *)
BasisOf(c) == {c.text} \cup (IF Imported(c.id) /\ Base(c.id).text = c.text THEN {} ELSE c.basis)

Signature == [comments |-> [i \in DOMAIN ui.comments |-> [ui.comments[i] EXCEPT !.basis = {}]],
              marks |-> ui.marks]

----------------------------------------------------------------------------
(* import: a three-way merge of the baseline, the comments and the record *)

Field(base, local, remote) == IF local = base THEN remote ELSE local
Clash(base, local, remote) == local # base /\ remote # base /\ local # remote

CommentConflicts(r, c) ==
    LET base == Base(c.id)
        m == base.message
    IN  IF There(r, m)
        THEN \/ Clash(base.text, c.text, r.messages[m].body)
             \/ Clash(base.disp, c.disp, DispositionOf(r, m))
        ELSE c.text # base.text \/ c.disp # base.disp

RemovalConflicts(r, id) ==
    LET base == Base(id)
    IN  /\ There(r, base.message)
        /\ \/ r.messages[base.message].body # base.text
           \/ DispositionOf(r, base.message) # base.disp

ImportConflicts(r) ==
    \/ \E c \in Comments : Imported(c.id) /\ CommentConflicts(r, c)
    \/ \E id \in DOMAIN sync.imported \ CurrentIds : RemovalConflicts(r, id)

Merged(r) ==
    LET kept(c) == Imported(c.id) => There(r, Base(c.id).message)
        merge(c) ==
            IF ~Imported(c.id) THEN c
            ELSE [c EXCEPT !.text = Field(Base(c.id).text, @, r.messages[Base(c.id).message].body),
                           !.disp = Field(Base(c.id).disp, @, DispositionOf(r, Base(c.id).message))]
        list == Keep(ui.comments, {c \in Comments : kept(c)})
    IN  [i \in DOMAIN list |-> merge(list[i])]

Baseline(r, m) == [message |-> m, text |-> r.messages[m].body, disp |-> DispositionOf(r, m)]

(* The messages the view has not met, taken thread by thread. *)
Unmet(r) ==
    {m \in DOMAIN r.messages : There(r, m) /\ m \notin {Base(id).message : id \in DOMAIN sync.imported}}

NextOf(r, left) ==
    CHOOSE m \in left : \A n \in left :
        \/ r.messages[m].thread < r.messages[n].thread
        \/ r.messages[m].thread = r.messages[n].thread /\ m <= n

FirstFree(origin, after, ids) ==
    CHOOSE n \in (after + 1)..(after + Cardinality(ids) + 1) :
        /\ <<origin, n>> \notin ids
        /\ \A k \in (after + 1)..(n - 1) : <<origin, k>> \in ids

(* A comment of its own for the next, under an identity no comment has. *)
Adopt(r, state) ==
    LET m == NextOf(r, state.left)
        origin == r.messages[m].origin
        n == FirstFree(origin, state.next, state.ids)
        id == <<origin, n>>
    IN  [left |-> state.left \ {m},
         next |-> n,
         ids |-> state.ids \cup {id},
         comments |-> Append(state.comments, [id |-> id, at |-> r.messages[m].at,
                        text |-> r.messages[m].body, disp |-> DispositionOf(r, m), basis |-> {}]),
         imported |-> Put(state.imported, id, Baseline(r, m))]

Met(r) ==
    LET met == {id \in DOMAIN sync.imported : There(r, Base(id).message)}
    IN  [left |-> Unmet(r), next |-> sync.nextUi, ids |-> CurrentIds, comments |-> Merged(r),
         imported |-> [id \in met |-> Baseline(r, Base(id).message)]]

Import(r) ==
    LET unmet == Cardinality(Unmet(r))
        adopted[n \in 0..unmet] == IF n = 0 THEN Met(r) ELSE Adopt(r, adopted[n - 1])
    IN  adopted[unmet]

(* restore_comments numbers new comments from the largest one it is given. *)
LargestNumber(comments) ==
    LET numbers == {c.id[2] : c \in ToSet(comments)} \cup {0}
    IN  CHOOSE n \in numbers : \A k \in numbers : k <= n

UiAfter(import) == [ui EXCEPT !.comments = import.comments,
                              !.nextId = LargestNumber(import.comments)]

(* History: the comments whose baseline has changed since the signature. *)
Rebased(imported) ==
    {id \in DOMAIN imported \cup DOMAIN sync.imported :
        ~(Imported(id) /\ id \in DOMAIN imported /\ imported[id] = Base(id))}

(* History: a message of the view's own, made by a call whose answer it has   *)
(* lost, is another's to it.                                                  *)
PastAfter(import, r) ==
    LET lost == {m \in Unmet(r) : \E call \in DOMAIN sync.pending :
                                    sync.pending[call].receipt = [revision |-> m]}
    IN  [past EXCEPT !.mistaken = @ \cup lost, !.unsigned = @ \cup Rebased(import.imported)]

(* History: a draft beneath which the merge leaves another comment, or another *)
(* text, than it was opened on.                                                *)
DraftAfter(import) ==
    IF ui.draft = NoDraft \/ LastAt(import.comments, ui.draft.at) = LastAt(ui.comments, ui.draft.at)
    THEN ui.draft
    ELSE [ui.draft EXCEPT !.basis = @ \cup {OVERTAKEN}]

SyncAfter(import, r) == [sync EXCEPT !.imported = import.imported, !.nextUi = import.next,
                                     !.record = r, !.needsImport = FALSE]

----------------------------------------------------------------------------
Init ==
    /\ review = [revision |-> 1, messages |-> <<>>, dispositions |-> <<>>, marks |-> {}]
    /\ ui = [comments |-> <<>>, nextId |-> 0, marks |-> {}, draft |-> NoDraft, dirty |-> FALSE]
    /\ sync = [imported |-> <<>>, nextUi |-> 0, record |-> review,
               signature |-> [comments |-> <<>>, marks |-> {}],
               needsImport |-> FALSE, conflict |-> FALSE, pending |-> <<>>]
    /\ at = "events" /\ step = NoStep /\ discarded = {}
    /\ past = [mistaken |-> {}, unsigned |-> {}]
    /\ \E s \in Scenarios : used = [of |-> s, events |-> 0, remote |-> 0, failures |-> 0]

----------------------------------------------------------------------------
(* What the reader does *)

Taking == at = "events" /\ used.events < used.of.events /\ UNCHANGED <<review, sync, at, step>>

Event == Taking /\ used' = [used EXCEPT !.events = @ + 1]

OpenDraft(a) ==
    /\ Taking /\ ui.draft = NoDraft
    /\ ui' = [ui EXCEPT !.dirty = TRUE,
                !.draft = [at |-> a, basis |-> IF HumansAt(a) = {} THEN {}
                                               ELSE BasisOf(LastHumanAt(a))]]
    /\ UNCHANGED <<discarded, past, used>>

(* Removing comments; the messages they stand for are to be removed too. *)
Discard(gone) ==
    /\ ui' = [ui EXCEPT !.comments = Keep(@, Comments \ gone),
                        !.draft = NoDraft, !.dirty = TRUE]
    /\ discarded' = discarded \cup {Base(c.id).message : c \in {d \in gone : Imported(d.id)}}
    /\ UNCHANGED past

(* commit_annotation_draft: insert_human edits the last human comment of an *)
(* anchor or makes one; an empty draft removes it.                          *)
CommitDraft(text) ==
    /\ Event /\ ui.draft # NoDraft
    /\ LET a == ui.draft.at
           new == [id |-> <<"human", ui.nextId + 1>>, at |-> a, text |-> text,
                   disp |-> "open", basis |-> {}]
           written(c) == IF c.id = LastHumanAt(a).id
                         THEN [c EXCEPT !.text = text, !.basis = ui.draft.basis] ELSE c
       IN  IF HumansAt(a) = {}
           THEN /\ ui' = [ui EXCEPT !.comments = Append(@, new), !.nextId = @ + 1,
                                    !.draft = NoDraft, !.dirty = TRUE]
                /\ past' = [past EXCEPT !.mistaken =
                               @ \cup {Base(id).message : id \in DOMAIN sync.imported \cap {new.id}}]
           ELSE /\ ui' = [ui EXCEPT !.comments = [i \in DOMAIN @ |-> written(@[i])],
                                    !.draft = NoDraft, !.dirty = TRUE]
                /\ UNCHANGED past
    /\ UNCHANGED discarded

EmptyDraft ==
    /\ Event /\ ui.draft # NoDraft
    /\ LET a == ui.draft.at
       IN  Discard(IF HumansAt(a) = {} THEN {} ELSE {LastHumanAt(a)})

CancelDraft ==
    /\ Event /\ ui.draft # NoDraft
    /\ ui' = [ui EXCEPT !.draft = NoDraft, !.dirty = TRUE]
    /\ UNCHANGED <<discarded, past>>

(* remove_mark_at_key: whoever wrote them. *)
RemoveMark(a) ==
    /\ Event /\ ui.draft = NoDraft /\ ShownAt(a) # {}
    /\ Discard({ui.comments[i] : i \in ShownAt(a)})

(* set_agents_disposition_at *)
Dispose(a, disposition) ==
    /\ Event /\ ui.draft = NoDraft
    /\ \E i \in ShownAt(a) : ~IsHuman(ui.comments[i])
    /\ LET disposed(c) == IF c.at = a /\ Visible(c) /\ ~IsHuman(c)
                          THEN [c EXCEPT !.disp = disposition] ELSE c
       IN  ui' = [ui EXCEPT !.comments = [i \in DOMAIN @ |-> disposed(@[i])], !.dirty = TRUE]
    /\ UNCHANGED <<discarded, past>>

ToggleReviewed(f) ==
    /\ Event /\ ui.draft = NoDraft
    /\ ui' = [ui EXCEPT !.marks = IF f \in @ THEN @ \ {f} ELSE @ \cup {f}, !.dirty = TRUE]
    /\ UNCHANGED <<discarded, past>>

(* The loop goes on to its next turn: after the events it has taken comes   *)
(* the poll, if half a second has passed, and then the frame with its save. *)
SkipPoll ==
    /\ at = "events" /\ at' = "draw"
    /\ UNCHANGED <<review, ui, sync, step, discarded, past, used>>

Fails == used.failures < used.of.failures /\ used' = [used EXCEPT !.failures = @ + 1]

(* Mutant: nothing is drawn, or saved, for what was merged. *)
TakeReview_NotDirty ==
    IF review.revision = sync.record.revision /\ ~sync.needsImport
    THEN UNCHANGED <<ui, sync, past>>
    ELSE IF ImportConflicts(review)
    THEN sync' = [sync EXCEPT !.conflict = TRUE] /\ UNCHANGED <<ui, past>>
    ELSE /\ sync' = [SyncAfter(Import(review), review) EXCEPT !.conflict = FALSE]
         /\ ui' = UiAfter(Import(review)) /\ past' = PastAfter(Import(review), review)

(* What was read of the store is merged into the comments, or clashes. *)
TakeReview ==
    IF review.revision = sync.record.revision /\ ~sync.needsImport
    THEN UNCHANGED <<ui, sync, past>>
    ELSE IF ImportConflicts(review)
    THEN /\ sync' = [sync EXCEPT !.conflict = TRUE]
         /\ ui' = [ui EXCEPT !.dirty = TRUE]
         /\ UNCHANGED past
    ELSE LET import == Import(review)
         IN  /\ sync' = [SyncAfter(import, review) EXCEPT !.conflict = FALSE]
             /\ ui' = [UiAfter(import) EXCEPT !.dirty = TRUE]
             /\ past' = PastAfter(import, review)

Poll ==
    /\ at = "events" /\ at' = "polled" /\ ui.draft = NoDraft
    /\ \/ TakeReview /\ UNCHANGED used
       \/ Fails /\ ui' = [ui EXCEPT !.dirty = TRUE] /\ UNCHANGED <<sync, past>>
    /\ UNCHANGED <<review, step, discarded>>

----------------------------------------------------------------------------
(* save: checkpoint_or_notice before a frame is drawn *)

(* The frame is drawn, with the error if there was one. *)
Drawn == at' = "events" /\ step' = NoStep

Clean == sync.signature = Signature /\ ~sync.needsImport

NothingToSave == ~ui.dirty \/ sync.conflict \/ Clean

(* The frame without a save, or with one whose first look at the store fails. *)
DrawOnly ==
    /\ at \in {"draw", "polled"} /\ Drawn
    /\ ui' = [ui EXCEPT !.dirty = FALSE]
    /\ (NothingToSave /\ UNCHANGED used) \/ (~NothingToSave /\ Fails)
    /\ UNCHANGED <<review, sync, discarded, past>>

StartSave ==
    /\ at \in {"draw", "polled"} /\ ~NothingToSave
    /\ IF review.revision = sync.record.revision /\ ~sync.needsImport
       THEN at' = "saving" /\ UNCHANGED <<ui, sync, step, past>>
       ELSE IF ImportConflicts(review)
       THEN /\ Drawn /\ ui' = [ui EXCEPT !.dirty = FALSE]
            /\ sync' = [sync EXCEPT !.conflict = TRUE]
            /\ UNCHANGED past
       ELSE LET import == Import(review)
            IN  /\ at' = "saving" /\ UNCHANGED step
                /\ ui' = [UiAfter(import) EXCEPT !.draft = DraftAfter(import)]
                /\ sync' = SyncAfter(import, review)
                /\ past' = PastAfter(import, review)
    /\ UNCHANGED <<review, discarded, used>>

RemovalOf(id) == [of |-> id, call |-> [method |-> "comment.remove", message |-> Base(id).message]]
Removed == {id \in DOMAIN sync.imported \ CurrentIds : id[1] = "human"}

Unpublished(c) == Imported(c.id) => IsHuman(c) /\ Base(c.id).text # c.text

(* A new comment answers the last message of the first thread at its line. *)
Publication(c) ==
    LET r == sync.record
        threads == {t \in Threads(r) : r.messages[t].at = c.at}
        first == CHOOSE t \in threads : \A u \in threads : t <= u
        there == {m \in DOMAIN r.messages : There(r, m) /\ r.messages[m].thread = first}
        call == IF Imported(c.id)
                THEN [method |-> "comment.edit", message |-> Base(c.id).message, body |-> c.text]
                ELSE IF threads # {} /\ there # {}
                THEN [method |-> "comment.reply", thread |-> first, body |-> c.text,
                      reply_to |-> CHOOSE m \in there : \A n \in there : n <= m,
                      origin |-> c.id[1]]
                ELSE [method |-> "comment.add", at |-> c.at, body |-> c.text, origin |-> c.id[1]]
    IN  [of |-> c.id, call |-> call]

ThreadOf(c) == sync.record.messages[Base(c.id).message].thread
FirstOfThread(i) == \A j \in 1..(i - 1) : ThreadOf(ui.comments[j]) # ThreadOf(ui.comments[i])

(* Only the first comment of a thread speaks for its disposition. *)
Redisposed ==
    {i \in DOMAIN ui.comments :
        FirstOfThread(i) /\ sync.record.dispositions[ThreadOf(ui.comments[i])] # ui.comments[i].disp}

DispositionOfComment(c) ==
    [of |-> c.id, call |-> [method |-> "review.disposition", thread |-> ThreadOf(c),
                            disposition |-> c.disp]]

Least(numbers) == CHOOSE n \in numbers : \A k \in numbers : n <= k

(* What the save has to do next, in the order of the code. *)
NextSteps ==
    LET unpublished == {i \in DOMAIN ui.comments : Unpublished(ui.comments[i])}
    IN  IF Removed # {} THEN {RemovalOf(id) : id \in Removed}
        ELSE IF unpublished # {} THEN {Publication(ui.comments[Least(unpublished)])}
        ELSE IF Redisposed # {} THEN {DispositionOfComment(ui.comments[Least(Redisposed)])}
        ELSE IF ui.marks # sync.record.marks
        THEN {[of |-> NONE, call |-> [method |-> "review.progress", marks |-> ui.marks]]}
        ELSE {}

FinishSave ==
    /\ at = "saving" /\ NextSteps = {}
    /\ Drawn
    /\ sync' = [sync EXCEPT !.signature = Signature]
    /\ ui' = [ui EXCEPT !.dirty = FALSE]
    /\ past' = [past EXCEPT !.unsigned = {}]
    /\ UNCHANGED <<review, discarded, used>>

(* The save ends with an error; what was not saved waits for the next. *)
Abort(pending) ==
    /\ Drawn
    /\ sync' = [sync EXCEPT !.pending = pending]
    /\ ui' = [ui EXCEPT !.dirty = FALSE]

Without(pending, call) == [key \in DOMAIN pending \ {call} |-> pending[key]]

(* Mutant: the revision expected is whichever the store has. *)
Request_Latest(call) ==
    IF call \in DOMAIN sync.pending THEN sync.pending[call]
    ELSE [expected |-> review.revision, receipt |-> NONE]

(* The mutation id, expected revision and, once the store has it, the       *)
(* receipt of the request a call is made with: that of an earlier attempt.  *)
Request(call) ==
    IF call \in DOMAIN sync.pending THEN sync.pending[call]
    ELSE [expected |-> sync.record.revision, receipt |-> NONE]

Answered(next, answer) ==
    /\ at' = "reply" /\ step' = [of |-> next.of, call |-> next.call, answer |-> answer]
    /\ UNCHANGED ui

(* mutate, up to the answer of the store or the lack of one. *)
Mutate ==
    /\ at = "saving"
    /\ \E next \in NextSteps :
        LET call == next.call
            request == Request(call)
            receipt == [revision |-> review.revision + 1]
            kept(r) == Put(sync.pending, call, [request EXCEPT !.receipt = r])
        IN  \/ /\ sync.needsImport
               /\ Abort(sync.pending)
               /\ UNCHANGED <<review, used>>
            \/ /\ ~sync.needsImport /\ request.receipt # NONE
               /\ Answered(next, request.receipt)
               /\ UNCHANGED <<review, sync, used>>
            \/ /\ ~sync.needsImport /\ request.receipt = NONE
               /\ request.expected # review.revision
               /\ Abort(Without(sync.pending, call))
               /\ UNCHANGED <<review, used>>
            \/ /\ ~sync.needsImport /\ request.receipt = NONE
               /\ request.expected = review.revision
               /\ \/ /\ ~Accepts(review, call)
                     /\ Abort(kept(NONE))
                     /\ UNCHANGED <<review, used>>
                  \/ /\ Accepts(review, call)
                     /\ review' = Apply(review, call, "view")
                     /\ \/ /\ Answered(next, receipt)
                           /\ sync' = [sync EXCEPT !.pending = kept(receipt)]
                           /\ UNCHANGED used
                        \/ Fails /\ Abort(kept(receipt))
            \/ /\ ~sync.needsImport
               /\ Fails /\ Abort(kept(request.receipt))
               /\ UNCHANGED review
    /\ UNCHANGED <<discarded, past>>

(* What the baseline becomes when a call has been answered. *)
BaselineAfter(of, call, answer) ==
    LET message == IF call.method \in {"comment.add", "comment.reply"}
                   THEN answer.revision ELSE call.message
        comment == CHOOSE c \in Comments : c.id = of
    IN  CASE call.method = "comment.remove" -> Without(sync.imported, of)
          [] call.method \in {"comment.add", "comment.reply", "comment.edit"} ->
                Put(sync.imported, of,
                    [message |-> message, text |-> comment.text, disp |-> comment.disp])
          [] OTHER -> sync.imported


NeedsImportAfter(answer) == answer.revision # review.revision

(* The record is read back and the comment takes its place in the baseline. *)
Reply ==
    /\ at = "reply"
    /\ \/ LET imported == BaselineAfter(step.of, step.call, step.answer)
          IN  /\ at' = "saving" /\ step' = NoStep
              /\ sync' = [sync EXCEPT !.record = review,
                            !.imported = imported,
                            !.pending = Without(@, step.call),
                            !.needsImport = NeedsImportAfter(step.answer)]
              /\ past' = [past EXCEPT !.unsigned = @ \cup Rebased(imported)]
              /\ UNCHANGED <<ui, used>>
       \/ Fails /\ Abort(sync.pending) /\ UNCHANGED past
    /\ UNCHANGED <<review, discarded>>

----------------------------------------------------------------------------
(* Other views and agents *)

RemoteCalls ==
    [method: {"comment.add"}, at: Anchor, origin: RemoteOrigin, body: Body]
    \cup [method: {"comment.reply"}, thread: Threads(review), origin: RemoteOrigin, body: Body]
    \cup [method: {"comment.edit"}, message: DOMAIN review.messages, body: Body]
    \cup [method: {"comment.remove"}, message: DOMAIN review.messages]
    \cup [method: {"review.disposition"}, thread: Threads(review), disposition: Disposition]
    \cup [method: {"review.progress"}, marks: SUBSET File]

Remote ==
    /\ used.remote < used.of.remote
    /\ used' = [used EXCEPT !.remote = @ + 1]
    /\ \E call \in RemoteCalls : Accepts(review, call) /\ review' = Apply(review, call, "remote")
    /\ UNCHANGED <<ui, sync, at, step, discarded, past>>

----------------------------------------------------------------------------
Reader ==
    \/ \E a \in Anchor : OpenDraft(a) \/ RemoveMark(a)
    \/ \E a \in Anchor, d \in Disposition : Dispose(a, d)
    \/ \E text \in Body : CommitDraft(text)
    \/ EmptyDraft \/ CancelDraft
    \/ \E f \in File : ToggleReviewed(f)

Turn == SkipPoll \/ DrawOnly \/ StartSave \/ FinishSave \/ Mutate \/ Reply

Next == Reader \/ Turn \/ Poll \/ Remote

(* The UI thread runs, and half a second passes again and again.  These are  *)
(* WF_vars(Turn \/ Poll) and SF_vars(Poll): no other step of Next moves `at`. *)
Runs == at' \in Phases \ {at}
Polls == at = "events" /\ ui.draft = NoDraft /\ at' = "polled"

Spec == Init /\ [][Next]_vars /\ WF_at(Runs) /\ SF_at(Polls)

----------------------------------------------------------------------------
(* A text of another's that the reader's replaces is one they were shown when *)
(* they began to write, or of a message whose comment they had removed: a     *)
(* remote edit is merged, reported, or kept.                                  *)
NoSilentOverwrite ==
    [][\A m \in DOMAIN review.messages :
        /\ at = "saving" /\ at' # "saving"
        /\ review.messages[m].by = "remote" /\ review'.messages[m].body # review.messages[m].body
        => \E c \in Comments :
              /\ Imported(c.id) /\ Base(c.id).message = m
              /\ review.messages[m].body \in c.basis \/ m \in discarded]_vars

(* The one exception to it: a comment written in a draft beneath which a save *)
(* had merged another comment, or another text of it, than the draft was      *)
(* opened on.                                                                 *)
OnlyDraftsOverwrite ==
    [][\A m \in DOMAIN review.messages :
        /\ at = "saving" /\ at' # "saving"
        /\ review.messages[m].by = "remote" /\ review'.messages[m].body # review.messages[m].body
        => \E c \in Comments :
              /\ Imported(c.id) /\ Base(c.id).message = m
              /\ \/ review.messages[m].body \in c.basis
                 \/ OVERTAKEN \in c.basis
                 \/ m \in discarded]_vars

Saved == at = "events" /\ Clean /\ ~sync.conflict
UpToDate == Saved /\ review.revision = sync.record.revision
MessagesOf(ids) == {Base(id).message : id \in DOMAIN sync.imported \cap ids}

(* A message whose comment the reader removed does not come back: when all   *)
(* is saved it is not shown, and one a human wrote is gone from the review.  *)
StaysRemoved(m) ==
    UpToDate => /\ m \notin MessagesOf(CurrentIds)
                /\ review.messages[m].origin = "human" => ~There(review, m)

RemovedStaysRemoved == \A m \in discarded : StaysRemoved(m)

(* The messages of the exceptions below. *)
Excepted == past.mistaken \cup MessagesOf(past.unsigned)

(* When everything is saved and nobody has written since, every comment is a *)
(* message with its text, and every human message is shown.                  *)
SavedMeansStored ==
    UpToDate =>
        /\ \A c \in Comments :
            \/ c.id \in past.unsigned
            \/ /\ Imported(c.id)
               /\ \/ Base(c.id).message \in past.mistaken
                  \/ /\ There(review, Base(c.id).message)
                     /\ review.messages[Base(c.id).message].body = c.text
        /\ \A m \in DOMAIN review.messages \ Excepted :
            There(review, m) /\ review.messages[m].origin = "human" => m \in MessagesOf(CurrentIds)

(* However often a save is repeated, one reader has one mark on a line, no   *)
(* message of the review is shown as two comments, and no two comments share *)
(* an identity.                                                              *)
OneMarkPerLine ==
    /\ Cardinality(CurrentIds) = Len(ui.comments)
    /\ \A a \in Anchor :
        Cardinality({m \in DOMAIN review.messages \ past.mistaken :
            There(review, m) /\ review.messages[m].origin = "human" /\ review.messages[m].at = a}) <= 1
    /\ \A id, other \in DOMAIN sync.imported :
        Base(id).message = Base(other).message => id = other \/ Base(id).message \in past.mistaken


NoneFailed == used.failures = 0

(* Once the reader has put the pen down, everything is saved, or an error    *)
(* says why not: no interrupted save is forgotten.                           *)
SavedInTheEnd == <>[](ui.draft = NoDraft) => []<>(Saved \/ sync.conflict \/ ~NoneFailed)
=============================================================================
