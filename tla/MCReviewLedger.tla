----------------------------- MODULE MCReviewLedger -----------------------------
(***************************************************************************)
(* Small instances of ReviewLedger and ReviewFeed: one review, either      *)
(* written by every method between three snapshots of two files, or        *)
(* written by the methods its readers see, with those readers.             *)
(***************************************************************************)
EXTENDS ReviewFeed, TLC

CONSTANTS f1, f2, s1, s2, p1, p2, p3, src, conv, repo, b1, b2, v1, c1, c2,
          MethodsAsked,   \* the methods clients of this run use
          MaxGeneration, MaxId,  \* bounds on what requests name
          MaxMutations,   \* the mutations of a behaviour without readers
          ExpectedRevisions      \* the expected_revision values they have

(* p1 and p2 differ in f2, p2 and p3 in f1; in p3 the section of f2 is ambiguous. *)
MCSections ==
    [p \in Patch |-> [f \in File |-> CASE p = p3 /\ f = f2 -> NONE
                                     [] p = p3 /\ f = f1 -> s2
                                     [] p = p2 /\ f = f2 -> s2
                                     [] OTHER -> s1]]

Toggle(f, reviewed) ==
    [file |-> f, reviewed |-> reviewed, reviewed_files |-> KEEP, reviewed_hunks |-> KEEP,
     verdict |-> KEEP]
Replace(files, hunks, verdict) ==
    [file |-> NONE, reviewed |-> FALSE, reviewed_files |-> files, reviewed_hunks |-> hunks,
     verdict |-> verdict]

MCProgress == {Toggle(f1, TRUE), Toggle(f1, FALSE), Replace({f1, f2}, {<<f2, 1>>}, v1),
               Replace({f2}, KEEP, KEEP),
               Replace(KEEP, KEEP, NONE)}

Ids == 2..MaxId

MCArgs(m) ==
    CASE m = "review.refresh" -> [patch: Patch, source: {NONE}]
      [] m = "comment.add" -> [file: File, origin: {"human"}, body: {b1}]
      [] m = "comment.reply" -> [thread: Ids, reply_to: Ids, origin: Origin, body: {b1}]
      [] m = "comment.edit" -> [message: Ids, body: Body]
      [] m = "comment.remove" -> [message: Ids]
      [] m = "feedback.submit" -> [thread_ids: {NONE} \cup {{id} : id \in Ids}]
      [] m = "feedback.ack" -> [submission: Ids, consumer: Consumer]
      [] m = "review.finish" -> [outcome: {"submitted"}, submission_ids: {{id} : id \in Ids}]
                                  \cup [outcome: {"back"}, submission_ids: {{}}]
      [] m = "review.disposition" -> [thread: Ids, disposition: {"dismissed"}]
      [] m = "review.progress" -> MCProgress
      [] m = "review.reanchor" ->
            [updates: UNION {[{id} -> [file: File, stale: BOOLEAN]] : id \in Ids},
             progress: {NONE, Replace({f2}, {}, v1)}]
      [] m = "review.begin" -> {NONE}

MCCalls == UNION {[method: {m}, mid: MutationId, generation: 1..MaxGeneration,
                   expected: ExpectedRevisions, args: MCArgs(m)] : m \in MethodsAsked}

VARIABLE readers    \* whether this behaviour has readers

MCVars == <<reviews, reader, readers>>

AnyCalls == {c \in Calls : c.mid <= MaxMutations}

(* What readers see, in more mutations of one file. *)
ReadCalls ==
    {c \in Calls :
        /\ c.method \in {"comment.add", "comment.edit", "feedback.submit", "feedback.ack"}
        /\ c.generation = 1
        /\ c.method = "comment.add" => c.args.file = f1
        /\ c.method = "comment.edit" => c.args.body = b1
        /\ c.method = "feedback.submit" => c.args.thread_ids = NONE}

Asked == IF readers THEN ReadCalls ELSE AnyCalls

Opening == IF readers THEN {p1} ELSE Patch

(* A call with a used id changes nothing, and new ids are interchangeable. *)
NextInOrder(r, c) == c.mid = Cardinality(r.mutations) + 1

MCInit == FeedInit /\ readers \in BOOLEAN

MCNext ==
    /\ UNCHANGED readers
    /\ \/ \E i \in ReviewId, binding \in Binding, source \in Source, patch \in Opening :
             Serial!Open(i, binding, source, patch) /\ UNCHANGED reader
       \/ \E i \in ReviewId, c \in Asked :
             reviews[i] # NONE /\ NextInOrder(reviews[i], c) /\ Serial!Mutate(i, c) /\ UNCHANGED reader
       \/ readers /\ \E i \in ReviewId, limit \in PageLimit : ReadChanges(i, limit)

(* The fairness of FeedSpec.  A behaviour without readers never reads, so it *)
(* is not fair to them, and ReaderCatchesUp is about those that have them.   *)
MCSpec ==
    /\ MCInit
    /\ [][MCNext]_MCVars
    /\ \A i \in ReviewId, limit \in PageLimit : WF_feedVars(ReadChanges(i, limit))
=============================================================================
