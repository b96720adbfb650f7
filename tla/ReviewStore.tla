------------------------------ MODULE ReviewStore ------------------------------
(***************************************************************************)
(* The durable store as several processes run it: a flock on the directory *)
(* around every operation, one checkpoint file per review, replaced by     *)
(* writing a temporary file and renaming it                                *)
(* (crates/mark-session/src/review.rs and checkpoint.rs).  Any step may    *)
(* fail, any process may die between two steps, and a client that got no   *)
(* answer may ask again, by the same client_mutation_id.                   *)
(*                                                                         *)
(* A process that dies after the lock was dropped and before its client    *)
(* has the answer is Crash in "answered".  Temporary files a crash leaves  *)
(* behind are never listed or read, so only the one being written is kept. *)
(* Power loss is not modelled.                                             *)
(***************************************************************************)
EXTENDS ReviewRecord

CONSTANT Proc         \* processes using the store

ASSUME ProcAssumption == NONE \notin Proc

VARIABLES
    files,      \* the checkpoint of each review, NONE if there is none
    lock,       \* the process holding the flock, or NONE
    pc,         \* where each process is in its operation
    request,    \* the operation it was asked for
    draft,      \* the record it is about to make the checkpoint, its name, its answer
    reply,      \* what it is about to answer: a mutation result or NONE
    told        \* history: the results of mutations clients have been told

vars == <<files, lock, pc, request, draft, reply, told>>

Phases == {"idle", "asked", "locked", "prepared", "written", "renamed", "answered"}
Holding == Phases \ {"idle", "asked"}

OpenRequest == [op: {"open"}, binding: Binding, source: Source, patch: Patch,
                review: ReviewId \cup {NONE}]
CallRequest == [op: {"call", "reconcile"}, review: ReviewId, req: Calls]
Operation == OpenRequest \cup CallRequest

Init ==
    /\ files = [i \in ReviewId |-> NONE]
    /\ lock = NONE
    /\ pc = [p \in Proc |-> "idle"]
    /\ request = [p \in Proc |-> NONE]
    /\ draft = [p \in Proc |-> NONE]
    /\ reply = [p \in Proc |-> NONE]
    /\ told = {}

---------------------------------------------------------------------------
(* The client side and the lock *)

Ask(p, operation) ==
    /\ pc[p] = "idle"
    /\ operation.op = "reconcile" => operation.req.method = "review.refresh"
    /\ request' = [request EXCEPT ![p] = operation]
    /\ pc' = [pc EXCEPT ![p] = "asked"]
    /\ UNCHANGED <<files, lock, draft, reply, told>>

(* Mutant: a shared lock. *)
Acquire_Shared(p) ==
    /\ pc[p] = "asked"
    /\ lock' = p
    /\ pc' = [pc EXCEPT ![p] = "locked"]
    /\ UNCHANGED <<files, request, draft, reply, told>>

Acquire(p) ==
    /\ pc[p] = "asked"
    /\ lock = NONE
    /\ lock' = p
    /\ pc' = [pc EXCEPT ![p] = "locked"]
    /\ UNCHANGED <<files, request, draft, reply, told>>

Forget(p) ==
    /\ pc' = [pc EXCEPT ![p] = "idle"]
    /\ request' = [request EXCEPT ![p] = NONE]
    /\ draft' = [draft EXCEPT ![p] = NONE]
    /\ reply' = [reply EXCEPT ![p] = NONE]

(* Mutant: an operation that has no result returns with the lock held. *)
Return_ErrorKeepsLock(p) ==
    /\ pc[p] = "answered"
    /\ Forget(p)
    /\ lock' = IF reply[p] = NONE THEN lock ELSE NONE
    /\ told' = IF reply[p] = NONE THEN told
               ELSE told \cup {[review |-> request[p].review, mid |-> request[p].req.mid,
                                result |-> reply[p]]}
    /\ UNCHANGED files

(* The guard is dropped when the operation returns, on every path. *)
Return(p) ==
    /\ pc[p] = "answered"
    /\ Forget(p)
    /\ lock' = NONE
    /\ told' = IF reply[p] = NONE THEN told
               ELSE told \cup {[review |-> request[p].review, mid |-> request[p].req.mid,
                                result |-> reply[p]]}
    /\ UNCHANGED files

(* Mutant: a lock that is a file, left behind by a crash. *)
Crash_LeavesLock(p) ==
    /\ pc[p] # "idle"
    /\ Forget(p)
    /\ UNCHANGED <<files, lock, told>>

(* flock is released by the kernel when its holder dies. *)
Crash(p) ==
    /\ pc[p] # "idle"
    /\ Forget(p)
    /\ lock' = IF pc[p] \in Holding THEN NONE ELSE lock
    /\ UNCHANGED <<files, told>>

Answer(p, result) ==
    /\ pc' = [pc EXCEPT ![p] = "answered"]
    /\ draft' = [draft EXCEPT ![p] = NONE]
    /\ reply' = [reply EXCEPT ![p] = result]
    /\ UNCHANGED <<files, lock, request, told>>

Prepare(p, name, record, result) ==
    /\ pc' = [pc EXCEPT ![p] = "prepared"]
    /\ draft' = [draft EXCEPT ![p] = [name |-> name, record |-> record, result |-> result]]
    /\ UNCHANGED <<files, lock, request, reply, told>>

---------------------------------------------------------------------------
(* Under the lock: load, decide, and change a copy *)

(* An explicit review, or one this conversation already has of the source:  *)
(* the answer is the record, as it is for a read.                           *)
OpenExisting(p) ==
    LET o == request[p] IN
    /\ pc[p] = "locked" /\ o.op = "open"
    /\ o.review # NONE \/ \E i \in ReviewId : BoundTo(files[i], o.binding, o.source)
    /\ Answer(p, NONE)

OpenNew(p, i) ==
    LET o == request[p] IN
    /\ pc[p] = "locked" /\ o.op = "open"
    /\ o.review = NONE
    /\ \A j \in ReviewId : ~BoundTo(files[j], o.binding, o.source)
    /\ files[i] = NONE
    /\ Prepare(p, i, NewReview(o.binding, o.source, o.patch), NONE)

SameCall(x, req) == x.request = req

(* A refresh retried by an adapter, which makes its own patch. *)
SameClientCall(x, req) ==
    /\ x.request.method = "review.refresh"
    /\ [x.request EXCEPT !.args.patch = req.args.patch] = req

(* Mutant: a retry is told the generation of now. *)
Replay_CurrentGeneration(p) ==
    LET o == request[p] IN
    /\ pc[p] = "locked" /\ o.op \in {"call", "reconcile"}
    /\ files[o.review] # NONE
    /\ HasReceipt(files[o.review], o.req.mid)
    /\ LET x == ReceiptOf(files[o.review], o.req.mid)
           same == IF o.op = "call" THEN SameCall(x, o.req) ELSE SameClientCall(x, o.req)
       IN  Answer(p, IF ~same THEN NONE
                     ELSE [ReceiptResult(files[o.review], x)
                             EXCEPT !.generation = files[o.review].generation])

Replay(p) ==
    LET o == request[p] IN
    /\ pc[p] = "locked" /\ o.op \in {"call", "reconcile"}
    /\ files[o.review] # NONE
    /\ HasReceipt(files[o.review], o.req.mid)
    /\ LET x == ReceiptOf(files[o.review], o.req.mid)
           same == IF o.op = "call" THEN SameCall(x, o.req) ELSE SameClientCall(x, o.req)
       IN  Answer(p, IF same THEN ReceiptResult(files[o.review], x) ELSE NONE)

(* review_not_found, a failed condition, a handler's error; a reconcile     *)
(* that finds no receipt answers that there is none.                        *)
Refuse(p) ==
    LET o == request[p] IN
    /\ pc[p] = "locked" /\ o.op \in {"call", "reconcile"}
    /\ \/ files[o.review] = NONE
       \/ /\ files[o.review] # NONE
          /\ ~HasReceipt(files[o.review], o.req.mid)
          /\ o.op = "reconcile" \/ ~Admits(files[o.review], o.req)
    /\ Answer(p, NONE)

(* Mutant: a retry of an applied mutation is applied again. *)
Modify_Again(p) ==
    LET o == request[p] IN
    /\ pc[p] = "locked" /\ o.op = "call"
    /\ files[o.review] # NONE
    /\ Accepts(files[o.review], o.req)
    /\ LET r == files[o.review]
       IN  Prepare(p, o.review, Commit(r, o.req), FirstResult(r, Apply(r, o.req), o.req))

(* persist validates the record before anything is written. *)
Modify(p) ==
    LET o == request[p] IN
    /\ pc[p] = "locked" /\ o.op = "call"
    /\ files[o.review] # NONE
    /\ Admits(files[o.review], o.req)
    /\ LET r == files[o.review]
           next == Commit(r, o.req)
       IN  IF ValidRecord(next)
           THEN Prepare(p, o.review, next, FirstResult(r, Apply(r, o.req), o.req))
           ELSE Answer(p, NONE)

---------------------------------------------------------------------------
(* LockedDirectory::write *)

WriteTemporary(p) ==
    /\ pc[p] = "prepared"
    /\ pc' = [pc EXCEPT ![p] = "written"]
    /\ UNCHANGED <<files, lock, request, draft, reply, told>>

Rename(p) ==
    /\ pc[p] = "written"
    /\ files' = [files EXCEPT ![draft[p].name] = draft[p].record]
    /\ pc' = [pc EXCEPT ![p] = "renamed"]
    /\ UNCHANGED <<lock, request, draft, reply, told>>

SyncDirectory(p) == pc[p] = "renamed" /\ Answer(p, draft[p].result)

(* Creating, writing, syncing or renaming fails, or the directory cannot be *)
(* synced: the caller gets an error, in the last case although the new      *)
(* checkpoint is in place.                                                  *)
WriteFails(p) ==
    /\ pc[p] \in {"prepared", "written", "renamed"}
    /\ Answer(p, NONE)

Serve(p) ==
    \/ OpenExisting(p)
    \/ \E i \in ReviewId : OpenNew(p, i)
    \/ Replay(p)
    \/ Refuse(p)
    \/ Modify(p)
    \/ WriteTemporary(p)
    \/ Rename(p)
    \/ SyncDirectory(p)
    \/ Return(p)

Next ==
    \E p \in Proc :
        \/ \E operation \in Operation : Ask(p, operation)
        \/ Acquire(p)
        \/ Serve(p)
        \/ WriteFails(p)
        \/ Crash(p)

(* A process that has the lock keeps running until it is done or dies. *)
Fairness == \A p \in Proc : WF_vars(Serve(p))

Spec == Init /\ [][Next]_vars /\ Fairness
---------------------------------------------------------------------------
Ledger == INSTANCE SerialStore WITH reviews <- files

(* The flock is held by the one process inside an operation, from loading   *)
(* the checkpoint to returning, and by nobody once that process is gone.    *)
LockedWhileServing == \A p \in Proc : pc[p] \in Holding <=> lock = p

(* No lost update: until it is renamed into place, a prepared record is the *)
(* committed successor of the checkpoint that is on disk now, whatever      *)
(* other processes asked for, failed at or died of in between.              *)
DraftSucceedsCheckpoint ==
    \A p \in Proc :
        pc[p] \in {"prepared", "written"} =>
            LET o == request[p]
                current == files[draft[p].name]
            IN  IF o.op = "open"
                THEN /\ current = NONE
                     /\ \A j \in ReviewId : ~BoundTo(files[j], o.binding, o.source)
                     /\ draft[p].record = NewReview(o.binding, o.source, o.patch)
                ELSE /\ current # NONE /\ o.op = "call" /\ o.review = draft[p].name
                     /\ Admits(current, o.req)
                     /\ draft[p].record = Commit(current, o.req)

(* What a client was told happened is in the checkpoint, under its          *)
(* client_mutation_id, with the result it was told.                         *)
ToldIsCommitted ==
    \A x \in told : /\ files[x.review] # NONE
                    /\ [mid |-> x.mid, result |-> x.result] \in files[x.review].history.results

(* At most once: however often a mutation was asked for, answered, lost and *)
(* asked for again, every answer that reached a client is the same.         *)
OneAnswerPerMutation ==
    \A x, y \in told : x.review = y.review /\ x.mid = y.mid => x = y

(* What a client was told stands: it happened, and happened once.           *)
AnswersStand == ToldIsCommitted /\ OneAnswerPerMutation

(* Processes that open the same conversation's review at the same time end  *)
(* up with one review.                                                      *)
OneFilePerBinding ==
    \A i, j \in ReviewId :
        files[i] # NONE /\ files[j] # NONE =>
            (files[i].binding = files[j].binding /\ files[i].source = files[j].source => i = j)

(* However many processes ask, and however often: one review for what they *)
(* ask about, and one answer to each mutation, which stands.               *)
OneReviewOneAnswer == OneFilePerBinding /\ AnswersStand

(* The processes together behave as the ledger: each rename is one whole    *)
(* Open or Mutate of the record on disk, and nothing else is visible.       *)
ImplementsLedger == Ledger!Init /\ [][Ledger!Next]_files

(* The directory never stays locked: on every path, error or crash          *)
(* included, whoever holds the lock gives it up.                            *)
LockReleased == \A p \in Proc : lock = p ~> lock # p
=============================================================================
