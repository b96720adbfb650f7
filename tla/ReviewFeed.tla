------------------------------ MODULE ReviewFeed ------------------------------
(***************************************************************************)
(* What readers of a review are given: pages of its change log, from the   *)
(* cursor of their last page, and the feedback a consumer has not          *)
(* acknowledged (changes_page and feedback_page of                         *)
(* crates/mark-session/src/review.rs).  The reader of pages is the client  *)
(* the cursors are made for: it keeps what it is given and asks again.     *)
(***************************************************************************)
EXTENDS ReviewLedger, FiniteSetsExt

CONSTANT PageLimit     \* the page sizes readers ask for

ASSUME PageLimitAssumption == PageLimit \subseteq Nat \ {0}

VARIABLE reader    \* per review: the cursor, the revisions seen, and the one they start after

feedVars == <<reviews, reader>>

(* The entries after a cursor, at most limit of them, and where they end. *)
PageAfter(r, after, limit) ==
    LET later == {k \in DOMAIN r.changes : r.changes[k].revision > after}
    IN  {k \in later : Cardinality({j \in later : j <= k}) <= limit}

PageEnd(r, after, limit) ==
    LET page == PageAfter(r, after, limit)
    IN  IF page = {} THEN after ELSE r.changes[Max(page)].revision

PageOf(r, after, limit) ==
    [changes |-> {r.changes[k] : k \in PageAfter(r, after, limit)},
     next_cursor |-> PageEnd(r, after, limit),
     has_more |-> PageEnd(r, after, limit) < r.revision,
     full_refresh_required |-> FALSE]

StartOver(cursor) ==
    [changes |-> {}, next_cursor |-> cursor, has_more |-> FALSE, full_refresh_required |-> TRUE]

Floor(r) == r.changes[1].revision - 1

(* Mutant: the page starts at what the log still has. *)
ChangesPage_NoFloor(r, after, limit) == PageOf(r, after, limit)

(* Mutant: a reader told to start over is given its own cursor back. *)
ChangesPage_SameCursor(r, after, limit) ==
    IF after < Floor(r) THEN StartOver(after) ELSE PageOf(r, after, limit)

(* The log is never empty: review.opened starts it and Logged keeps the last. *)
ChangesPage(r, after, limit) ==
    IF after < Floor(r) THEN StartOver(r.revision) ELSE PageOf(r, after, limit)

Pending(r, consumer) == {s \in r.submissions : consumer \notin s.acknowledged_by}

(* Of a thread that several pending submissions deliver, the last copy. *)
LastCopies(r, consumer, s) ==
    {t \in s.threads : \A e \in Pending(r, consumer) :
                          e.id > s.id => \A u \in e.threads : u.id # t.id}

FeedbackThreads(r, consumer) ==
    UNION {{[thread |-> t, messages |-> {m \in s.messages : m.thread = t.id}]
               : t \in LastCopies(r, consumer, s)}
              : s \in Pending(r, consumer)}
---------------------------------------------------------------------------
FeedInit ==
    /\ Serial!Init
    /\ reader = [i \in ReviewId |-> [cursor |-> 0, seen |-> {}, since |-> 0]]

(* What a reader makes of a page: it has seen more, or it starts over. *)
Turned(mine, page) ==
    IF page.full_refresh_required
    THEN [cursor |-> page.next_cursor, seen |-> {}, since |-> page.next_cursor]
    ELSE [mine EXCEPT !.cursor = page.next_cursor,
                      !.seen = @ \cup {c.revision : c \in page.changes}]

ReadChanges(i, limit) ==
    /\ reviews[i] # NONE
    /\ reader' = [reader EXCEPT ![i] = Turned(@, ChangesPage(reviews[i], @.cursor, limit))]
    /\ UNCHANGED reviews

FeedNext ==
    \/ Serial!Next /\ UNCHANGED reader
    \/ \E i \in ReviewId, limit \in PageLimit : ReadChanges(i, limit)

(* A reader that asks again; the store's writers may stop at any time. *)
FeedSpec ==
    /\ FeedInit
    /\ [][FeedNext]_feedVars
    /\ \A i \in ReviewId, limit \in PageLimit : WF_feedVars(ReadChanges(i, limit))
---------------------------------------------------------------------------
(* Whatever the log dropped and wherever pages were cut, a reader has seen  *)
(* every revision from where it started to its cursor, or was told to start *)
(* over; and showing a thread once hides nothing: every message a consumer  *)
(* has yet to acknowledge is in what it is shown, as new as the newest      *)
(* submission of it (review.rs, changes and feedback).                      *)
ReaderMissesNothing ==
    /\ \A i \in ReviewId : reader[i].seen = (reader[i].since + 1)..reader[i].cursor
    /\ \A i \in Opened, c \in Consumer :
          \A s \in Pending(reviews[i], c) : \A m \in s.messages :
              \E shown \in FeedbackThreads(reviews[i], c) : \E n \in shown.messages :
                  n.id = m.id /\ n.revision >= m.revision

(* A reader that keeps asking ends up at the record's own revision, however *)
(* far it had fallen behind.                                                *)
ReaderCatchesUp ==
    \A i \in ReviewId :
        []<>(reviews[i] # NONE => reader[i].cursor = reviews[i].revision)
=============================================================================
