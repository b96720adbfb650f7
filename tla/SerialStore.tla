------------------------------ MODULE SerialStore ------------------------------
(***************************************************************************)
(* What the review store promises its clients: named records, each opened  *)
(* once and then changed by one whole request at a time.  What a record is *)
(* and which requests it admits are parameters.  ReviewLedger fills them   *)
(* in; ReviewStore, which has the lock, the files and the crashes, is      *)
(* shown to implement this module.                                         *)
(***************************************************************************)
CONSTANTS NONE, ReviewId, Binding, Source, Patch, Calls,
          NewReview(_, _, _),    \* the record of a binding, a source and a patch
          BoundTo(_, _, _),      \* a record has this binding and source
          Admits(_, _),          \* a record admits a request
          Commit(_, _)           \* the record the request makes of it

VARIABLE reviews     \* the record of each review, NONE before it is opened

Init == reviews = [i \in ReviewId |-> NONE]

(* A conversation that already reviews this source keeps its review. *)
Open(i, binding, source, patch) ==
    /\ reviews[i] = NONE
    /\ \A j \in ReviewId : ~BoundTo(reviews[j], binding, source)
    /\ reviews' = [reviews EXCEPT ![i] = NewReview(binding, source, patch)]

Mutate(i, req) ==
    /\ reviews[i] # NONE
    /\ Admits(reviews[i], req)
    /\ reviews' = [reviews EXCEPT ![i] = Commit(@, req)]

Next ==
    \/ \E i \in ReviewId, binding \in Binding, source \in Source, patch \in Patch :
          Open(i, binding, source, patch)
    \/ \E i \in ReviewId, req \in Calls : Mutate(i, req)

Spec == Init /\ [][Next]_reviews
=============================================================================
