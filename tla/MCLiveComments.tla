----------------------------- MODULE MCLiveComments -----------------------------
(* Diffs of one file that changes, moves and goes, beside one that stays. *)
EXTENDS LiveComments, TLC

CONSTANTS
    p, q, r, long, a, b, c,
    First    \* the diff that behaviours start with

Modified(path, hunks) == [old |-> path, new |-> path, payload |-> "text", hunks |-> hunks]
Renamed(from, to, hunks) == [old |-> from, new |-> to, payload |-> "renamed", hunks |-> hunks]
Deleted(path, hunks) == [old |-> path, new |-> NONE, payload |-> "text", hunks |-> hunks]

HunkOf(lines) == <<[old |-> 1, new |-> 1, lines |-> lines]>>
Written == HunkOf(<< <<"context", a>>, <<"deletion", b>>, <<"addition", c>> >>)
Pushed == HunkOf(<< <<"addition", b>>, <<"context", a>>, <<"deletion", b>>, <<"addition", c>> >>)
Doubled == HunkOf(<< <<"context", a>>, <<"addition", c>>, <<"addition", c>> >>)
Other == HunkOf(<< <<"context", a>>, <<"deletion", c>>, <<"addition", b>> >>)
Stays == Modified(q, HunkOf(<< <<"addition", c>> >>))

MCFirst == <<Modified(p, Written), Stays>>

MCDocument ==
    { MCFirst, <<Modified(p, Pushed), Stays>>, <<Modified(p, Doubled)>>,
      <<Modified(p, Other), Stays>>, <<Renamed(p, r, Written), Stays>>,
      <<Renamed(p, long, Written), Stays>>, <<Deleted(p, Other)>>, <<Stays>> }

At(path, side, line) == [path |-> path, side |-> side, line |-> line, scope |-> "line", span |-> <<>>]

(* The added line, the deleted one, one outside every hunk, the hunk, the file. *)
MCPlace ==
    { At(p, "new", 2), At(p, "old", 2), At(p, "new", 9),
      ForHunk(Modified(p, Written), Written[1]), ForFile(Modified(p, Written)) }

(* Comments and judgements do not meet, except in the diff. *)
VARIABLE commenting    \* which of them a behaviour has

MCInit == Init /\ document = First /\ commenting \in BOOLEAN
MCNext ==
    /\ UNCHANGED commenting
    /\ \/ \E doc \in Document : Replace(doc) \/ ResetReview(doc)
       \/ \E client \in Client : Read(client)
       \/ commenting /\ Commenting
       \/ ~commenting /\ Judging

MCSpec == MCInit /\ [][MCNext]_<<vars, commenting>>
=============================================================================
