------------------------- MODULE LiveCommentsProofs -------------------------
(***************************************************************************)
(* Theorems about LiveComments: comments stand at what they were written   *)
(* on, and judgements are about the diff that is shown.                    *)
(***************************************************************************)
EXTENDS LiveComments, FiniteSetTheorems, TLAPS

---------------------------------------------------------------------------
(* A diff has finitely many files, numbered. *)
LEMMA IndicesAreNumbers ==
    ASSUME NEW doc \in Document
    PROVE  /\ IsFiniteSet(DOMAIN doc)
           /\ \A k \in DOMAIN doc : k \in Nat
  <1>1. Len(doc) \in Nat /\ DOMAIN doc = 1..Len(doc)
    BY FilesAreNamed
  <1>2. IsFiniteSet(1..Len(doc))
    BY <1>1, FS_Interval
  <1> QED
    BY <1>1, <1>2

(* A path that names a file of a diff names that one, and a search finds    *)
(* it.                                                                      *)
LEMMA OneFileHasAName ==
    ASSUME NEW doc \in Document, NEW k \in DOMAIN doc, NEW path \in Names(doc[k])
    PROVE  /\ Naming(doc, path) = {k}
           /\ FindFile(doc, path) = doc[k]
  <1> DEFINE N == Naming(doc, path)
  <1>1. path \in Path
    BY FilesAreNamed
  <1>2. k \in N /\ N \subseteq DOMAIN doc
    BY DEF Naming
  <1>3. IsFiniteSet(N)
    BY <1>2, IndicesAreNumbers, FS_Subset
  <1>4. Cardinality(N) \in Nat /\ Cardinality(N) <= 1
    BY <1>1, <1>3, OneFilePerPath, FS_CardinalityType
  <1>5. Cardinality(N) # 0
    BY <1>2, <1>3, FS_EmptySet
  <1>6. Cardinality(N) = 1
    BY <1>4, <1>5
  <1>7. \E x : N = {x}
    BY <1>3, <1>6, FS_Singleton
  <1>8. N = {k}
    BY <1>2, <1>7
  <1>9. k \in Nat
    BY IndicesAreNumbers
  <1>10. k = CHOOSE i \in N : \A j \in N : i <= j
    <2>1. k <= k
      BY <1>9
    <2> QED
      BY <2>1, <1>8
  <1> QED
    BY <1>8, <1>10 DEF FindFile

(* What a search finds is a file of the diff that has the name. *)
LEMMA FoundIsAFile ==
    ASSUME NEW doc \in Document, NEW path, FindFile(doc, path) # NONE
    PROVE  \E k \in DOMAIN doc : path \in Names(doc[k]) /\ FindFile(doc, path) = doc[k]
  <1>1. PICK k : k \in Naming(doc, path)
    BY DEF FindFile
  <1>2. k \in DOMAIN doc /\ path \in Names(doc[k])
    BY <1>1 DEF Naming
  <1> QED
    BY <1>2, OneFileHasAName

(* The path under which a file is shown is one of its names, on either      *)
(* side.                                                                    *)
LEMMA DisplayPathIsAName ==
    ASSUME NEW doc \in Document, NEW k \in DOMAIN doc, NEW side
    PROVE  /\ DisplayPath(doc[k]) \in Names(doc[k])
           /\ PathForSide(doc[k], side) \in Names(doc[k])
  <1>1. Names(doc[k]) # {}
    BY FilesAreNamed
  <1> QED
    BY <1>1 DEF DisplayPath, PathForSide, Names

(* The fingerprints of a diff are those of the files a search finds. *)
LEMMA FingerprintsAreFiles ==
    ASSUME NEW doc \in Document, NEW path
    PROVE  /\ path \in DOMAIN FileFingerprints(doc) <=>
                 \E k \in DOMAIN doc : path \in Names(doc[k])
           /\ path \in DOMAIN FileFingerprints(doc) =>
                 FileFingerprints(doc)[path] = FindFile(doc, path)
           /\ path \notin DOMAIN FileFingerprints(doc) => FindFile(doc, path) = NONE
  <1>1. path \in DOMAIN FileFingerprints(doc) <=>
           \E k \in DOMAIN doc : path \in Names(doc[k])
    BY DEF FileFingerprints
  <1>2. ASSUME path \in DOMAIN FileFingerprints(doc)
        PROVE  FileFingerprints(doc)[path] = FindFile(doc, path)
    <2>1. PICK k \in DOMAIN doc : path \in Names(doc[k])
      BY <1>1, <1>2
    <2>2. Naming(doc, path) = {k} /\ FindFile(doc, path) = doc[k]
      BY <2>1, OneFileHasAName
    <2>3. k <= k
      BY IndicesAreNumbers
    <2>4. k = CHOOSE i \in Naming(doc, path) : \A j \in Naming(doc, path) : j <= i
      BY <2>2, <2>3
    <2> QED
      BY <1>2, <2>2, <2>4 DEF FileFingerprints
  <1>3. path \notin DOMAIN FileFingerprints(doc) => FindFile(doc, path) = NONE
    BY <1>1 DEF FindFile, Naming
  <1> QED
    BY <1>1, <1>2, <1>3

(* What did not change is the same file of both diffs. *)
LEMMA UnchangedPathsKeepTheirFiles ==
    ASSUME NEW old \in Document, NEW doc \in Document, NEW path,
           path \notin ChangedPaths(FileFingerprints(old), FileFingerprints(doc))
    PROVE  FindFile(doc, path) = FindFile(old, path)
  BY FingerprintsAreFiles DEF ChangedPaths

(* Two diffs of which no path changed have the same files. *)
LEMMA NothingChangedIsTheSameDiff ==
    ASSUME NEW old \in Document, NEW doc \in Document,
           ChangedPaths(FileFingerprints(old), FileFingerprints(doc)) = {}
    PROVE  ToSet(old) \subseteq ToSet(doc) /\ ToSet(doc) \subseteq ToSet(old)
  <1>1. ASSUME NEW a \in Document, NEW b \in Document, NEW k \in DOMAIN a,
               \A path : FindFile(a, path) = FindFile(b, path)
        PROVE  a[k] \in ToSet(b)
    <2>1. PICK path : path \in Names(a[k])
      BY FilesAreNamed
    <2>2. FindFile(a, path) = a[k]
      BY <2>1, OneFileHasAName
    <2>3. FindFile(b, path) = a[k] /\ a[k] # NONE
      BY <2>2, <1>1, FilesAreNamed
    <2> QED
      BY <2>3, FoundIsAFile DEF ToSet
  <1>2. \A path : FindFile(old, path) = FindFile(doc, path)
    BY UnchangedPathsKeepTheirFiles
  <1> QED
    BY <1>1, <1>2 DEF ToSet
---------------------------------------------------------------------------

(* What an agent has read is no newer than the diff, and the same if it is  *)
(* not older.                                                               *)
ReadInv ==
    /\ document \in Document
    /\ generation \in Nat
    /\ read \in [Client -> [generation : Nat, document : Document]]
    /\ \A a \in Client :
          /\ read[a].generation <= generation
          /\ read[a].generation = generation => read[a].document = document

(* Comments leave the diff, what was judged and what agents have read       *)
(* alone.                                                                   *)
LEMMA CommentingJudgesNothing ==
    Commenting => UNCHANGED <<document, generation, lifecycle, read>>
  <1>1. \A anchor : OpenDraft(anchor) \/ RemoveMark(anchor)
                      => UNCHANGED <<document, generation, lifecycle, read>>
    BY DEF OpenDraft, RemoveMark
  <1>2. CancelDraft \/ CommitEmptyDraft \/ CommitDraft \/ ClearAllMarks
          => UNCHANGED <<document, generation, lifecycle, read>>
    BY DEF CancelDraft, CommitEmptyDraft, CommitDraft, ClearAllMarks
  <1>3. \A anchor, d : DisposeOfMark(anchor, d)
                         => UNCHANGED <<document, generation, lifecycle, read>>
    BY DEF DisposeOfMark
  <1>4. \A a, anchors : ApplyComments(a, anchors)
                          => UNCHANGED <<document, generation, lifecycle, read>>
    BY DEF ApplyComments
  <1>5. \A a, n, d : RemoveComment(a, n) \/ SetDisposition(a, n, d)
                       => UNCHANGED <<document, generation, lifecycle, read>>
    BY DEF RemoveComment, SetDisposition
  <1>6. \A a, path : ClearAgents(a, path)
                       => UNCHANGED <<document, generation, lifecycle, read>>
    BY DEF ClearAgents
  <1> QED
    BY <1>1, <1>2, <1>3, <1>4, <1>5, <1>6 DEF Commenting

(* Marks and verdicts leave the diff, the comments and what agents have     *)
(* read alone.                                                              *)
LEMMA JudgingReplacesNothing ==
    Judging => UNCHANGED <<document, generation, comments, next_id, draft, read>>
  BY DEF Judging, ToggleReviewed, GiveVerdict, SetProgress, SetVerdict

(* What agents have read is never newer than the diff. *)
LEMMA ReadInvHolds ==
    /\ Init => ReadInv
    /\ ReadInv /\ [Next]_vars => ReadInv'
  <1>1. Init => ReadInv
    BY DEF Init, ReadInv
  <1> SUFFICES ASSUME ReadInv, [Next]_vars PROVE ReadInv'
    BY <1>1
  <1> USE DEF ReadInv
  <1>2. ASSUME NEW doc \in Document, Replace(doc) \/ ResetReview(doc) PROVE ReadInv'
    <2>1. document' = doc /\ generation' = generation + 1 /\ read' = read
      BY <1>2 DEF Replace, ResetReview
    <2>2. \A a \in Client : read[a].generation \in Nat
      OBVIOUS
    <2> QED
      BY <2>1, <2>2
  <1>3. ASSUME NEW a \in Client, Read(a) PROVE ReadInv'
    <2> DEFINE now == [generation |-> generation, document |-> document]
    <2>1. /\ read' = [read EXCEPT ![a] = now]
          /\ document' = document /\ generation' = generation
      BY <1>3 DEF Read
    <2>2. /\ now \in [generation : Nat, document : Document]
          /\ now.generation = generation /\ now.document = document
      OBVIOUS
    <2> HIDE DEF now
    <2>3. read' \in [Client -> [generation : Nat, document : Document]]
      BY <2>1, <2>2
    <2>4. read'[a] = now
      BY <2>1
    <2>5. ASSUME NEW b \in Client, b # a PROVE read'[b] = read[b]
      BY <2>1, <2>5
    <2> QED
      BY <2>1, <2>2, <2>3, <2>4, <2>5
  <1>4. CASE Commenting
    BY <1>4, CommentingJudgesNothing
  <1>5. CASE Judging
    BY <1>5, JudgingReplacesNothing
  <1>6. CASE UNCHANGED vars
    BY <1>6 DEF vars
  <1> QED
    BY <1>2, <1>3, <1>4, <1>5, <1>6 DEF Next

(* A transition drops the marks of changed files, and the verdict if any    *)
(* changed.                                                                 *)
LEMMA ReplacingKeepsWhatIsCurrent ==
    ASSUME ReadInv, JudgedIsCurrent, NEW doc \in Document, Replace(doc)
    PROVE  JudgedIsCurrent'
  <1> DEFINE changed == ChangedPaths(FileFingerprints(document), FileFingerprints(doc))
  <1>1. document \in Document /\ document' = doc
    BY DEF ReadInv, Replace
  <1>2. \/ changed = {} /\ reviewed' = reviewed /\ verdict' = verdict
        \/ reviewed' = Surviving(changed) /\ verdict' = NONE
    BY DEF Replace, Apply, lifecycle
  <1>3. \A path : path \notin changed => FindFile(doc, path) = FindFile(document, path)
    BY <1>1, UnchangedPathsKeepTheirFiles
  <1>4. changed = {} => ToSet(document) = ToSet(doc)
    BY <1>1, NothingChangedIsTheSameDiff
  <1> HIDE DEF changed
  <1>5. \A x \in DOMAIN reviewed' :
           x[1] \notin changed /\ x \in DOMAIN reviewed /\ reviewed'[x] = reviewed[x]
    BY <1>2 DEF Surviving
  <1>6. \A x \in DOMAIN reviewed' : FindFile(doc, x[1]) = reviewed'[x]
    BY <1>3, <1>5 DEF JudgedIsCurrent
  <1>7. verdict' # NONE => ToSet(verdict') = ToSet(doc)
    BY <1>2, <1>4 DEF JudgedIsCurrent
  <1> QED
    BY <1>1, <1>6, <1>7 DEF JudgedIsCurrent

(* A mark on the file that is shown, or one less, leaves marks current. *)
LEMMA MarkedAsItIs ==
    ASSUME JudgedIsCurrent, NEW item, NEW file,
           document' = document, verdict' = verdict,
           \/ FindFile(document, item[1]) = file /\ reviewed' = Mark(item, file)
           \/ reviewed' = Unmark(item)
    PROVE  JudgedIsCurrent'
  <1>1. \A x \in DOMAIN reviewed' : FindFile(document, x[1]) = reviewed'[x]
    BY DEF JudgedIsCurrent, Mark, Unmark
  <1> QED
    BY <1>1 DEF JudgedIsCurrent

(* The reader marks what is shown; an agent what it has read, which its     *)
(* generation says is shown.                                                *)
LEMMA JudgingKeepsWhatIsCurrent ==
    ASSUME ReadInv, JudgedIsCurrent, Judging
    PROVE  JudgedIsCurrent'
  <1>1. ASSUME NEW k \in DOMAIN document, NEW item \in Items(document[k]),
               ToggleReviewed(k, item)
        PROVE  JudgedIsCurrent'
    <2>1. item[1] = DisplayPath(document[k])
      BY DEF Items
    <2>2. FindFile(document, item[1]) = document[k]
      BY <2>1, DisplayPathIsAName, OneFileHasAName DEF ReadInv
    <2>3. /\ document' = document /\ verdict' = verdict
          /\ reviewed' = Mark(item, document[k]) \/ reviewed' = Unmark(item)
      BY <1>1 DEF ToggleReviewed
    <2> QED
      BY <2>2, <2>3, MarkedAsItIs
  <1>2. ASSUME NEW a \in Client, NEW path, NEW hunk, NEW value, SetProgress(a, path, hunk, value)
        PROVE  JudgedIsCurrent'
    <2> DEFINE item == <<DisplayPath(FindFile(document, path)), hunk>>
    <2>1. read[a].document = document
      BY <1>2 DEF SetProgress, RequireGeneration, ReadInv
    <2>2. FindFile(document, path) # NONE
      BY <1>2 DEF SetProgress
    <2>3. FindFile(document, item[1]) = FindFile(document, path)
      BY <2>2, FoundIsAFile, DisplayPathIsAName, OneFileHasAName DEF ReadInv
    <2>4. /\ document' = document /\ verdict' = verdict
          /\ reviewed' = Mark(item, FindFile(document, path)) \/ reviewed' = Unmark(item)
      BY <1>2, <2>1 DEF SetProgress
    <2> QED
      BY <2>3, <2>4, MarkedAsItIs
  <1>3. ASSUME NEW given, GiveVerdict(given), given \in {NONE, document}
        PROVE  JudgedIsCurrent'
    BY <1>3 DEF GiveVerdict, JudgedIsCurrent
  <1>4. ASSUME NEW a \in Client, NEW given, SetVerdict(a, given),
               given \in {NONE, read[a].document}
        PROVE  JudgedIsCurrent'
    <2>1. read[a].document = document
      BY <1>4 DEF SetVerdict, RequireGeneration, ReadInv
    <2> QED
      BY <1>4, <2>1 DEF SetVerdict, JudgedIsCurrent
  <1> QED
    BY <1>1, <1>2, <1>3, <1>4 DEF Judging

(* What is marked reviewed is the file as it was when it was marked, and a  *)
(* verdict stands on the diff it was given on.                              *)
THEOREM JudgementsOfAViewAreCurrent == Spec => []JudgedIsCurrent
  <1>1. Init => JudgedIsCurrent
    BY DEF Init, JudgedIsCurrent
  <1>2. ReadInv /\ JudgedIsCurrent /\ [Next]_vars => JudgedIsCurrent'
    <2> SUFFICES ASSUME ReadInv, JudgedIsCurrent, [Next]_vars PROVE JudgedIsCurrent'
      OBVIOUS
    <2>1. ASSUME NEW doc \in Document, Replace(doc) PROVE JudgedIsCurrent'
      BY <2>1, ReplacingKeepsWhatIsCurrent
    <2>2. ASSUME NEW doc \in Document, ResetReview(doc) PROVE JudgedIsCurrent'
      BY <2>2 DEF ResetReview, JudgedIsCurrent
    <2>3. ASSUME NEW a \in Client, Read(a) PROVE JudgedIsCurrent'
      BY <2>3 DEF Read, JudgedIsCurrent, lifecycle
    <2>4. CASE Commenting
      BY <2>4, CommentingJudgesNothing DEF JudgedIsCurrent, lifecycle
    <2>5. CASE Judging
      BY <2>5, JudgingKeepsWhatIsCurrent
    <2>6. CASE UNCHANGED vars
      BY <2>6 DEF vars, JudgedIsCurrent, lifecycle
    <2> QED
      BY <2>1, <2>2, <2>3, <2>4, <2>5, <2>6 DEF Next
  <1> QED
    BY <1>1, <1>2, ReadInvHolds, PTL DEF Spec

(* The fields of a comment. *)
Fields == {"origin", "number", "anchor", "lifecycle", "disposition", "document_generation",
           "evidence", "was", "names", "contents", "surmised"}

IsAnchor(anchor) == anchor.side \in {"old", "new"} /\ anchor.scope \in {"file", "line", "hunk"}

(* An evidence, or what an anchor stands on now, is what a comment was      *)
(* written on, and for a comment on a file a content that file has had.     *)
Agrees(evidence, c) ==
    /\ evidence.text = c.was.text
    /\ evidence.hunk = c.was.hunk
    /\ c.anchor.scope = "file" => evidence.file \in c.contents

Stands(c, doc) ==
    /\ FindFile(doc, c.anchor.path) # NONE
    /\ Agrees(AnchorEvidence(doc, c.anchor), c)

(* While a comment's place is not surmised: a comment that is shown stands, *)
(* one that is not has its evidence, and a comment on a file has had its    *)
(* name.                                                                    *)
Follows(c, doc) ==
    /\ c.anchor.scope = "file" => c.anchor.path \in c.names
    /\ c.anchor.scope # "line" => c.was.text = NONE
    /\ c.anchor.scope # "hunk" => c.was.hunk = NONE
    /\ Shown(c) => Stands(c, doc)
    /\ c.evidence # NONE => Agrees(c.evidence, c)
    /\ ~Shown(c) => c.evidence # NONE

(* What holds of every comment in a diff. *)
Good(c, doc) ==
    /\ DOMAIN c = Fields
    /\ IsAnchor(c.anchor)
    /\ c.surmised \in BOOLEAN
    /\ ~c.surmised => Follows(c, doc)

(* An anchor a comment may be made at. *)
InFile(doc, anchor) == IsAnchor(anchor) /\ FindFile(doc, anchor.path) # NONE

(* A sequence of whatever it has. *)
Sequence(s) == s \in Seq(ToSet(s))

CommentInv ==
    /\ Sequence(comments)
    /\ \A k \in DOMAIN comments : Good(comments[k], document)
    /\ draft # NONE => InFile(document, draft)

(* What membership in a set of sequences says of one. *)
LEMMA SequenceFacts ==
    ASSUME NEW s, Sequence(s)
    PROVE  /\ Len(s) \in Nat /\ DOMAIN s = 1..Len(s)
           /\ s = [k \in DOMAIN s |-> s[k]]
           /\ \A k \in DOMAIN s : s[k] \in ToSet(s)
           /\ \A c \in ToSet(s) : \E k \in DOMAIN s : c = s[k]
  BY DEF Sequence, ToSet

(* A function on the first numbers is a sequence. *)
LEMMA FunctionIsASequence ==
    ASSUME NEW n \in Nat, NEW s, DOMAIN s = 1..n, s = [k \in DOMAIN s |-> s[k]]
    PROVE  Sequence(s)
  <1>1. s \in [1..n -> ToSet(s)]
    BY DEF ToSet
  <1> QED
    BY <1>1 DEF Sequence

(* Two sequences joined are a sequence of the elements of both. *)
LEMMA JoinedSequences ==
    ASSUME NEW s, NEW t, Sequence(s), Sequence(t)
    PROVE  /\ Sequence(s \o t)
           /\ \A k \in DOMAIN (s \o t) :
                 \/ \E i \in DOMAIN s : (s \o t)[k] = s[i]
                 \/ \E i \in DOMAIN t : (s \o t)[k] = t[i]
  <1> DEFINE S == ToSet(s) \cup ToSet(t)
  <1>1. s \in Seq(S) /\ t \in Seq(S)
    BY DEF Sequence
  <1> DEFINE u == s \o t
  <1>2. u \in Seq(S) /\ Len(u) = Len(s) + Len(t) /\ Len(s) \in Nat /\ Len(t) \in Nat
    BY <1>1
  <1>3. ASSUME NEW k \in 1..(Len(s) + Len(t))
        PROVE  u[k] = IF k <= Len(s) THEN s[k] ELSE t[k - Len(s)]
    BY <1>1
  <1>4. DOMAIN s = 1..Len(s) /\ DOMAIN t = 1..Len(t)
    BY <1>1
  <1> HIDE DEF u, S
  <1>5. DOMAIN u = 1..Len(u) /\ u = [k \in DOMAIN u |-> u[k]]
    BY <1>2
  <1>6. Sequence(u)
    BY <1>2, <1>5, FunctionIsASequence
  <1>7. ASSUME NEW k \in DOMAIN u
        PROVE  \/ \E i \in DOMAIN s : u[k] = s[i]
               \/ \E i \in DOMAIN t : u[k] = t[i]
    <2>1. k \in 1..(Len(s) + Len(t))
      BY <1>2, <1>5
    <2>2. CASE k <= Len(s)
      BY <1>2, <1>3, <1>4, <2>1, <2>2
    <2>3. CASE ~(k <= Len(s))
      <3>1. k - Len(s) \in DOMAIN t /\ u[k] = t[k - Len(s)]
        BY <1>2, <1>3, <1>4, <2>1, <2>3
      <3> QED
        BY <3>1
    <2> QED
      BY <2>2, <2>3
  <1> QED
    BY <1>6, <1>7 DEF u

(* What anchors stand on. *)

(* The evidence of an anchor whose file the diff has. *)
LEMMA EvidenceOfAFile ==
    ASSUME NEW doc, NEW anchor, NEW file, FindFile(doc, anchor.path) = file, file # NONE
    PROVE  LET now == AnchorEvidence(doc, anchor)
           IN  /\ now.file = file.hunks
               /\ now.text = IF anchor.scope = "line"
                             THEN LineText(file, anchor.side, anchor.line) ELSE NONE
               /\ now.hunk = IF anchor.scope = "hunk" THEN HunkAt(file, anchor) ELSE NONE
  BY DEF AnchorEvidence

(* A numbered line of a side is the one found at its number. *)
LEMMA LineHasItsText ==
    ASSUME NEW doc \in Document, NEW k \in DOMAIN doc, NEW side \in {"old", "new"},
           NEW l \in SideLines(doc[k], side)
    PROVE  LineText(doc[k], side, l.line) = l.text
  BY HunksAreApart DEF LineText

(* A hunk is the one found at its span. *)
LEMMA HunkIsAtItsSpan ==
    ASSUME NEW doc \in Document, NEW k \in DOMAIN doc, NEW h \in DOMAIN doc[k].hunks,
           NEW anchor, anchor.span = Span(doc[k].hunks[h])
    PROVE  HunkAt(doc[k], anchor) = doc[k].hunks[h]
  <1> DEFINE At(g) == Span(doc[k].hunks[g]) = anchor.span
             first == CHOOSE g \in DOMAIN doc[k].hunks : At(g)
  <1>1. first \in DOMAIN doc[k].hunks /\ At(first)
    OBVIOUS
  <1>2. doc[k].hunks[first] = doc[k].hunks[h]
    BY <1>1, HunksAreApart
  <1> QED
    BY <1>2 DEF HunkAt

(* The anchors made for a file lead back to it. *)
LEMMA AnchorsOfAFile ==
    ASSUME NEW doc \in Document, NEW k \in DOMAIN doc
    PROVE  /\ LET a == ForFile(doc[k])
              IN  IsAnchor(a) /\ a.scope = "file" /\ FindFile(doc, a.path) = doc[k]
           /\ \A hunk : LET a == ForHunk(doc[k], hunk)
                        IN  /\ IsAnchor(a) /\ a.scope = "hunk" /\ a.span = Span(hunk)
                            /\ FindFile(doc, a.path) = doc[k]
           /\ \A side \in {"old", "new"} : \A line :
                 LET a == ForFileLine(doc[k], side, line)
                 IN  /\ IsAnchor(a) /\ a.scope = "line" /\ a.side = side /\ a.line = line
                     /\ FindFile(doc, a.path) = doc[k]
  <1>1. FindFile(doc, DisplayPath(doc[k])) = doc[k]
    BY DisplayPathIsAName, OneFileHasAName
  <1>2. \A side : FindFile(doc, PathForSide(doc[k], side)) = doc[k]
    BY DisplayPathIsAName, OneFileHasAName
  <1>3. PreferredSide(doc[k]) \in {"old", "new"}
    BY DEF PreferredSide
  <1> QED
    BY <1>1, <1>2, <1>3 DEF ForFile, ForHunk, ForFileLine, IsAnchor

(* Every anchor that a reader or an agent may choose is in a file of the    *)
(* diff.                                                                    *)
LEMMA RowsAreInFiles ==
    ASSUME NEW doc \in Document, NEW anchor \in Rows(doc) \cup Expandable(doc) \cup Valid(doc)
    PROVE  InFile(doc, anchor)
  <1>1. \A k \in DOMAIN doc : doc[k] # NONE
    BY FilesAreNamed
  <1>2. ASSUME NEW k \in DOMAIN doc, anchor \in FileAndHunkAnchors(doc[k]) PROVE InFile(doc, anchor)
    BY <1>1, <1>2, AnchorsOfAFile DEF FileAndHunkAnchors, InFile
  <1>3. ASSUME NEW k \in DOMAIN doc, NEW side \in {"old", "new"}, NEW kinds,
               anchor \in LineAnchors(doc[k], side, kinds)
        PROVE  InFile(doc, anchor)
    BY <1>1, <1>3, AnchorsOfAFile DEF LineAnchors, InFile
  <1>4. CASE anchor \in Rows(doc)
    BY <1>2, <1>3, <1>4 DEF Rows, RowAnchors
  <1>5. CASE anchor \in Valid(doc)
    BY <1>2, <1>3, <1>5 DEF Valid, AgentAnchors
  <1>6. CASE anchor \in Expandable(doc)
    <2>1. PICK k \in DOMAIN doc :
             /\ anchor.scope = "line"
             /\ anchor.side = PreferredSide(doc[k])
             /\ anchor.path = DisplayPath(doc[k])
      BY <1>6 DEF Expandable
    <2>2. FindFile(doc, anchor.path) = doc[k]
      BY <2>1, DisplayPathIsAName, OneFileHasAName
    <2> QED
      BY <1>1, <2>1, <2>2 DEF InFile, IsAnchor, PreferredSide
  <1> QED
    BY <1>4, <1>5, <1>6

(* A place that is found has what the evidence describes; a comment on a    *)
(* file finds it by its name or its content.                                *)
LEMMA CandidatesHaveTheEvidence ==
    ASSUME NEW doc \in Document, NEW k \in DOMAIN doc, NEW anchor, IsAnchor(anchor), NEW evidence,
           NEW a \in CandidateAnchor(doc[k], anchor, evidence)
    PROVE  /\ InFile(doc, a)
           /\ a.scope = anchor.scope
           /\ FindFile(doc, a.path) = doc[k]
           /\ a.scope = "line" => AnchorEvidence(doc, a).text = evidence.text
           /\ a.scope = "hunk" => AnchorEvidence(doc, a).hunk = evidence.hunk
           /\ a.scope = "file" =>
                 /\ a.path \in Names(doc[k])
                 /\ anchor.path \in Names(doc[k]) \/ doc[k].hunks = evidence.file
  <1>1. doc[k] # NONE
    BY FilesAreNamed
  <1>2. CASE anchor.scope = "file"
    <2>1. /\ a = ForFile(doc[k])
          /\ anchor.path \in Names(doc[k]) \/ doc[k].hunks = evidence.file
      BY <1>2 DEF CandidateAnchor
    <2>2. a.path \in Names(doc[k])
      BY <2>1, DisplayPathIsAName DEF ForFile
    <2> QED
      BY <1>1, <1>2, <2>1, <2>2, AnchorsOfAFile DEF InFile
  <1>3. CASE anchor.scope = "line"
    <2>1. PICK l \in SideLines(doc[k], anchor.side) :
             l.text = evidence.text /\ a = ForFileLine(doc[k], anchor.side, l.line)
      BY <1>3 DEF CandidateAnchor
    <2>2. anchor.side \in {"old", "new"}
      BY DEF IsAnchor
    <2>3. /\ IsAnchor(a) /\ a.scope = "line" /\ a.side = anchor.side /\ a.line = l.line
          /\ FindFile(doc, a.path) = doc[k]
      BY <2>1, <2>2, AnchorsOfAFile
    <2>4. LineText(doc[k], anchor.side, l.line) = evidence.text
      BY <2>1, <2>2, LineHasItsText
    <2>5. AnchorEvidence(doc, a).text = evidence.text
      BY <1>1, <2>3, <2>4, EvidenceOfAFile
    <2> QED
      BY <1>1, <1>3, <2>3, <2>5 DEF InFile
  <1>4. CASE anchor.scope = "hunk"
    <2>1. PICK h \in DOMAIN doc[k].hunks :
             doc[k].hunks[h] = evidence.hunk /\ a = ForHunk(doc[k], doc[k].hunks[h])
      BY <1>4 DEF CandidateAnchor
    <2>2. /\ IsAnchor(a) /\ a.scope = "hunk" /\ a.span = Span(doc[k].hunks[h])
          /\ FindFile(doc, a.path) = doc[k]
      BY <2>1, AnchorsOfAFile
    <2>3. HunkAt(doc[k], a) = evidence.hunk
      BY <2>1, <2>2, HunkIsAtItsSpan
    <2>4. AnchorEvidence(doc, a).hunk = evidence.hunk
      BY <1>1, <2>2, <2>3, EvidenceOfAFile
    <2> QED
      BY <1>1, <1>4, <2>2, <2>4 DEF InFile
  <1> QED
    BY <1>2, <1>3, <1>4 DEF IsAnchor

(* Where a place is found without evidence it is that of a named file. *)
LEMMA FoundPlaces ==
    ASSUME NEW doc \in Document, NEW anchor, IsAnchor(anchor), NEW evidence,
           NEW a \in Reanchored(doc, anchor, evidence)
    PROVE  \E k \in DOMAIN doc : a \in CandidateAnchor(doc[k], anchor, evidence)
  BY DEF Reanchored

(* Without evidence only a file is found, by its name. *)
LEMMA NothingFoundInNothing ==
    ASSUME NEW doc \in Document, NEW k \in DOMAIN doc, NEW anchor, IsAnchor(anchor),
           NEW a \in CandidateAnchor(doc[k], anchor, NoEvidence)
    PROVE  anchor.scope = "file" /\ anchor.path \in Names(doc[k])
  <1>1. NoEvidence.text = NONE /\ NoEvidence.hunk = NONE /\ NoEvidence.file = NONE
    BY DEF NoEvidence
  <1>2. doc[k].hunks # NONE
    BY FilesAreNamed
  <1>3. anchor.scope # "line"
    <2> SUFFICES ASSUME anchor.scope = "line" PROVE FALSE
      OBVIOUS
    <2>1. PICK l \in SideLines(doc[k], anchor.side) : l.text = NONE
      BY <1>1 DEF CandidateAnchor
    <2> QED
      BY <2>1, HunksAreApart DEF IsAnchor
  <1>4. anchor.scope # "hunk"
    <2> SUFFICES ASSUME anchor.scope = "hunk" PROVE FALSE
      OBVIOUS
    <2>1. PICK h \in DOMAIN doc[k].hunks : doc[k].hunks[h] = NONE
      BY <1>1 DEF CandidateAnchor
    <2> QED
      BY <2>1, HunksAreApart
  <1> QED
    BY <1>1, <1>2, <1>3, <1>4 DEF CandidateAnchor, IsAnchor

(* What is known of a comment that is followed agrees with what it was      *)
(* written on.                                                              *)
LEMMA KnownAgrees ==
    ASSUME NEW c, Good(c, document), ~c.surmised
    PROVE  Agrees(Known(c), c)
  BY DEF Known, Good, Follows, Stands

(* What a transition keeps of a comment that was followed. *)
Carried(r, c, e) ==
    /\ DOMAIN r = Fields
    /\ IsAnchor(r.anchor) /\ r.anchor.scope = c.anchor.scope
    /\ r.evidence = e /\ r.was = c.was /\ r.surmised = c.surmised
    /\ c.names \subseteq r.names /\ c.contents \subseteq r.contents

(* A comment that stood in a file that did not change stands there. *)
LEMMA StandingInAnUnchangedFile ==
    ASSUME NEW doc \in Document, document \in Document, NEW c, NEW r,
           Stands(c, document), r.anchor = c.anchor, r.was = c.was, r.contents = c.contents,
           c.anchor.path \notin ChangedPaths(FileFingerprints(document), FileFingerprints(doc))
    PROVE  Stands(r, doc)
  <1>1. FindFile(doc, c.anchor.path) = FindFile(document, c.anchor.path)
    BY UnchangedPathsKeepTheirFiles
  <1>2. AnchorEvidence(doc, c.anchor) = AnchorEvidence(document, c.anchor)
    BY <1>1 DEF AnchorEvidence
  <1> QED
    BY <1>1, <1>2 DEF Stands, Agrees

(* A comment placed anew stands there, if its evidence agreed with what     *)
(* it was written on.                                                       *)
LEMMA PlacedCommentsStand ==
    ASSUME NEW doc \in Document, NEW c, DOMAIN c = Fields, IsAnchor(c.anchor),
           NEW e, c.evidence = e,
           NEW a \in Reanchored(doc, c.anchor, IF e = NONE THEN NoEvidence ELSE e)
    PROVE  LET r == Placed(c, doc, a)
           IN  /\ Carried(r, c, e)
               /\ /\ c.anchor.scope = "file" => c.anchor.path \in c.names
                  /\ c.anchor.scope # "line" => c.was.text = NONE
                  /\ c.anchor.scope # "hunk" => c.was.hunk = NONE
                  /\ e # NONE => Agrees(e, c)
                  => /\ Stands(r, doc)
                     /\ c.anchor.scope = "file" => r.anchor.path \in r.names
  <1> DEFINE r == Placed(c, doc, a)
             evidence == IF e = NONE THEN NoEvidence ELSE e
             file == FindFile(doc, a.path)
             followed == c.names \cap Names(file) # {} \/ file.hunks \in c.contents
  <1>1. DOMAIN c = Fields /\ IsAnchor(c.anchor)
    OBVIOUS
  <1>2. PICK k \in DOMAIN doc : a \in CandidateAnchor(doc[k], c.anchor, evidence)
    BY <1>1, FoundPlaces
  <1>3. /\ InFile(doc, a) /\ a.scope = c.anchor.scope /\ file = doc[k]
        /\ a.scope = "line" => AnchorEvidence(doc, a).text = evidence.text
        /\ a.scope = "hunk" => AnchorEvidence(doc, a).hunk = evidence.hunk
        /\ a.scope = "file" => /\ a.path \in Names(doc[k])
                               /\ c.anchor.path \in Names(doc[k]) \/ doc[k].hunks = evidence.file
    BY <1>1, <1>2, CandidatesHaveTheEvidence
  <1>4. /\ DOMAIN r = Fields /\ r.anchor = a
        /\ r.evidence = e /\ r.was = c.was /\ r.surmised = c.surmised
        /\ r.names = IF followed THEN c.names \cup Names(file) ELSE c.names
        /\ r.contents = IF followed THEN c.contents \cup {file.hunks} ELSE c.contents
    BY <1>1 DEF Placed, Fields
  <1>5. Carried(r, c, e)
    BY <1>3, <1>4 DEF Carried, InFile
  <1>6. file # NONE
    BY <1>3 DEF InFile
  <1>7. /\ AnchorEvidence(doc, a).file = file.hunks
        /\ a.scope # "line" => AnchorEvidence(doc, a).text = NONE
        /\ a.scope # "hunk" => AnchorEvidence(doc, a).hunk = NONE
    BY <1>6, EvidenceOfAFile
  <1>8. e = NONE => c.anchor.scope = "file" /\ c.anchor.path \in Names(doc[k])
    BY <1>1, <1>2, NothingFoundInNothing
  <1> SUFFICES
        ASSUME c.anchor.scope = "file" => c.anchor.path \in c.names,
               c.anchor.scope # "line" => c.was.text = NONE,
               c.anchor.scope # "hunk" => c.was.hunk = NONE,
               e # NONE => Agrees(e, c)
        PROVE  Stands(r, doc) /\ (c.anchor.scope = "file" => r.anchor.path \in r.names)
    BY <1>5
  <1> HIDE DEF r, file, followed
  <1>9. AnchorEvidence(doc, a).text = c.was.text /\ AnchorEvidence(doc, a).hunk = c.was.hunk
    BY <1>3, <1>7, <1>8 DEF Agrees
  <1>10. c.anchor.scope = "file" => followed
    BY <1>3, <1>8 DEF followed, Agrees
  <1>11. c.anchor.scope = "file" => file.hunks \in r.contents /\ r.anchor.path \in r.names
    BY <1>3, <1>4, <1>10
  <1> QED
    BY <1>3, <1>4, <1>6, <1>7, <1>9, <1>11 DEF Stands, Agrees, file

(* A comment that a transition restores, with its evidence or without,      *)
(* was carried and stands if it is shown.                                   *)
LEMMA RestoredComments ==
    ASSUME NEW doc \in Document, document \in Document, NEW c, Good(c, document),
           NEW e \in {NONE, Known(c)}
    PROVE  LET changed == ChangedPaths(FileFingerprints(document), FileFingerprints(doc))
               r == RestoreComment(c, e, doc, changed)
           IN  /\ Carried(r, c, e)
               /\ ~c.surmised =>
                     /\ Shown(r) => Stands(r, doc)
                     /\ c.anchor.scope = "file" => r.anchor.path \in r.names
  <1> DEFINE changed == ChangedPaths(FileFingerprints(document), FileFingerprints(doc))
             kept == [c EXCEPT !.evidence = e, !.document_generation = generation + 1]
             found == Reanchored(doc, c.anchor, IF e = NONE THEN NoEvidence ELSE e)
             r == RestoreComment(c, e, doc, changed)
             Result == /\ Carried(r, c, e)
                       /\ ~c.surmised =>
                             /\ Shown(r) => Stands(r, doc)
                             /\ c.anchor.scope = "file" => r.anchor.path \in r.names
  <1>1. DOMAIN c = Fields /\ IsAnchor(c.anchor)
    BY DEF Good
  <1>2. /\ DOMAIN kept = Fields /\ kept.anchor = c.anchor /\ kept.lifecycle = c.lifecycle
        /\ kept.evidence = e /\ kept.was = c.was /\ kept.surmised = c.surmised
        /\ kept.names = c.names /\ kept.contents = c.contents
    BY <1>1 DEF Fields
  <1>3. r = IF c.anchor.path \notin changed THEN kept
            ELSE IF found = {} THEN Lost(kept, doc)
            ELSE Placed(kept, doc, CHOOSE a \in found : TRUE)
    BY DEF RestoreComment
  <1>4. ~c.surmised => Follows(c, document) /\ Agrees(Known(c), c)
    BY KnownAgrees DEF Good
  <1> HIDE DEF r, kept
  <1>5. ASSUME c.anchor.path \notin changed PROVE Result
    <2>1. r = kept
      BY <1>3, <1>5
    <2>2. Carried(r, c, e)
      BY <1>1, <1>2, <2>1 DEF Carried
    <2>3. ~c.surmised /\ Shown(r) => Stands(r, doc)
      <3>1. ~c.surmised /\ Shown(r) => Stands(c, document)
        BY <1>2, <1>4, <2>1 DEF Follows, Shown
      <3> QED
        BY <1>2, <1>5, <2>1, <3>1, StandingInAnUnchangedFile
    <2> QED
      BY <1>2, <1>4, <2>1, <2>2, <2>3 DEF Follows
  <1>6. ASSUME c.anchor.path \in changed /\ found = {} PROVE Result
    <2>1. r = Lost(kept, doc)
      BY <1>3, <1>6
    <2>2. /\ DOMAIN r = Fields /\ r.anchor = c.anchor /\ ~Shown(r)
          /\ r.evidence = e /\ r.was = c.was /\ r.surmised = c.surmised
          /\ r.names = c.names /\ r.contents = c.contents
      BY <1>2, <2>1 DEF Lost, Shown, Fields
    <2> QED
      BY <1>1, <1>4, <2>2 DEF Carried, Follows
  <1>7. ASSUME c.anchor.path \in changed /\ found # {} PROVE Result
    <2> DEFINE a == CHOOSE x \in found : TRUE
    <2>1. a \in found /\ r = Placed(kept, doc, a)
      BY <1>3, <1>7
    <2> HIDE DEF a
    <2>2. a \in Reanchored(doc, kept.anchor, IF e = NONE THEN NoEvidence ELSE e)
      BY <1>2, <2>1
    <2> HIDE DEF found
    <2>3. /\ Carried(r, kept, e)
          /\ /\ kept.anchor.scope = "file" => kept.anchor.path \in kept.names
             /\ kept.anchor.scope # "line" => kept.was.text = NONE
             /\ kept.anchor.scope # "hunk" => kept.was.hunk = NONE
             /\ e # NONE => Agrees(e, kept)
             => /\ Stands(r, doc)
                /\ kept.anchor.scope = "file" => r.anchor.path \in r.names
      BY <1>1, <1>2, <2>1, <2>2, PlacedCommentsStand
    <2>4. Carried(r, c, e)
      BY <1>2, <2>3 DEF Carried
    <2>5. ~c.surmised /\ e # NONE => Agrees(e, kept)
      BY <1>2, <1>4 DEF Agrees
    <2>6. ~c.surmised =>
             /\ Stands(r, doc)
             /\ c.anchor.scope = "file" => r.anchor.path \in r.names
      BY <1>2, <1>4, <2>3, <2>5 DEF Follows
    <2> QED
      BY <2>4, <2>6
  <1> QED
    <2>1. Result
      BY <1>5, <1>6, <1>7
    <2> QED
      BY <2>1 DEF r

(* A comment that was carried is again one that is followed, or surmised. *)
LEMMA SurmisedComments ==
    ASSUME NEW doc, NEW c, Good(c, document), NEW e \in {NONE, Known(c)}, NEW r, Carried(r, c, e),
           ~c.surmised =>
              /\ Shown(r) => Stands(r, doc)
              /\ c.anchor.scope = "file" => r.anchor.path \in r.names,
           NEW w \in {r, Left(r, c.anchor)}
    PROVE  Good(Surmise(w), doc)
  <1> DEFINE s == Surmise(w)
  <1>1. DOMAIN c = Fields /\ IsAnchor(c.anchor) /\ c.surmised \in BOOLEAN
    BY DEF Good
  <1>2. ~c.surmised => Follows(c, document) /\ (e # NONE => Agrees(e, c))
    BY KnownAgrees DEF Good
  <1>3. /\ DOMAIN w = Fields /\ w.evidence = e /\ w.was = c.was
        /\ w.names = r.names /\ w.contents = r.contents
        /\ \/ w.anchor = r.anchor /\ w.lifecycle = r.lifecycle
           \/ w.anchor = c.anchor /\ ~Shown(w)
        /\ w.surmised = c.surmised
    BY DEF Carried, Fields, Shown, Left
  <1>4. /\ DOMAIN s = Fields /\ s.evidence = e /\ s.was = c.was
        /\ s.names = r.names /\ s.contents = r.contents
        /\ s.anchor = w.anchor /\ s.lifecycle = w.lifecycle
        /\ s.surmised = (c.surmised \/ (~Shown(w) /\ e = NONE))
    BY <1>3 DEF Fields, Surmise
  <1> HIDE DEF s
  <1>5. IsAnchor(s.anchor) /\ s.anchor.scope = c.anchor.scope
    BY <1>1, <1>3, <1>4 DEF Carried
  <1>6. s.surmised \in BOOLEAN
    BY <1>4
  <1>7. ASSUME ~s.surmised PROVE Follows(s, doc)
    <2>1. ~c.surmised /\ (~Shown(s) => e # NONE)
      BY <1>4, <1>7 DEF Shown
    <2>2. s.anchor.scope = "file" => s.anchor.path \in s.names
      BY <1>2, <1>3, <1>4, <1>5, <2>1 DEF Follows, Carried
    <2>3. Shown(s) => Stands(s, doc)
      <3>1. Shown(s) => s.anchor = r.anchor /\ Shown(r)
        BY <1>3, <1>4 DEF Shown
      <3>2. r.was = s.was /\ r.contents = s.contents
        BY <1>4 DEF Carried
      <3>3. Shown(s) => Stands(r, doc)
        BY <2>1, <3>1
      <3> QED
        BY <3>1, <3>2, <3>3 DEF Stands, Agrees
    <2>4. e # NONE => Agrees(e, s)
      BY <1>2, <1>4, <1>5, <2>1 DEF Agrees, Carried
    <2> QED
      BY <1>2, <1>4, <1>5, <2>1, <2>2, <2>3, <2>4 DEF Follows
  <1>8. Good(s, doc)
    BY <1>4, <1>5, <1>6, <1>7 DEF Good
  <1> QED
    BY <1>8 DEF s

(* A replacement of the diff keeps the invariant. *)
LEMMA ReplacingFollowsComments ==
    ASSUME document \in Document, CommentInv, NEW doc \in Document, Replace(doc)
    PROVE  CommentInv'
  <1> DEFINE old == FileFingerprints(document)
             new == FileFingerprints(doc)
             changed == ChangedPaths(old, new)
             restored == [k \in DOMAIN comments |->
                            RestoreComment(comments[k], Captured[k], doc, changed)]
             within == WithinLimits(restored)
  <1>1. document' = doc
    BY DEF Replace
  <1>2. draft' # NONE => InFile(doc, draft')
    BY RowsAreInFiles DEF Replace
  <1>3. \/ changed = {} /\ comments' = comments
        \/ comments' = [k \in DOMAIN comments |-> Surmise(within[k])]
    BY DEF Replace, Apply
  <1>4. Sequence(comments) /\ \A k \in DOMAIN comments : Good(comments[k], document)
    BY DEF CommentInv
  <1>5. ASSUME NEW k \in DOMAIN comments, changed = {} PROVE Good(comments[k], doc)
    <2>1. Stands(comments[k], document) => Stands(comments[k], doc)
      BY <1>5, StandingInAnUnchangedFile
    <2> QED
      BY <1>4, <2>1 DEF Good, Follows
  <1>6. CASE changed = {} /\ comments' = comments
    BY <1>1, <1>2, <1>4, <1>5, <1>6 DEF CommentInv
  <1>7. CASE comments' = [k \in DOMAIN comments |-> Surmise(within[k])]
    <2>1. ASSUME NEW k \in DOMAIN comments
          PROVE  /\ Captured[k] \in {NONE, Known(comments[k])}
                 /\ restored[k] = RestoreComment(comments[k], Captured[k], doc, changed)
      BY DEF Captured
    <2>2. ASSUME NEW k \in DOMAIN comments
          PROVE  LET c == comments[k]
                     r == restored[k]
                 IN  /\ Carried(r, c, Captured[k])
                     /\ ~c.surmised =>
                           /\ Shown(r) => Stands(r, doc)
                           /\ c.anchor.scope = "file" => r.anchor.path \in r.names
      BY <1>4, <2>1, RestoredComments
    <2>3. DOMAIN restored = DOMAIN comments
      OBVIOUS
    <2> HIDE DEF restored
    <2>4. DOMAIN within = DOMAIN comments
      BY <2>3 DEF WithinLimits
    <2>5. ASSUME NEW k \in DOMAIN comments
          PROVE  within[k] \in {restored[k], Left(restored[k], comments[k].anchor)}
      BY <2>3 DEF WithinLimits
    <2> HIDE DEF within
    <2>6. /\ DOMAIN comments' = DOMAIN comments
          /\ comments' = [k \in DOMAIN comments |-> Surmise(within[k])]
      BY <1>7
    <2>7. ASSUME NEW k \in DOMAIN comments PROVE Good(Surmise(within[k]), doc)
      <3>1. Good(comments[k], document) /\ Captured[k] \in {NONE, Known(comments[k])}
        BY <1>4, <2>1
      <3> QED
        BY <2>2, <2>5, <3>1, SurmisedComments
    <2>8. \A k \in DOMAIN comments : Good(comments'[k], doc)
      BY <2>6, <2>7
    <2>9. Sequence(comments')
      <3>1. Len(comments) \in Nat /\ DOMAIN comments = 1..Len(comments)
        BY <1>4, SequenceFacts
      <3>2. comments' = [k \in DOMAIN comments' |-> comments'[k]]
        BY <2>6
      <3> QED
        BY <2>6, <3>1, <3>2, FunctionIsASequence
    <2> QED
      BY <1>1, <1>2, <2>6, <2>8, <2>9 DEF CommentInv
  <1> QED
    BY <1>3, <1>6, <1>7

(* The actions that replace nothing. *)
LEMMA LeavingFollows ==
    ASSUME CommentInv, NEW kept, kept \subseteq DOMAIN comments, Leave(kept)
    PROVE  Sequence(comments') /\ \A k \in DOMAIN comments' : Good(comments'[k], document)
  <1>1. Len(comments) \in Nat /\ DOMAIN comments = 1..Len(comments)
    BY SequenceFacts DEF CommentInv
  <1>2. Cardinality(kept) \in Nat
    <2>1. IsFiniteSet(DOMAIN comments)
      BY <1>1, FS_Interval
    <2>2. IsFiniteSet(kept)
      BY <2>1, FS_Subset
    <2> QED
      BY <2>2, FS_CardinalityType
  <1>3. PICK order \in [1..Cardinality(kept) -> kept] :
           comments' = [k \in DOMAIN order |-> comments[order[k]]]
    BY DEF Leave
  <1>4. DOMAIN comments' = 1..Cardinality(kept)
    BY <1>3
  <1>5. Sequence(comments')
    BY <1>2, <1>3, <1>4, FunctionIsASequence
  <1>6. \A k \in DOMAIN comments' : Good(comments'[k], document)
    BY <1>3 DEF CommentInv
  <1> QED
    BY <1>5, <1>6

(* A disposition or a text that changes leaves comments good. *)
LEMMA RewritingFollows ==
    ASSUME CommentInv, DOMAIN comments' = DOMAIN comments,
           comments' = [k \in DOMAIN comments' |-> comments'[k]],
           \A k \in DOMAIN comments :
              \/ comments'[k] = comments[k]
              \/ \E d : comments'[k] = [comments[k] EXCEPT !.disposition = d]
              \/ \E g : comments'[k] = [comments[k] EXCEPT !.document_generation = g]
    PROVE  Sequence(comments') /\ \A k \in DOMAIN comments' : Good(comments'[k], document)
  <1>1. Len(comments) \in Nat /\ DOMAIN comments = 1..Len(comments)
    BY SequenceFacts DEF CommentInv
  <1>2. Sequence(comments')
    BY <1>1, FunctionIsASequence
  <1>3. ASSUME NEW k \in DOMAIN comments PROVE Good(comments'[k], document)
    <2> DEFINE c == comments[k]
               b == comments'[k]
    <2>1. Good(c, document)
      BY DEF CommentInv
    <2>2. DOMAIN c = Fields
      BY <2>1 DEF Good
    <2>3. /\ DOMAIN b = Fields /\ b.anchor = c.anchor /\ b.lifecycle = c.lifecycle
          /\ b.evidence = c.evidence /\ b.was = c.was /\ b.surmised = c.surmised
          /\ b.names = c.names /\ b.contents = c.contents
      BY <2>2 DEF Fields
    <2> HIDE DEF b, c
    <2>4. Good(b, document)
      BY <2>1, <2>3 DEF Good, Follows, Stands, Agrees, Shown
    <2> QED
      BY <2>4 DEF b
  <1> QED
    BY <1>2, <1>3

(* A new comment in a file of the diff is good. *)
LEMMA NewCommentsAreGood ==
    ASSUME document \in Document, NEW anchor, InFile(document, anchor), NEW origin, NEW number
    PROVE  Good(NewComment(origin, number, anchor, document), document)
  <1> DEFINE c == NewComment(origin, number, anchor, document)
             file == FindFile(document, anchor.path)
  <1>1. /\ DOMAIN c = Fields /\ c.anchor = anchor /\ c.lifecycle = "open" /\ c.evidence = NONE
        /\ c.was = AnchorEvidence(document, anchor) /\ c.surmised = FALSE
        /\ c.names = Names(file) /\ c.contents = {file.hunks}
    BY DEF NewComment, Fields
  <1>2. file # NONE /\ IsAnchor(anchor)
    BY DEF InFile
  <1>3. anchor.path \in Names(file)
    BY <1>2, FoundIsAFile
  <1>4. /\ AnchorEvidence(document, anchor).file = file.hunks
        /\ anchor.scope # "line" => AnchorEvidence(document, anchor).text = NONE
        /\ anchor.scope # "hunk" => AnchorEvidence(document, anchor).hunk = NONE
    BY <1>2, EvidenceOfAFile
  <1> HIDE DEF c
  <1>5. Good(c, document)
    BY <1>1, <1>2, <1>3, <1>4 DEF Good, Follows, Stands, Agrees, Shown
  <1> QED
    BY <1>5 DEF c

(* The anchor of the comment already there is in the same file. *)
LEMMA CanonicalAnchorsAreInFiles ==
    ASSUME CommentInv, NEW anchor, InFile(document, anchor)
    PROVE  InFile(document, CanonicalAnchor(anchor))
  <1> DEFINE Same(c) == Visible(c) /\ SameRenderedAnchor(c.anchor, anchor)
             c0 == CHOOSE c \in ToSet(comments) : Same(c)
  <1>1. CASE \E c \in ToSet(comments) : Same(c)
    <2>1. c0 \in ToSet(comments) /\ Same(c0)
      BY <1>1
    <2>2. CanonicalAnchor(anchor) = c0.anchor
      BY <1>1 DEF CanonicalAnchor
    <2> HIDE DEF c0
    <2>3. IsAnchor(c0.anchor)
      BY <2>1, SequenceFacts DEF CommentInv, Good
    <2>4. c0.anchor.path = anchor.path
      BY <2>1 DEF SameRenderedAnchor
    <2> QED
      BY <2>2, <2>3, <2>4 DEF InFile
  <1>2. CASE ~\E c \in ToSet(comments) : Same(c)
    BY <1>2 DEF CanonicalAnchor
  <1> QED
    BY <1>1, <1>2

(* Good comments may be added. *)
LEMMA AddingFollows ==
    ASSUME CommentInv, NEW t, Sequence(t), \A k \in DOMAIN t : Good(t[k], document),
           comments' = comments \o t
    PROVE  Sequence(comments') /\ \A k \in DOMAIN comments' : Good(comments'[k], document)
  BY JoinedSequences DEF CommentInv

(* The reader and the agents keep the invariant. *)
LEMMA CommentingFollowsComments ==
    ASSUME ReadInv, CommentInv, Commenting
    PROVE  CommentInv'
  <1> DEFINE AllGood == Sequence(comments') /\ \A k \in DOMAIN comments' : Good(comments'[k], document)
  <1>1. document \in Document /\ document' = document
    BY CommentingJudgesNothing DEF ReadInv
  <1>2. Sequence(comments) /\ \A k \in DOMAIN comments : Good(comments[k], document)
    BY DEF CommentInv
  <1>3. ASSUME AllGood, draft' # NONE => InFile(document, draft') PROVE CommentInv'
    BY <1>1, <1>3 DEF CommentInv
  <1>4. draft # NONE => InFile(document, draft)
    BY DEF CommentInv
  <1>5. ASSUME NEW anchor, OpenDraft(anchor) PROVE CommentInv'
    <2>1. comments' = comments /\ draft' = anchor /\ InFile(document, anchor)
      BY <1>1, <1>5, RowsAreInFiles DEF OpenDraft
    <2> QED
      BY <1>2, <1>3, <2>1
  <1>6. ASSUME NEW ids, RemoveIds(ids) PROVE AllGood
    <2> DEFINE kept == {k \in DOMAIN comments : Id(comments[k]) \notin ids}
    <2>1. kept \subseteq DOMAIN comments /\ Leave(kept)
      BY <1>6 DEF RemoveIds
    <2> HIDE DEF kept
    <2> QED
      BY <2>1, LeavingFollows
  <1>7. ASSUME NEW anchor, RemoveMark(anchor) PROVE CommentInv'
    <2>1. AllGood /\ draft' = draft
      BY <1>6, <1>7 DEF RemoveMark
    <2> QED
      BY <1>3, <1>4, <2>1
  <1>8. CASE CancelDraft
    BY <1>2, <1>3, <1>8 DEF CancelDraft
  <1>9. CASE CommitEmptyDraft
    <2>1. AllGood /\ draft' = NONE
      BY <1>6, <1>9 DEF CommitEmptyDraft
    <2> QED
      BY <1>3, <2>1
  <1>10. ASSUME NEW origin, NEW number, NEW anchor, InFile(document, anchor)
         PROVE  Good(NewComment(origin, number, CanonicalAnchor(anchor), document), document)
    BY <1>1, <1>10, NewCommentsAreGood, CanonicalAnchorsAreInFiles
  <1>11. CASE CommitDraft
    <2> DEFINE anchor == CanonicalAnchor(draft)
               c == NewComment("human", next_id + 1, anchor, document)
    <2>1. draft' = NONE /\ InsertHuman(anchor) /\ Good(c, document)
      BY <1>4, <1>10, <1>11 DEF CommitDraft
    <2> HIDE DEF anchor
    <2>2. CASE HumanAt(anchor) # {}
      <3>1. comments' = [k \in DOMAIN comments |->
                           IF k \in HumanAt(anchor)
                           THEN [comments[k] EXCEPT !.document_generation = generation]
                           ELSE comments[k]]
        BY <2>1, <2>2 DEF InsertHuman
      <3>2. /\ DOMAIN comments' = DOMAIN comments
            /\ comments' = [k \in DOMAIN comments' |-> comments'[k]]
            /\ \A k \in DOMAIN comments :
                  \/ comments'[k] = comments[k]
                  \/ \E g : comments'[k] = [comments[k] EXCEPT !.document_generation = g]
        BY <3>1
      <3>3. AllGood
        BY <3>2, RewritingFollows
      <3> QED
        BY <1>3, <2>1, <3>3
    <2>3. CASE HumanAt(anchor) = {}
      <3>1. comments' = Append(comments, c)
        BY <2>1, <2>3 DEF InsertHuman
      <3> HIDE DEF c
      <3>2. Append(comments, c) = comments \o <<c>>
        BY <1>2 DEF Sequence
      <3>3. Sequence(<<c>>) /\ \A k \in DOMAIN <<c>> : Good(<<c>>[k], document)
        BY <2>1 DEF Sequence, ToSet
      <3>4. AllGood
        BY <3>1, <3>2, <3>3, AddingFollows
      <3> QED
        BY <1>3, <2>1, <3>4
    <2> QED
      BY <2>2, <2>3
  <1>12. CASE ClearAllMarks
    <2>1. comments' = << >> /\ draft' = draft
      BY <1>12 DEF ClearAllMarks
    <2>2. AllGood
      BY <2>1 DEF Sequence
    <2> QED
      BY <1>3, <1>4, <2>1, <2>2
  <1>13. ASSUME NEW ids, NEW d, comments' = Disposed(ids, d) PROVE AllGood
    <2>1. /\ DOMAIN comments' = DOMAIN comments
          /\ comments' = [k \in DOMAIN comments' |-> comments'[k]]
          /\ \A k \in DOMAIN comments :
                \/ comments'[k] = comments[k]
                \/ \E e : comments'[k] = [comments[k] EXCEPT !.disposition = e]
      BY <1>13 DEF Disposed
    <2> QED
      BY <2>1, RewritingFollows
  <1>14. ASSUME NEW anchor, NEW d, DisposeOfMark(anchor, d) PROVE CommentInv'
    <2>1. AllGood /\ draft' = draft
      BY <1>13, <1>14 DEF DisposeOfMark
    <2> QED
      BY <1>3, <1>4, <2>1
  <1>15. ASSUME NEW a \in Client, NEW n \in Nat, NEW anchors \in [1..n -> Place],
                ApplyComments(a, anchors)
         PROVE  CommentInv'
    <2> DEFINE t == [k \in DOMAIN anchors |->
                       NewComment("agent", next_id + k, CanonicalAnchor(anchors[k]), document)]
    <2>1. read[a].document = document
      BY <1>15 DEF ApplyComments, RequireGeneration, ReadInv
    <2>2. /\ comments' = comments \o t /\ draft' = draft
          /\ ToSet(anchors) \subseteq Valid(document)
      BY <1>15, <2>1 DEF ApplyComments
    <2>3. \A k \in DOMAIN anchors : InFile(document, anchors[k])
      BY <1>1, <2>2, RowsAreInFiles DEF ToSet
    <2>4. \A k \in DOMAIN t : Good(t[k], document)
      BY <1>10, <2>3
    <2>5. Sequence(t)
      BY FunctionIsASequence
    <2> HIDE DEF t
    <2>6. AllGood
      BY <2>2, <2>4, <2>5, AddingFollows
    <2> QED
      BY <1>3, <1>4, <2>2, <2>6
  <1>16. ASSUME NEW a, NEW n, RemoveComment(a, n) PROVE CommentInv'
    <2>1. AllGood /\ draft' = draft
      BY <1>6, <1>16 DEF RemoveComment
    <2> QED
      BY <1>3, <1>4, <2>1
  <1>17. ASSUME NEW a, NEW n, NEW d, SetDisposition(a, n, d) PROVE CommentInv'
    <2>1. AllGood /\ draft' = draft
      BY <1>13, <1>17 DEF SetDisposition
    <2> QED
      BY <1>3, <1>4, <2>1
  <1>18. ASSUME NEW a, NEW path, ClearAgents(a, path) PROVE CommentInv'
    <2> DEFINE kept == {k \in DOMAIN comments : \/ comments[k].origin = "human"
                                               \/ path \notin {NONE, comments[k].anchor.path}}
    <2>1. kept \subseteq DOMAIN comments /\ Leave(kept) /\ draft' = draft
      BY <1>18 DEF ClearAgents
    <2> HIDE DEF kept
    <2>2. AllGood
      BY <2>1, LeavingFollows
    <2> QED
      BY <1>3, <1>4, <2>1, <2>2
  <1>19. ASSUME NEW a \in Client,
                NEW anchors \in {<<x>> : x \in Place} \cup {<<x, y>> : x, y \in Place},
                ApplyComments(a, anchors)
         PROVE  CommentInv'
    <2> DEFINE n == Len(anchors)
    <2>1. n \in Nat /\ anchors \in [1..n -> Place]
      <3>1. CASE \E x \in Place : anchors = <<x>>
        <4>1. PICK x \in Place : anchors = <<x>>
          BY <3>1
        <4>2. n = 1
          BY <4>1
        <4> HIDE DEF n
        <4>3. anchors \in [1..1 -> Place]
          BY <4>1
        <4> QED
          BY <4>2, <4>3
      <3>2. CASE \E x, y \in Place : anchors = <<x, y>>
        <4>1. PICK x \in Place, y \in Place : anchors = <<x, y>>
          BY <3>2
        <4>2. n = 2
          BY <4>1
        <4> HIDE DEF n
        <4>3. anchors \in [1..2 -> Place]
          BY <4>1
        <4> QED
          BY <4>2, <4>3
      <3> QED
        BY <3>1, <3>2
    <2> HIDE DEF n
    <2> QED
      BY <1>15, <1>19, <2>1
  <1> QED
    BY <1>5, <1>7, <1>8, <1>9, <1>11, <1>12, <1>14, <1>16, <1>17, <1>18, <1>19 DEF Commenting

(* A comment that is shown stands at what it was written about, in a file   *)
(* that is the one it was written in, whatever the diff went through in     *)
(* between.                                                                 *)
THEOREM CommentsStandWhereWritten == Spec => []StandsWhereWritten
  <1>1. Init => CommentInv
    BY DEF Init, CommentInv, Sequence
  <1>2. ReadInv /\ CommentInv /\ [Next]_vars => CommentInv'
    <2> SUFFICES ASSUME ReadInv, CommentInv, [Next]_vars PROVE CommentInv'
      OBVIOUS
    <2>1. ASSUME NEW doc \in Document, Replace(doc) PROVE CommentInv'
      BY <2>1, ReplacingFollowsComments DEF ReadInv
    <2>2. ASSUME NEW doc \in Document, ResetReview(doc) PROVE CommentInv'
      BY <2>2 DEF ResetReview, CommentInv, Sequence
    <2>3. ASSUME NEW a \in Client, Read(a) PROVE CommentInv'
      BY <2>3 DEF Read, CommentInv
    <2>4. CASE Commenting
      BY <2>4, CommentingFollowsComments
    <2>5. CASE Judging
      BY <2>5, JudgingReplacesNothing DEF CommentInv
    <2>6. CASE UNCHANGED vars
      BY <2>6 DEF vars, CommentInv
    <2> QED
      BY <2>1, <2>2, <2>3, <2>4, <2>5, <2>6 DEF Next
  <1>3. CommentInv => StandsWhereWritten
    <2> SUFFICES ASSUME CommentInv, NEW c \in ToSet(comments), Visible(c), ~c.surmised
                 PROVE  LET file == FindFile(document, c.anchor.path)
                            now == AnchorEvidence(document, c.anchor)
                        IN  /\ file # NONE
                            /\ now.text = c.was.text
                            /\ now.hunk = c.was.hunk
                            /\ c.anchor.scope = "file" =>
                                  Names(file) \cap c.names # {} \/ file.hunks \in c.contents
      BY DEF StandsWhereWritten
    <2>1. Good(c, document)
      BY SequenceFacts DEF CommentInv
    <2>2. Stands(c, document)
      BY <2>1 DEF Good, Follows, Visible
    <2> QED
      BY <2>2, EvidenceOfAFile DEF Stands, Agrees
  <1> QED
    BY <1>1, <1>2, <1>3, ReadInvHolds, PTL DEF Spec
=============================================================================
