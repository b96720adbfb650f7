\* Every mutation in any order on one review: refreshes between three patches, conversation,
\* marks and verdicts, submission, acknowledgement and return; or a reader of change pages behind a log
\* of two entries, and two consumers of feedback.
SPECIFICATION MCSpec
CONSTANTS
  NONE = NONE  KEEP = KEEP
  f1 = f1  f2 = f2  s1 = s1  s2 = s2  p1 = p1  p2 = p2  p3 = p3
  src = src  conv = conv  repo = repo  b1 = b1  b2 = b2  v1 = v1  c1 = c1  c2 = c2
  File = {f1, f2}
  Hunk = {1}
  Section = {s1, s2}
  Patch = {p1, p2, p3}
  Sections <- MCSections
  Source = {src}
  Conversation = {conv}
  Repository = {repo}
  Body = {b1}
  Verdict = {v1}
  Consumer = {c1, c2}
  MutationId = {1, 2, 3, 4, 5}
  ReviewId = {r1}
  MethodsAsked = {"review.refresh", "review.progress", "review.reanchor", "review.disposition", "comment.add", "comment.reply", "comment.edit", "comment.remove", "feedback.submit", "feedback.ack", "review.finish", "review.begin"}
  MaxGeneration = 4
  MaxId = 4
  MaxMutations = 4
  PageLimit = {1, 2}
  ExpectedRevisions = {NONE}
  Calls <- MCCalls
  MaxThreads = 2
  MaxMessages = 2
  MaxChanges = 2
  MaxReceipts = 5
  MaxSubmissions = 2
  MaxConsumers = 1
  MaxReviewedFiles = 2
  MaxReviewedHunks = 1
INVARIANTS
  TypeOK AlwaysPersistable RevisionsAccounted
  EvidenceStands VerdictAndReturnAreCurrent SubmissionsAreNews
  ReaderMissesNothing
PROPERTIES
  SubmissionsImmutable EvidenceMovesOnlyWhenAsked ReaderCatchesUp
CHECK_DEADLOCK FALSE
