\* Two processes: conversations opening reviews, or retries after lost answers and failed writes.
SPECIFICATION MCSpec
CONSTANTS
  NONE = NONE  KEEP = KEEP
  f1 = f1  s1 = s1  s2 = s2  p1 = p1  p2 = p2  m1 = m1  r1 = r1
  src = src  conv1 = conv1  conv2 = conv2  repo = repo  b1 = b1  v1 = v1  c1 = c1
  File = {f1}
  Hunk = {}
  Section = {s1, s2}
  Patch = {p1, p2}
  Sections <- MCSections
  Source = {src}
  Conversation = {conv1, conv2}
  Repository = {repo}
  Body = {b1}
  Verdict = {v1}
  Consumer = {c1}
  MutationId = {m1, m2}
  ReviewId = {r1, r2}
  Proc = {a, b}
  Calls <- MCCalls
  MaxThreads = 2
  MaxMessages = 3
  MaxChanges = 2
  MaxReceipts = 2
  MaxSubmissions = 2
  MaxConsumers = 1
  MaxReviewedFiles = 1
  MaxReviewedHunks = 1
INVARIANTS
  LockedWhileServing DraftSucceedsCheckpoint OneReviewOneAnswer ReadersAgree PiecesAgree
PROPERTIES
  ImplementsLedger LockReleased
