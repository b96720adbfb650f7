\* Comments of the reader and an agent, marks and verdicts, over any two replacements.
SPECIFICATION MCSpec
CONSTANTS
  NONE = NONE
  p = p  q = q  r = r  long = long  a = a  b = b  c = c
  Path = {p, q, r, long}
  LongPath = {long}
  Document <- MCDocument
  First <- MCFirst
  Place <- MCPlace
  Client = {agent}
  EvidenceBudget = 1
  MaxComments = 2
  MaxGeneration = 2
  MaxNumber = 2
INVARIANTS
  StandsWhereWritten JudgedIsCurrent
CHECK_DEADLOCK FALSE
