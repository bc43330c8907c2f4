CONSTANTS
  a1 = a1
  a2 = a2
  u1 = u1
  u2 = u2
  n1 = n1
  n2 = n2
  s1 = s1
  s2 = s2
  Sessions = {s1, s2}
  Nobody = Nobody
  SummaryTurns = 2
  Appends = {a1, a2}
  Edits = {u1, u2}
  Ends = {n1}
  FirstMessages = 2
SPECIFICATION HistorySpec
INVARIANT SequencesDense
INVARIANT SummaryIsFresh
PROPERTY AppendsKeepHistory
