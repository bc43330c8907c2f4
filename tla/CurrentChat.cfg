CONSTANTS
  c1 = c1
  c2 = c2
  e1 = e1
  e2 = e2
  OldChat = OldChat
  NoChat = NoChat
  Creates = {c1, c2}
  Ensures = {e1, e2}
  MaxAttempts = 3
  MaxLost = 1
SPECIFICATION FairSpec
INVARIANT AtMostOneCurrent
INVARIANT RefusalsArePaidFor
PROPERTY CurrentNeverVanishes
PROPERTY RequestsEnd
