SPECIFICATION Spec
CONSTANTS
  e1 = e1
  e2 = e2
  m1 = m1
  m2 = m2
  s1 = s1
  s2 = s2
  s3 = s3
  Entities = {e1}
  Messages = {m1}
  Recipient <- MCRecipient
  Senders = {s1}
  Sends <- MCSends
  Sweeper = sweeper
  Persisted = TRUE
  PoisonPill = PoisonPill
  NoCall = NoCall
  NoMessage = NoMessage
  NoEntity = NoEntity
  MaxTerminations = 1
  MaxMoves = 1
  MaxCrashes = 1
  MaxFailedWrites = 1
INVARIANTS TypeOK OneInstance HandledOnce NoneLeftBehind ProcessedIsMarked
PROPERTIES SendEnds AtLeastOnce RefinesEntityLife
CHECK_DEADLOCK FALSE
