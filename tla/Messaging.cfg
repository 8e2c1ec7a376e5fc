SPECIFICATION Spec
CONSTANTS
  p1 = p1
  p2 = p2
  p3 = p3
  s1 = s1
  s2 = s2
  b1 = b1
  b2 = b2
  m1 = m1
  m2 = m2
  Pods = {p1, p2}
  Here = p1
  NoPod = NoPod
  Shards = {1, 2}
  FirstRoute <- MCFirstRoute
  Senders = {s1}
  Broadcasts = {b1}
  Discards = {b1}
  Messages = {m1, m2}
  Carries <- MCCarries
  MaxTroubles = 2
INVARIANTS TypeOK HandledOncePerLife
PROPERTIES RepliesArrive BroadcastDelivered
CHECK_DEADLOCK FALSE
