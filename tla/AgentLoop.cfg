SPECIFICATION Spec
CONSTANTS
  m1 = m1  m2 = m2  stop1 = stop1  s1 = s1  s2 = s2
  Messages = {m1, m2, stop1}
  Sessions = {s1, s2}
  SessionOf <- MCSessionOf
  StopMessages <- MCStop
  NoMessage = NoMessage
  InboundCap = 2
  OutboundCap = 1
  EventCap = 1
  MaxRetries = 1
  MaxInterrupts = 1
  Streaming = TRUE
INVARIANTS TypeOK TokenIsOfCurrentRun OneVerdict
PROPERTIES CancelHitsLiveRun  KeepsMailbox ShutdownEnds
