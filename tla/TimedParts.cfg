SPECIFICATION TimedSpec
CONSTANTS
  l1 = l1
  l2 = l2
  l3 = l3
  Link = {l1, l2, l3}
  NoLink = NoLink
  t1 = t1
  t2 = t2
  t3 = t3
  Timer = {t1, t2, t3}
  NoTimer = NoTimer
  MaxAttempts = 2
  MaxGames = 2
  event1 = event1
  event2 = event2
  Event = {event1, event2}
  MaxDelays = 2
  Latency = TRUE
  MaxEvents = 4
  MaxStrays = 2
  MaxTries = 2
  Bucket = TRUE
  MaxSignals = 2
  MaxRestarts = 1
CHECK_DEADLOCK FALSE
INVARIANTS HandshakeSound TimersTypeOK CameraSound DataHonest CleanStop
PROPERTIES HandshakeEnds ViewKept ParentHears Batches StreamEnds
