SPECIFICATION Spec
CONSTANTS
  c1 = c1
  c2 = c2
  ip1 = ip1
  t1 = t1
  None = None
  Clients = {c1, c2}
  KeyHolders = {}
  IPs = {ip1}
  Address <- OneAddress
  Tasks = {t1}
  Window = 1
  MaxAttempts = 2
  TTL = 1
  MaxSessions = 1
  MaxTime = 2
  MaxTokens = 2
  MaxRequests = 2
  MaxWaits = 2
SYMMETRY Interchangeable
INVARIANTS
  GuessesBounded
  AnswersMatch
  WebhookTellsOutcome
  CleanStopEndsTasks
CHECK_DEADLOCK FALSE
