SPECIFICATION Spec
CONSTANTS
  t1 = t1
  t2 = t2
  r1 = r1
  n1 = n1
  None = None
  Threads = {t1}
  Requests = {r1}
  Notifies = {}
  Timed = {r1}
  EnablePolling = TRUE
  EnableReconn = TRUE
  ReconnMaxRetry = 1
  ReconnDelay = 2
  ReconnDelayMax = 30
  ReconnExpBackoff = TRUE
  BadOpts = FALSE
  ConnTimeout = TRUE
  WriteInline = 9
  MaxPending = 2
INVARIANTS HandshakeFirst NothingLeft DisconnectServed
