SPECIFICATION FairSpec
CONSTANTS
  t1 = t1
  t2 = t2
  c1 = c1
  c2 = c2
  h1 = h1
  None = None
  Threads = {t1, t2}
  Calls = {c1, c2}
  Kinds <- KINDS
  Handlers = {h1}
  Slots = 1
  IdBits = 2
  FirstIds = {2}
  Modes = {"uv", "uvPoll", "dummy", "dummyPoll"}
  PollSends = FALSE
  MaxPending = 1
INVARIANTS
  TypeOK AnsweredOnce SlotOwned IdsUsable 
  NoCircularWait NothingLeft
PROPERTY CallsReturn
