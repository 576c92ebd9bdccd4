SPECIFICATION FairSpec
CONSTANTS
  None = None
  Users = {u1, u2, u3}
  Tokens = {t1, t2}
  Privileged = {u3}
  Early = {u3}
  Lags = {"low", "mid", "high"}
  Enabled = TRUE
  InitialCap = 1
  BatchSize = 1
  QueueTimeout = 2
  TicketValidity = 1
  MaxCap = 2
  MaxClients = 1
INVARIANTS
  BooksAgree
PROPERTIES
  ClaimsKept
  FirstInFirstOut
  BatchFitsCap
  EveryWaitEnds
