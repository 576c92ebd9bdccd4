SPECIFICATION Spec
CONSTANTS
  None = None
  Users = {u1, u2, u3, u4}
  Tokens = {t1, t2, t3, t4}
  Privileged = {u4}
  Early = {u4}
  Lags = {"low", "mid", "high"}
  Enabled = TRUE
  InitialCap = 1
  BatchSize = 1
  QueueTimeout = 2
  TicketValidity = 1
  MaxCap = 1
  MaxClients = 2
SYMMETRY NewcomerSymmetry
PROPERTIES
  ReturnsInFront
