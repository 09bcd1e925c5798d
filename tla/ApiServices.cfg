CONSTANTS
  chat = chat
  other = other
  k1 = k1
  k2 = k2
  c1 = c1
  Configurable = {"web", "falkor"}
  Client <- OneClient
  Group = {chat, other}
  Rpm <- Rates
  Ticks = 3
  Horizon = 4
  Handler = {h1, h2}
  MaxSessions = 3
  Task = {d1, d2}
  Key = {k1, k2}
  Path <- ModelPath
  PathOf <- OnePath
  Size = 2
  Line = {l1, l2}
  MaxLines = 3
  Agent = {a1, a2}
  Schemas = {s1, s2}
  Caller = {r1, r2, r3}
  Call = {c1}
  ToolOf <- Ingests
  Thread = {t1}
  Restarts = 1
SPECIFICATION FairSpec
CHECK_DEADLOCK FALSE
INVARIANTS ServicesBacked WithinBudget ActiveExists PublishedIsWhole StreamIsRelayed StoredOnApproval
PROPERTIES KnownToolsStay ServicesSettle
