CONSTANTS
  s1 = s1
  s2 = s2
  h1 = h1
  h2 = h2
  hbad = hbad
  Clients = {c1}
  Servers = {s1, s2}
  Hashes = {h1, h2, hbad}
  BadHashes = {hbad}
  QueueLimit = 0
  EtcdLimit = 1
  Slots = {1, 2}
  Scenarios <- MCScenarios
SPECIFICATION FairSpec
INVARIANTS AtMostOnce AckedIsQueued
PROPERTIES CleanStop Delivered
CHECK_DEADLOCK FALSE
