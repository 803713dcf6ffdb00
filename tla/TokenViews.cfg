SPECIFICATION FairSpec
CONSTANTS
  h = h
  dai = dai
  mkr = mkr
  dgd = dgd
  bad = bad
  alice = alice
  bob = bob
  Clients = {"c1", "c2"}
  Hashes = {h}
  Number <- BlockNumber
  Queries <- AskedFor
  Returns <- TokenReturns
  StaticTokens = {dgd}
  NoQuery = NoQuery
  serverModes = {"eth_call", "storage"}
  ChainEvents <- SomeEvents
  MaxFaults = 1
  MaxAsked = 2
  MaxRestarts = 1
INVARIANTS
  TypeOK
  AnswersAgree
  BalancesAreTheChains
  MadeUpOnlyAfterFailure
  EventViewsStored
PROPERTIES
  JobGetsDone
CHECK_DEADLOCK FALSE
