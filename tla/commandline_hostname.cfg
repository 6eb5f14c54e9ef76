SPECIFICATION FairSpec
CONSTANTS
  Commands <- AllCommands
  CallerErrors = {"canceled", "deadline"}
  LeafOrders = {"before"}
  Protocols = {"1.0", "1.1"}
  Streams <- SomeStreams
  MaxIdentification = 8
  MaxPreambleLines = 2
  MaxPreambleBytes = 6
  Inventories <- SomeInventories
  Responses <- SomeResponses
  Hostnames <- AnyName
  Inputs <- AnyInputs
  Hostname = "h"
  Unhostable = {}
  MaxRecords = 2
INVARIANT EachCommandPrintsOneDocument
