SPECIFICATION FairSpec
CONSTANTS
  Commands <- AllCommands
  CallerErrors = {"canceled", "deadline"}
  LeafOrders = {"before", "same"}
  Protocols = {"1.0", "1.1", "other"}
  Streams <- AnyStreams
  MaxIdentification = 8
  MaxPreambleLines = 2
  MaxPreambleBytes = 6
  Inventories <- SomeInventories
  Responses <- SomeResponses
  Hostnames <- SoundNames
  Inputs <- SoundInputs
  Hostname = "h"
  Unhostable = {"mailbox"}
  MaxRecords = 2
INVARIANT EachCommandPrintsOneDocument
