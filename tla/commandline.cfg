SPECIFICATION FairSpec
CONSTANTS
  Commands <- AllCommands
  CallerErrors = {"canceled", "deadline"}
  LeafOrders = {"before"}
  Protocols = {"1.0", "1.1"}
  Streams <- SomeStreams
  MaxIdentification = 8
  MaxPreambleLines = 2
  MaxPreambleBytes = 6
  Inventories <- SomeInventories
  Responses <- SomeResponses
  Hostnames <- SoundNames
  Inputs <- SoundInputs
  Hostname = "h"
  Unhostable = {}
  MaxRecords = 2
INVARIANTS EachCommandPrintsOneDocument OwnEndNotBlamed IdentificationByTheBook
PROPERTIES ImplementsContract InterruptEndsCommand CancelledInventoryCancels
