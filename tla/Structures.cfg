SPECIFICATION MCSpec
INVARIANTS StorageRight CopiesRight ClocksRight GraphRight ListsRight ExpressionsRight MessagesRight
CONSTANTS
  MaxMem = 3
  MaxInst = 2
  MaxSamples = 4
  Keys = {1, 2, 3}
  Vals = {1}
  AppRemoves = {1, 2}
  EditSets = {3}
  EditRemoves = {1}
  MaxWire = 1
  Peers = {"a", "b"}
  Ahead <- FiveAhead
  Timeout = 1
  MaxDelay = 1
  MaxId = 2
  MaxTime = 3
  Radix = 8
  Here = "here"
  Devs = {"A", "B"}
  Sigs = {"s", "t", "a", "b"}
  DevOf <- DeviceOf
  Maps <- SomeMaps
  MaxCount = 2
  Others = {1, 2, 3}
  MaxNews = 2
  Sources = {1, 2, 3}
  SourceOf <- TwoDevices
  MaxReal = 2
  MaxSources = 2
  Objs = {1, 2}
  Conditions <- AllOrOne
  MaxHeaders = 6
  MaxHeld = 2
CHECK_DEADLOCK FALSE
