CONSTANTS
  bulk1 = bulk1
  bulk2 = bulk2
  huge = huge
  Items <- MCItems
  priority <- MCpriority
  control <- MCcontrol
  size <- MCsize
  MaxFrames = 1
  MaxBytes = 1
  Flushers = {f1}
  Cancellable = {f1}
SPECIFICATION FairSpec
INVARIANTS TypeOK ReleasedOnce OnlyControlWhileClosing WriterAwake
PROPERTIES AcceptedResolved EnqueueReturns FlushReturns
