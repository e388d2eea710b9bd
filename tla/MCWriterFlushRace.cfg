CONSTANTS
  bulk1 = bulk1
  bulk2 = bulk2
  huge = huge
  Items <- MCItems
  priority <- MCpriority
  control <- MCcontrol
  size <- MCsize
  MaxFrames = 1
  MaxBytes = 1
  Flushers = {f1, f2}
  Cancellable = {}
SPECIFICATION Spec
INVARIANT FlushCountExact
