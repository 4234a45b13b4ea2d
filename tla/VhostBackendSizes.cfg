SPECIFICATION Spec
CONSTANTS
  Size = 2
  RxSize = 1
  IdxMod = 4
  MaxLen = 3
  Chains <- GoodChains
  Refused <- BadChains
  MaxStarts = 1
  MaxWorkers = 1
INVARIANT UsedIsPosted
