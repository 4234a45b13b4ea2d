SPECIFICATION PSpec
CONSTANTS
  Size = 1
  RxSize = 1
  IdxMod = 2
  MaxLen = 3
  Chains <- GoodChains
  Refused <- BadChains
  MaxStarts = 2
  MaxWorkers = 2
INVARIANT HeaderOnce
