SPECIFICATION Spec
CONSTANTS
  Size = 2
  RxSize = 2
  IdxMod = 8
  MaxLen = 3
  Chains <- GoodChains
  Refused <- BadChains
  MaxStarts = 2
  MaxWorkers = 2
INVARIANT NeverPastAvail
