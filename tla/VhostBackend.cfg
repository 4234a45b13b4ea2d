SPECIFICATION FairSpec
CONSTANTS
  Size = 2
  RxSize = 2
  IdxMod = 4
  MaxLen = 3
  Chains <- SomeChains
  Refused <- BadChains
  MaxStarts = 1
  MaxWorkers = 1
INVARIANTS
  UsedIsPosted
  NeverPastAvail
  NoReuseInFlight
PROPERTIES
  ChainReturned
