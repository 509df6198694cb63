CONSTANTS
  k1 = k1  k2 = k2  i1 = i1  i2 = i2  i3 = i3  i4 = i4  i5 = i5  t1 = t1
  Keys <- MCKeys
  Items <- MCItems
  KeyOf <- MCKeyOf
  Takers <- MCTakers
  Maxes = {0, 1, 2}
  RawPerKey = 2
  RawGlobal = 3
SPECIFICATION FairBufferSpec
INVARIANTS BufferTypeOK CountedAndBounded NoStrandedWaiter
PROPERTIES ClosedOnlyDrains CloseReleasesCallers
