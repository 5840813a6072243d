SPECIFICATION MCSpec
CONSTANTS
  NULL = NULL
  Impls = {"btree"}
  Keys = {1, 2, 3, 4}
  Values = {v1, v2}
  Address = {a1, a2, a3, a4}
  ArraySizes = {1, 2}
  MaxPairs = 4
  BKeys = {1, 2, 3, 4, 5, 6}
  BValues = {v1}
  BAddress = {b1, b2, b3, b4, b5, b6, b7}
  MinFactor = 3
  Full = 5
  ArraySize = 2
  Uninit = {0, 2}
  BMaxPairs = 7
  v1 = v1
  v2 = v2
  a1 = a1
  a2 = a2
  a3 = a3
  a4 = a4
  b1 = b1
  b2 = b2
  b3 = b3
  b4 = b4
  b5 = b5
  b6 = b6
  b7 = b7
INVARIANT AddedKeysFound
