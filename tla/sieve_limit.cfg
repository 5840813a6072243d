SPECIFICATION Spec
CONSTANTS
  WIDTH = 6
  MaxValues = {2, 3, 4, 5, 8, 9, 10, 13, 53}
INVARIANT PrimesUpToMax
