SPECIFICATION AccumSpec
CONSTANTS
  p1 = p1
  p2 = p2
  p3 = p3
  Threads = {p1, p2}
  NumValues = 1
  Values = {1, 2}
  Width = 8
PROPERTY ReturnsOwnTotal
