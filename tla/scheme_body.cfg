SPECIFICATION Spec
CONSTANTS
  MaxId = 130
  Lines <- DropsEnvironment
  MaxLines = 2
  Files <- TheFiles
INVARIANT NoDangling
