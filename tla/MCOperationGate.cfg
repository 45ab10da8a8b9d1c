SPECIFICATION Spec
CONSTANTS
  A = A
  B = B
  s1 = s1
  whoami = whoami
  None = None
  Devices = {A, B}
  Sessions = {s1}
  Commands = {whoami}
  Lines <- MCLines
  Permits <- MCPermits
  Times = {1, 5}
  Skew = 1
  MaxValidity = 2
  Calls = {c1, c2}
  MaxAuthorizers = 3
  MaxRestarts = 1
INVARIANTS
  SingleUse
  ReplayIsBounded
PROPERTY
  ImplementsWindow
SYMMETRY Interchangeable
