SPECIFICATION Spec
CONSTANTS
  N = 3
  Data = {a, b, c}
INVARIANTS
  TypeOK
  FlagsAgree
PROPERTY ImplementsFifo
