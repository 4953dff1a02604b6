SPECIFICATION Spec

CONSTANTS
  SIZE = 4
  MaxBytes = 9

INVARIANT TypeOK
PROPERTY InOrder
PROPERTY ImplementsQueue
