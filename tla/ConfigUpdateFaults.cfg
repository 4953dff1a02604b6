SPECIFICATION Spec

CONSTANTS
  Texts <- AllTexts
  Values = {0, 1}
  LongTails <- LongLists
  HugeTails <- HugeLists
  Faults <- AllFaults
  BufSize = 3
  MaxMessages = 2

INVARIANT TypeOK
 
INVARIANT FileNeverTorn
PROPERTY MessageExact
