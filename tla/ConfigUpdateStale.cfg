SPECIFICATION Spec

CONSTANTS
  Texts <- SomeTexts
  Values = {0, 1}
  LongTails = {}
  HugeTails = {}
  Faults <- SaveFaults
  BufSize = 3
  MaxMessages = 2

PROPERTY OnlyTheMessage
