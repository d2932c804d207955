SPECIFICATION Spec
CONSTANTS
  Numeral = Numeral
  Word = Word
  GUIDText = GUIDText
  Base64Text = Base64Text
  DateText = DateText
  Text = Text
  Bits <- Widths
  Mantissa <- Precisions
  MaxFloat <- Maxima
  Inf = 2048
  NaN = 4095
  MaxExponent = 12
  MaxTime = 100
  Requests <- AllRequests
  Samples <- AllSamples
  Nodes <- AllNodes
  MaxWrites = 1
  MaxSets = 1
INVARIANTS
  TypeOK
  ValidatedConverts
  SentAsDeclared
  AcknowledgedArrives
  StoredReadsAsLive
