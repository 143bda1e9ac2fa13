SPECIFICATION FormatsSpec
CONSTANTS
  MaxLength = 3
  Contexts <- ManyContexts
  Lines <- ShortLines
  Asked <- SomeKeys
  Numbers <- BoundaryNumbers
  MaxLines = 2
  Exponents = {0, 1, 4, 5, 12, 13, 20, 21, 22, 28, 29, 44, 45, 47, 48, 52, 53, 60, 61, 63}
  ByteWidth = 8
  CharBytes = {1, 2, 4}
  MaxText = 2
  BlockSizes = {1, 3, 7, 8, 9, 16, 20, 32, 33}
  SeparatorLengths = {0, 1, 2}
  Files = {0, 1, 3, 4, 5, 6, 9}
  LineNumbers = {0, 1, 2, 3}
  Widths = {0, 2, 4, 5}
  Paddings = {0, 1, 3, 5}
  Throws = Throws
  None = None
INVARIANTS
  FormatsTypeOK
  IniRoundTrip
  DefinedAfterGet
  SizeRoundTrip
  SeparatedInBlocks
  DecodesEncoded
  ColumnsAlign
CHECK_DEADLOCK FALSE
