SPECIFICATION FairSpec
CONSTANTS
  Byte <- MCByte
  Texts <- MCTexts
  Keywords <- MCKeywords
  Garbage <- MCGarbage
  I32_MAX = 7
  UI32_MAX = 15
  UI64_MAX = 255
  NB_TOKENS = 4
  CommentLength = 6
  StringLength = 5
  WordLength = 4
  NumeralLength = 4
  IntegerLength = 4
INVARIANTS
  TypeOK
  TokensPartitionText
  PositionsExact
  StringsDecoded
  NumeralsExact
PROPERTY LexingEnds
