SPECIFICATION ParserSpec
CONSTANTS
  MAX_DEPTH = 2
  MaxIndent = 1
  RD_PB = 8
  MaxTokens = 9
  MaxText = 11
INVARIANTS DecidesInput PrintsTheMembers PrintsTheString NestingBounded
