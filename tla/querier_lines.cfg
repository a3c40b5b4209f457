SPECIFICATION QuerierSpec
CONSTANTS
  apple = apple
  banana = banana
  And = And
  Or = Or
  Long = {apple, banana}
  Short = {ab}
  Bad = {c3}
  MAX_WORDS = 4
  Invalid = Invalid
  IntMax = 7
  NoIndex = NoIndex
  Images <- MCImages
  MAX_DOCS = 3
  LineMax = 4
  Directories <- MCDirectories
  Queries <- MCQueries
  Unknown = Unknown
  MaxTokens = 1
INVARIANTS LinesAreRead
