SPECIFICATION Spec
CONSTANTS
  cat = cat
  Cat = Cat
  cats = cats
  Space = Space
  Nul = Nul
  UrlStump = "o"
  NoPage = NoPage
  IntMax = 9
  NoIndex = NoIndex
  Letters = {cat, Cat, cats}
  Sites <- MCSites
  Norm <- MCNorm
  Stumps <- MCStumps
  Powers = {10}
  And = And
  Or = Or
  Long = {cat, cats}
  Short = {}
  Bad = {}
  MAX_WORDS = 4
  Invalid = Invalid
  Queries <- MCQueries
  Images = {}
  Directories = {}
  MAX_DOCS = 3
  LineMax = 5
  Unknown = Unknown
  MaxRuns = 3
  MaxPages = 2
  MaxFaults = 1
INVARIANTS LoadsWhatWasSaved IndexExact StaleBeyond AnswersOfPages
PROPERTIES UrlOfRanked
CHECK_DEADLOCK FALSE
