SPECIFICATION Spec
CONSTANTS
  LowerCase <- MCLowerCase
  Exts = {"html"}
  Letters <- MCLetters
  Quotes <- MCQuotes
  Junk = "junk"
  Pages <- MCPages
  Contents <- MCContents
  Messages <- MCMessages
  FetchUrl <- Site
  MaxPieces = 3
  MaxPath = 6
INVARIANTS AllURLs
CHECK_DEADLOCK FALSE
