SPECIFICATION Spec
CONSTANTS
  LowerCase <- MCLowerCase
  Exts = {"html"}
  Letters <- MCLetters
  Quotes <- MCQuotes
  Junk = "junk"
  Pages <- MCPages
  Contents <- MCContents
  Messages <- MCMessages
  FetchUrl <- Site
  MaxPieces = 4
  MaxPath = 6
INVARIANTS FetchRight WordsRight LinksRight UrlsNormal
PROPERTIES ScanAdvances
CHECK_DEADLOCK FALSE
