CONSTANTS
  Urls <- DetourUrls
  Links <- DetourLinks
  Norm <- DetourNorm
  Internal <- DetourInternal
  Seed = "s"
  MaxDepth = 3
  NoPage = NoPage
  MaxLost = 2
SPECIFICATION Spec
INVARIANTS IdsByDepth ShortestDepth
PROPERTIES Terminates ImplementsCrawl
