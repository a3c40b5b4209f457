CONSTANTS
  Urls <- SiteUrls
  Links <- SiteLinks
  Norm <- SiteNorm
  Internal <- SiteInternal
  Seed = "s"
  MaxDepth = 2
  Threads = {t1, t2}
  NoThread = NoThread
  NoPage = NoPage
  MaxLost = 1

SPECIFICATION FairSpec
INVARIANTS TypeOK OneOwner SavedOnce Complete Reached ActiveCount NoPageAbandoned
PROPERTIES FilesKept Terminates ImplementsCrawl
