\* A crawl and a single fetch of two small sites at the same time.
SPECIFICATION FairSpec
CONSTANTS
  a = a
  b = b
  c = c
  d = d
  far = far
  away = away
  malformed = malformed
  Requests = {r1, r2}
  Crawling = {r1}
  Pages = {a, b, c, d, far, away}
  Elsewhere = {away}
  Seed = a
  Sites <- SomeSites
  Malformed = malformed
  RobotsFiles <- SomeRobots
  Unreadable = unreadable
  MaxPages = 4
  MaxDepth = 2
  MaxExpiries = 2
  Nobody = nobody
INVARIANTS
  NothingIsAskedTwice
  CrawlIsComplete
PROPERTIES
  ConsentIsCurrent
  RequestsEnd
CHECK_DEADLOCK FALSE
