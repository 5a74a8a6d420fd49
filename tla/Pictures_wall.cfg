\* Two searches, which may overlap, a picture that may be on any page, leases that run
\* out at any time, one failure.
\* Pages 0 and 1, and 2, which an overlap may reach and where the count is cut.
CONSTANTS
  Threads = {t1, t2}
  Titles = {x1}
  Crawls = {c1, c2}
  LastPage = 1
  DailyQuota = 2
  MaxCount = 2
  MaxSearches = 2
  MaxDocs = 4
  MaxFaults = 1
SPECIFICATION Spec
SYMMETRY Alike
INVARIANTS TypeOK PagesInRange WallIsLastCrawl OneDocPerTitle
CHECK_DEADLOCK FALSE
