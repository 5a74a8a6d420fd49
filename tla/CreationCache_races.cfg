SPECIFICATION Spec
CONSTANTS
  Docs = {d1}
  Unknown = {}
  Readers = {r1, r2}
  Savers = {s1, s2}
  Free = Free
  Gone = Gone
  Listener = Listener
  MaxAttempts = 3
  MaxVersion = 3
  MaxBacklog = 2
  MaxFaults = 1
SYMMETRY Threads
INVARIANTS TypeOK OneQueryPerArticle ListenerKeepsUp MismatchMeansInterference
PROPERTIES CopiesComeFromMongo
