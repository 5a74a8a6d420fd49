\* Two readers and two savers that overlap in every way, an article that moves
\* from one class to another, two requests that share a key, two faults.
CONSTANTS
  essay = essay
  poem = poem
  Any = Any
  Classes = {essay, poem}
  Requests <- AsksTwo
  Listers = {t1, t2}
  Savers = {s1, s2}
  Free = Free
  Gone = Gone
  MaxSaves = 3
  MaxFaults = 2
SPECIFICATION FairSpec
INVARIANTS OldOnlyIfLate
PROPERTIES EventuallyFresh
