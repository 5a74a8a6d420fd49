SPECIFICATION FairSpec
CONSTANTS
  Docs = {d1}
  Unknown = {u1}
  Readers = {r1}
  Savers = {s1}
  Free = Free
  Gone = Gone
  Listener = Listener
  MaxAttempts = 2
  MaxVersion = 2
  MaxBacklog = 1
  MaxFaults = 1
INVARIANTS BlankOnlyWhenAbsent UnknownIsParked
PROPERTIES NotificationsEnd EventuallyFresh LockComesFree
