SPECIFICATION FairSpec
CONSTANTS
  ann = ann
  bob = bob
  a1 = a1
  a2 = a2
  b1 = b1
  b2 = b2
  m1 = m1
  m2 = m2
  loop1 = loop1
  loop2 = loop2
  loop3 = loop3
  loop4 = loop4
  Users = {ann}
  Channels = {a1, a2}
  Loops = {loop1, loop2}
  Msgs = {}
  UserOf <- Owner
  LoopOf <- Apart
  Sender <- AnnWrites
  Recipient <- BobWrites
  TokenFrames = {a1, a2}
  OfflineFrames = {a1, a2}
  MaxCount = 3
  MaxCrashes = 1
  MaxFaults = 1
INVARIANTS TypeOK CountIsRegistered CountCoversOpen
PROPERTIES OfflineInTheEnd
CHECK_DEADLOCK FALSE
