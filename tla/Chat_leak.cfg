SPECIFICATION Spec
CONSTANTS
  ann = ann
  bob = bob
  a1 = a1
  a2 = a2
  b1 = b1
  b2 = b2
  m1 = m1
  m2 = m2
  loop1 = loop1
  loop2 = loop2
  loop3 = loop3
  loop4 = loop4
  Users = {ann, bob}
  Channels = {a1, a2, b1}
  Loops = {loop1}
  Msgs = {m1}
  UserOf <- Owner
  LoopOf <- OneLoop
  Sender <- BobWrites
  Recipient <- AnnWrites
  TokenFrames = {a1, a2, b1}
  OfflineFrames = {a1, a2, b1}
  MaxCount = 3
  MaxCrashes = 0
  MaxFaults = 0
INVARIANTS NothingLost
CHECK_DEADLOCK FALSE
