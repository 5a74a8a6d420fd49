SPECIFICATION Spec
CONSTANTS
  ann = ann
  bob = bob
  a1 = a1
  a2 = a2
  b1 = b1
  b2 = b2
  m1 = m1
  m2 = m2
  loop1 = loop1
  loop2 = loop2
  loop3 = loop3
  loop4 = loop4
  Users = {ann, bob}
  Channels = {a1, a2, b1}
  Loops = {loop1, loop2, loop3}
  Msgs = {m1, m2}
  UserOf <- Owner
  LoopOf <- Apart
  Sender <- AnnWrites
  Recipient <- BobWrites
  TokenFrames = {a1, b1}
  OfflineFrames = {}
  MaxCount = 1
  MaxCrashes = 1
  MaxFaults = 1
SYMMETRY AlikeMsgs
INVARIANTS MailboxInSendOrder StoredIsKept DeliveredOnce MailboxOnlyWhenAway
CHECK_DEADLOCK FALSE
