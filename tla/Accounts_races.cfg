\* One user, three requests at once, two failed calls or crashes.  Once two rows
\* have one username every request is refused: the system may stop.
CONSTANTS
  Users = {u1}
  Threads = {t1, t2, t3}
  Free = Free
  Stuck = Stuck
  MaxFaults = 2
SPECIFICATION Spec
SYMMETRY Alike
INVARIANTS TypeOK LockKeepsOut SessionHasTtl OnlineShown StatusAsPromised
CHECK_DEADLOCK FALSE
