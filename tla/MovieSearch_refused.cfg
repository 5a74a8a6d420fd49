\* One user, one request at a time, over midnight; nothing fails.
CONSTANTS
  Users = {u1}
  Threads = {t1}
  Titles = {heat}
  Movies = {m1}
  None = None
  DailyQuota = 2
  CallsFail = FALSE
  MaxOverlaps = 1
SPECIFICATION Spec
SYMMETRY Alike
PROPERTY RefusedHasSpent
