\* One user, two requests at once (one may be a fish-das request nobody waits for),
\* two titles that find one movie, a quota of two searches, one overlap a day.
CONSTANTS
  Users = {u1}
  Threads = {t1, t2}
  Titles = {heat, ronin}
  Movies = {m1}
  None = None
  DailyQuota = 2
  CallsFail = TRUE
  MaxOverlaps = 1
SPECIFICATION Spec
SYMMETRY Alike
INVARIANTS TypeOK SpentWithinQuota OneDocPerMovie
PROPERTIES OnlySearchesWipe
