\* Two administrators, one of two menus to begin with, two list requests under
\* way on a page.  Administrators may stop.
CONSTANTS
  Admins = {a1, a2}
  Threads = {t1, t2}
  Names = {n1, n2}
  All = All
  None = None
  MaxRows = 2
  MaxAsks = 2
  MaxClicks = 4
  MaxFaults = 1
SPECIFICATION FairSpec
INVARIANTS TypeOK StatusAsAsked DoubledOnlyTogether ShowsLastAsked
PROPERTY AskedHappens
CHECK_DEADLOCK FALSE
