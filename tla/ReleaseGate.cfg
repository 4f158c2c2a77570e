\* Three runs, one job that breaks, one that is started again.
CONSTANTS
  r1 = r1
  r2 = r2
  r3 = r3
  p = p
  q = q
  NoName = NoName
  Nothing = Nothing
  Runs = {r1, r2, r3}
  Packages = {p, q}
  Scenes <- MCScenes
  MaxBreaks = 1
  MaxReruns = 1
SPECIFICATION Spec
INVARIANTS PublishedInv AllOrNothing
PROPERTY EveryRunEnds
