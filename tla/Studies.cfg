\* Families of inputs of the four computations; the loop of plans runs until
\* it ends.
CONSTANTS
  Unit <- MCUnit
  Huge <- MCHuge
  Ln <- MCLn
  Weight = 6
  Tenths = 2
  Tasks <- MCTasks
SPECIFICATION Spec
INVARIANTS
  BinsInv AurocIsPairwise LocalInv EligibleIsEarned VerdictMonotone OrderIrrelevant
  ReplanMatchesPosterior GainIsInformation LawfulCollection CertainOnceObserved
PROPERTY LoopDescends
