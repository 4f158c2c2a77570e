\* Two fair threads, two calls, two contents, callers that mutate what they
\* hold, a writer with two edits.  No symmetry: AppendReturns names each thread.
CONSTANTS
  Threads = {t1, t2}
  Contents = {a, b}
  Stamps = {s}
  Signatures = {unsigned}
  UNSIGNED = unsigned
  NonFinite = nonFinite
  NoThread = noThread
  NoReceipt = noReceipt
  MaxCalls = 2
  MaxTampers = 2
SPECIFICATION FairSpec
INVARIANTS TypeOK ChainVerified IssuedInPlace RetainedBindsHistory
PROPERTIES IsLog BrokenStaysBroken AppendReturns
