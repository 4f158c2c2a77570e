\* Three requests on any routes, two pool threads, one restart.
CONSTANTS
  Requests = {r1, r2, r3}
  PoolSize = 2
  MaxBody = 1
  MaxRestarts = 1
  Asked = {"score", "healthz", "verify", "receipts", "study"}
  Nobody = nobody
SPECIFICATION Spec
SYMMETRY Symmetry
INVARIANTS BreakInv AnswersTellReceipts MetersTrailChain ReportsCoverAnswered FailClosed
