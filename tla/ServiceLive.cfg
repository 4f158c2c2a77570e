\* Three requests, one pool thread, fair server steps; the probes wait for
\* what receipts() waits for, and are left out.
CONSTANTS
  Requests = {r1, r2, r3}
  PoolSize = 1
  MaxBody = 1
  MaxRestarts = 0
  Asked = {"score", "receipts", "study"}
  Nobody = nobody
SPECIFICATION FairSpec
PROPERTY Answered
