\* Prefix and header take ten bytes, the buffer up to three and two more that
\* appear during the read; the limit lies inside what the file can become.
CONSTANTS
  MaxBytes = 13
  Chunk = 5
  Prefix = 8
  MaxGrowth = 2
  Files <- MCFiles
SPECIFICATION Spec
INVARIANTS AdmissionInv AllowIsClean RightLayoutPasses
