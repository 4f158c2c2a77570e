----------------------------- MODULE JevCliProofs -----------------------------
(***************************************************************************)
(* Theorems about JevCli, for any number of runs that share a receipt path *)
(* and any number of kills and power losses.                               *)
(***************************************************************************)
EXTENDS JevCli, TLAPS

(***************************************************************************)
(* The inductive invariant.                                                *)
(***************************************************************************)

(* What is linked, or about to be, is whole and on the disk: a power loss  *)
(* empties only what is not.                                               *)
LinkedIsDurable ==
  /\ \A p \in Runs : pc[p] \in {"sync", "link"} => tmp[p] = "complete"
  /\ \A p \in Runs : pc[p] = "link" => synced[p]
  /\ path # Nothing => tmp[path] = "complete" /\ synced[path]

(* A run has the path only from its link() on, and whoever reports success *)
(* after that still has it: a power loss that takes the name ends them all.*)
PathIsOwn ==
  /\ \A p \in Runs : pc[p] \in {"request", "observe", "mkdir", "write", "sync", "link"}
                       => path # p
  /\ \A p \in Runs : pc[p] = "unlink_ok" => path = p
  /\ \A p \in Runs : pc[p] \in {"print", "returned"} /\ wants[p] => path = p

(* Before it was printed, an observation can only have missed the path.    *)
Saved(p) == IF wants[p] THEN path = p \/ "receipt" \in failed[p] ELSE "stdout" \in failed[p]

(* Where a run is tells what its outputs hold, or which of them failed.    *)
OutputsTell ==
  \A p \in Runs :
    /\ pc[p] \in {"request", "observe"} => receipt[p] = "none"
    /\ pc[p] \in {"mkdir", "write", "sync", "link", "unlink_ok", "unlink_failed"} => wants[p]
    /\ pc[p] = "returned" => stdout[p] = "buffered"
    /\ pc[p] \in {"error", "reported", "raised"} /\ receipt[p] # "none" => Saved(p)
    /\ pc[p] = "reported" /\ receipt[p] # "none" => stderr[p] = "error+observation"
    /\ pc[p] = "raised" => "stderr" \in failed[p]

IInv == TypeOK /\ LinkedIsDurable /\ PathIsOwn /\ OutputsTell

-------------------------------------------------------------------------------
(***************************************************************************)
(* The types                                                               *)
(***************************************************************************)

LEMMA InitTypeOK == ASSUME CliAssumption, Init PROVE TypeOK
BY DEF Init, TypeOK, CliAssumption, Stages

LEMMA NextTypeOK ==
  ASSUME TypeOK, [Next]_vars, CliAssumption
  PROVE  TypeOK'
<1> USE DEF TypeOK, Stages, Go, Fail, args, files, outputs
<1>1. ASSUME NEW p \in Runs, ReadRequest(p) PROVE TypeOK'
  BY <1>1 DEF ReadRequest
<1>2. ASSUME NEW p \in Runs, Observe(p) PROVE TypeOK'
  BY <1>2 DEF Observe
<1>3. ASSUME NEW p \in Runs, CreateTemporary(p) PROVE TypeOK'
  BY <1>3 DEF CreateTemporary
<1>4. ASSUME NEW p \in Runs, Write(p) PROVE TypeOK'
  BY <1>4 DEF Write
<1>5. ASSUME NEW p \in Runs, Sync(p) PROVE TypeOK'
  <2>1. pc' \in [Runs -> Stages]
    BY <1>5 DEF Sync
  <2>2. CASE UNCHANGED synced
    BY <1>5, <2>1, <2>2 DEF Sync
  <2>3. CASE synced' = [synced EXCEPT ![p] = TRUE]
    <3>1. synced' \in [Runs -> BOOLEAN]
      BY <2>3, Zenon
    <3> QED BY <1>5, <2>1, <3>1 DEF Sync
  <2> QED BY <1>5, <2>2, <2>3 DEF Sync
<1>6. ASSUME NEW p \in Runs, Link(p) PROVE TypeOK'
  BY <1>6 DEF Link
<1>7. ASSUME NEW p \in Runs, Unlink(p) PROVE TypeOK'
  BY <1>7 DEF Unlink
<1>8. ASSUME NEW p \in Runs, PrintReceipt(p) PROVE TypeOK'
  BY <1>8 DEF PrintReceipt
<1>9. ASSUME NEW p \in Runs, ReportError(p) PROVE TypeOK'
  BY <1>9 DEF ReportError, ReportRaises
<1>10. ASSUME NEW p \in Runs, Exit(p) PROVE TypeOK'
  BY <1>10 DEF Exit
<1>11. ASSUME NEW p \in Runs, Kill(p) PROVE TypeOK'
  BY <1>11, CliAssumption DEF Kill, CliAssumption
<1>12. ASSUME PowerLoss PROVE TypeOK'
  BY <1>12, CliAssumption DEF PowerLoss, CliAssumption
<1>13. CASE UNCHANGED vars
  BY <1>13 DEF vars
<1> QED
  BY <1>1, <1>2, <1>3, <1>4, <1>5, <1>6, <1>7, <1>8, <1>9, <1>10, <1>11, <1>12, <1>13
  DEF Next, Step, Ended

-------------------------------------------------------------------------------
(***************************************************************************)
(* The steps                                                               *)
(***************************************************************************)

LEMMA InitIInv == ASSUME CliAssumption, Init PROVE IInv
<1>1. TypeOK
  BY InitTypeOK
<1>2. LinkedIsDurable /\ PathIsOwn /\ OutputsTell
  BY DEF Init, CliAssumption, LinkedIsDurable, PathIsOwn, OutputsTell
<1> QED BY <1>1, <1>2 DEF IInv

LEMMA NextLinkedIsDurable ==
  ASSUME IInv, [Next]_vars, CliAssumption
  PROVE  LinkedIsDurable'
<1> USE DEF IInv, TypeOK, LinkedIsDurable, Go, args, files, outputs
<1>1. ASSUME NEW p \in Runs, ReadRequest(p) \/ Observe(p) \/ PrintReceipt(p) \/ ReportError(p)
                             \/ Exit(p) \/ Kill(p)
      PROVE LinkedIsDurable'
  BY <1>1 DEF ReadRequest, Observe, PrintReceipt, ReportError, ReportRaises, Exit, Kill
<1>2. ASSUME NEW p \in Runs, CreateTemporary(p) PROVE LinkedIsDurable'
  BY <1>2 DEF CreateTemporary, PathIsOwn
<1>3. ASSUME NEW p \in Runs, Write(p) PROVE LinkedIsDurable'
  BY <1>3 DEF Write, PathIsOwn
<1>4. ASSUME NEW p \in Runs, Sync(p) PROVE LinkedIsDurable'
  BY <1>4 DEF Sync
<1>5. ASSUME NEW p \in Runs, Link(p) PROVE LinkedIsDurable'
  BY <1>5 DEF Link
<1>6. ASSUME NEW p \in Runs, Unlink(p) PROVE LinkedIsDurable'
  BY <1>6 DEF Unlink
<1>7. ASSUME PowerLoss PROVE LinkedIsDurable'
  BY <1>7 DEF PowerLoss, Running
<1>8. CASE UNCHANGED vars
  BY <1>8 DEF vars
<1> QED
  BY <1>1, <1>2, <1>3, <1>4, <1>5, <1>6, <1>7, <1>8 DEF Next, Step, Ended

LEMMA NextPathIsOwn ==
  ASSUME IInv, [Next]_vars, CliAssumption
  PROVE  PathIsOwn'
<1> USE DEF IInv, TypeOK, PathIsOwn, Go, args, files, outputs
<1>1. ASSUME NEW p \in Runs, ReadRequest(p) \/ Observe(p) \/ PrintReceipt(p) \/ ReportError(p)
                             \/ Exit(p) \/ Kill(p)
      PROVE PathIsOwn'
  BY <1>1 DEF ReadRequest, Observe, PrintReceipt, ReportError, ReportRaises, Exit, Kill
<1>2. ASSUME NEW p \in Runs, CreateTemporary(p) \/ Write(p) \/ Sync(p) PROVE PathIsOwn'
  BY <1>2 DEF CreateTemporary, Write, Sync
<1>3. ASSUME NEW p \in Runs, Link(p) PROVE PathIsOwn'
  BY <1>3 DEF Link, CliAssumption
<1>4. ASSUME NEW p \in Runs, Unlink(p) PROVE PathIsOwn'
  BY <1>4 DEF Unlink
<1>5. ASSUME PowerLoss PROVE PathIsOwn'
  BY <1>5 DEF PowerLoss, Running, CliAssumption
<1>6. CASE UNCHANGED vars
  BY <1>6 DEF vars
<1> QED
  BY <1>1, <1>2, <1>3, <1>4, <1>5, <1>6 DEF Next, Step, Ended

LEMMA NextOutputsTell ==
  ASSUME IInv, [Next]_vars, CliAssumption
  PROVE  OutputsTell'
<1> USE DEF IInv, TypeOK, OutputsTell, Saved, Go, Fail, args, files, outputs
<1>1. ASSUME NEW p \in Runs, ReadRequest(p) \/ Observe(p) PROVE OutputsTell'
  BY <1>1 DEF ReadRequest, Observe
<1>2. ASSUME NEW p \in Runs, CreateTemporary(p) \/ Write(p) \/ Sync(p) PROVE OutputsTell'
  BY <1>2 DEF CreateTemporary, Write, Sync
<1>3. ASSUME NEW p \in Runs, Link(p) PROVE OutputsTell'
  BY <1>3 DEF Link, CliAssumption
<1>4. ASSUME NEW p \in Runs, Unlink(p) PROVE OutputsTell'
  BY <1>4 DEF Unlink
<1>5. ASSUME NEW p \in Runs, PrintReceipt(p) PROVE OutputsTell'
  BY <1>5 DEF PrintReceipt, PathIsOwn
<1>6. ASSUME NEW p \in Runs, ReportError(p) PROVE OutputsTell'
  BY <1>6 DEF ReportError, ReportRaises
<1>7. ASSUME NEW p \in Runs, Exit(p) \/ Kill(p) PROVE OutputsTell'
  BY <1>7 DEF Exit, Kill
<1>8. ASSUME PowerLoss PROVE OutputsTell'
  BY <1>8 DEF PowerLoss, Running
<1>9. CASE UNCHANGED vars
  BY <1>9 DEF vars
<1> QED
  BY <1>1, <1>2, <1>3, <1>4, <1>5, <1>6, <1>7, <1>8, <1>9 DEF Next, Step, Ended

(* Only a run's own last step ends it or gives it an exit code.            *)
LEMMA OnlyExitEnds ==
  ASSUME TypeOK, [Next]_vars, NEW p \in Runs,
         (pc[p] # "exited" /\ pc'[p] = "exited") \/ exit'[p] # exit[p]
  PROVE  Exit(p)
<1> USE DEF TypeOK, Go
<1>1. ASSUME NEW q \in Runs,
             ReadRequest(q) \/ Observe(q) \/ CreateTemporary(q) \/ Write(q) \/ Sync(q)
               \/ Link(q) \/ Unlink(q) \/ PrintReceipt(q) \/ ReportError(q) \/ Kill(q)
      PROVE  FALSE
  BY <1>1 DEF ReadRequest, Observe, CreateTemporary, Write, Sync, Link, Unlink, PrintReceipt,
              ReportError, ReportRaises, Kill
<1>2. ASSUME PowerLoss PROVE FALSE
  BY <1>2 DEF PowerLoss
<1>3. ASSUME NEW q \in Runs, Exit(q) PROVE q = p
  BY <1>3 DEF Exit
<1>4. CASE UNCHANGED vars
  BY <1>4 DEF vars
<1> QED BY <1>1, <1>2, <1>3, <1>4 DEF Next, Step, Ended

-------------------------------------------------------------------------------
(***************************************************************************)
(* The theorems                                                            *)
(***************************************************************************)

(* What is linked is durable, who reports success still has the path, and  *)
(* where a run is tells which of its outputs failed.                       *)
THEOREM Invariance == Spec => []IInv
<1>1. Init => IInv
  BY InitIInv, CliAssumption
<1>2. IInv /\ [Next]_vars => IInv'
  BY NextTypeOK, NextLinkedIsDurable, NextPathIsOwn, NextOutputsTell, CliAssumption
  DEF IInv
<1> QED BY <1>1, <1>2, PTL DEF Spec

(* What stands at the receipt path is a complete receipt, after any number *)
(* of kills and power losses (_write_receipt).                             *)
THEOREM PublishedStaysComplete == Spec => []PathInv
<1>1. IInv => PathInv
  BY DEF IInv, PathInv, LinkedIsDurable, PublishedIsComplete
<1> QED BY <1>1, Invariance, PTL

(* What a run that ended by itself has lost of its observation shows in    *)
(* its exit code; with --receipt it takes two failures, of the receipt and *)
(* of stderr, to lose it (main's handlers and the flush at exit).          *)
THEOREM ObservationNeverLost == Spec => ObservationReported
<1> DEFINE Lost(p) == /\ pc[p] # "exited" /\ pc'[p] = "exited" /\ receipt[p] # "none"
                      /\ stdout'[p] # "whole" /\ stderr'[p] # "error+observation"
<1>1. ASSUME IInv, [Next]_vars, NEW p \in Runs, Lost(p)
      PROVE  /\ exit'[p] \notin {0, 2}
             /\ IF wants[p] THEN path' = p \/ {"receipt", "stderr"} \subseteq failed'[p]
                ELSE "stdout" \in failed'[p]
  <2>1. Exit(p)
    BY <1>1, OnlyExitEnds DEF IInv
  <2> USE DEF IInv, TypeOK, Go, Fail, files
  <2>2. path' = path /\ wants' = wants
    BY <2>1 DEF Exit, args
  <2>3. CASE pc[p] = "returned"
    BY <1>1, <2>1, <2>2, <2>3 DEF Exit, PathIsOwn, OutputsTell
  <2>4. CASE pc[p] = "reported"
    BY <1>1, <2>1, <2>4 DEF Exit, OutputsTell
  <2>5. CASE pc[p] = "raised"
    BY <1>1, <2>1, <2>2, <2>5 DEF Exit, OutputsTell, Saved
  <2> QED BY <2>1, <2>3, <2>4, <2>5 DEF Exit
<1>2. IInv /\ [Next]_vars => [\A p \in Runs : Lost(p)
        => /\ exit'[p] \notin {0, 2}
           /\ IF wants[p] THEN path' = p \/ {"receipt", "stderr"} \subseteq failed'[p]
              ELSE "stdout" \in failed'[p]]_vars
  BY <1>1
<1> QED BY <1>2, Invariance, PTL DEF Spec, ObservationReported

(* Nobody's receipt is replaced: os.link() refuses a name that exists.     *)
THEOREM LinkNeverReplaces == Spec => NeverOverwritten
<1>1. ASSUME [Next]_vars, path # Nothing
      PROVE  path' \in {path, Nothing}
  BY <1>1 DEF Next, Step, vars, files, ReadRequest, Observe, CreateTemporary, Write, Sync, Link,
              Unlink, PrintReceipt, ReportError, ReportRaises, Exit, Kill, PowerLoss, Ended
<1>2. [Next]_vars => [path # Nothing => path' \in {path, Nothing}]_vars
  BY <1>1
<1> QED BY <1>2, PTL DEF Spec, NeverOverwritten

(* Exit code 0 means what it says: the run's own observation is on stdout, *)
(* and at the path if it was asked for, when the run ends (main, line 60). *)
THEOREM SuccessIsNeverBorrowed == Spec => SuccessIsOwn
<1>1. ASSUME IInv, [Next]_vars, NEW p \in Runs, exit[p] # 0, exit'[p] = 0
      PROVE  stdout'[p] = "whole" /\ (wants[p] => path' = p)
  <2>1. Exit(p)
    BY <1>1, OnlyExitEnds DEF IInv
  <2>2. pc[p] = "returned"
    BY <1>1, <2>1 DEF Exit, IInv, TypeOK
  <2> QED BY <1>1, <2>1, <2>2 DEF Exit, IInv, TypeOK, PathIsOwn, OutputsTell, files
<1>2. IInv /\ [Next]_vars =>
        [\A p \in Runs : (exit[p] # 0 /\ exit'[p] = 0)
           => stdout'[p] = "whole" /\ (wants[p] => path' = p)]_vars
  BY <1>1
<1> QED BY <1>2, Invariance, PTL DEF Spec, SuccessIsOwn
===============================================================================
