-------------------------------- MODULE JevCli --------------------------------
(***************************************************************************)
(* Runs of python -m szl_calibration.jev_cli that name the same --receipt  *)
(* path, on one file system.  A run validates its request, obtains an      *)
(* observation (live, through JevTransport, or offline), publishes it at   *)
(* the path by a hard link to a synced temporary file, and prints it.      *)
(*                                                                         *)
(* Any step that touches the world may fail, a run may be killed at any    *)
(* moment, and the machine may lose power: file content that was not       *)
(* synced is then gone, and so may be the receipt's name, because nothing  *)
(* syncs the directory.                                                    *)
(*                                                                         *)
(* Both standard streams are open when a run starts.  What is printed to   *)
(* stdout may stay in its buffer until the interpreter exits: a flush that *)
(* fails there turns any exit code into 120.                               *)
(***************************************************************************)
EXTENDS Naturals, FiniteSets

CONSTANTS Runs, Nothing,
          MaxCrashes     \* bound: kills and power losses

ASSUME CliAssumption == Nothing \notin Runs /\ MaxCrashes \in Nat

VARIABLES
  pc,        \* where each run is
  live,      \* --live was given
  wants,     \* --receipt was given
  receipt,   \* what it has observed: "none", "offline", "live"
  tmp,       \* content of its temporary file: "absent", "empty", "partial", "complete"
  synced,    \* that content is on the disk
  path,      \* whose file the receipt path names
  stdout,    \* its observation there: "none", "buffered", "whole", "torn"
  stderr,    \* what it printed there: "none", "error", "error+observation"
  failed,    \* outputs that failed: "receipt", "stdout", "stderr"
  exit,      \* exit code; 255 while running or killed
  crashes

args == <<live, wants>>
vars == <<pc, args, receipt, tmp, synced, path, stdout, stderr, failed, exit, crashes>>
files == <<tmp, synced, path>>
outputs == <<stdout, stderr, failed>>

Stages == {"request", "observe", "mkdir", "write", "sync", "link", "unlink_ok",
           "unlink_failed", "print", "error", "returned", "reported", "raised", "exited",
           "killed"}
Running(p) == pc[p] \notin {"exited", "killed"}

Init == /\ pc = [p \in Runs |-> "request"]
        /\ live \in [Runs -> BOOLEAN] /\ wants \in [Runs -> BOOLEAN]
        /\ receipt = [p \in Runs |-> "none"]
        /\ tmp = [p \in Runs |-> "absent"]
        /\ synced = [p \in Runs |-> FALSE]
        /\ path = Nothing
        /\ stdout = [p \in Runs |-> "none"] /\ stderr = [p \in Runs |-> "none"]
        /\ failed = [p \in Runs |-> {}]
        /\ exit = [p \in Runs |-> 255]
        /\ crashes = 0

Go(p, stage) == pc' = [pc EXCEPT ![p] = stage]
Fail(p, output) == failed' = [failed EXCEPT ![p] = @ \cup {output}]

(* Reading, size limit, parsing and validation of the request file.        *)
ReadRequest(p) ==
  /\ pc[p] = "request"
  /\ Go(p, "observe") \/ Go(p, "error")
  /\ UNCHANGED <<args, receipt, outputs, exit, crashes, files>>

(* evaluate(), which may raise, or the offline summary, which does not.    *)
Observe(p) ==
  /\ pc[p] = "observe"
  /\ \/ live[p] /\ Go(p, "error") /\ UNCHANGED receipt
     \/ /\ Go(p, IF wants[p] THEN "mkdir" ELSE "print")
        /\ receipt' = [receipt EXCEPT ![p] = IF live[p] THEN "live" ELSE "offline"]
  /\ UNCHANGED <<args, outputs, exit, crashes, files>>

-------------------------------------------------------------------------------
(* _write_receipt                                                          *)

CreateTemporary(p) ==
  /\ pc[p] = "mkdir"
  /\ \/ Go(p, "error") /\ Fail(p, "receipt") /\ UNCHANGED tmp
     \/ Go(p, "write") /\ tmp' = [tmp EXCEPT ![p] = "empty"] /\ UNCHANGED failed
  /\ UNCHANGED <<args, receipt, synced, path, stdout, stderr, exit, crashes>>

(* json.dump and the flush may stop halfway: the disk is full.             *)
Write(p) ==
  /\ pc[p] = "write"
  /\ \/ Go(p, "unlink_failed") /\ tmp' = [tmp EXCEPT ![p] = "partial"]
     \/ Go(p, "sync") /\ tmp' = [tmp EXCEPT ![p] = "complete"]
  /\ UNCHANGED <<args, receipt, synced, path, outputs, exit, crashes>>

(* Mutant: flush() without fsync().                                        *)
SyncFlushOnly(p) ==
  /\ pc[p] = "sync"
  /\ Go(p, "link")
  /\ UNCHANGED <<args, receipt, tmp, synced, path, outputs, exit, crashes>>

Sync(p) ==
  /\ pc[p] = "sync"
  /\ \/ Go(p, "unlink_failed") /\ UNCHANGED synced
     \/ Go(p, "link") /\ synced' = [synced EXCEPT ![p] = TRUE]
  /\ UNCHANGED <<args, receipt, tmp, path, outputs, exit, crashes>>

(* Mutant: os.replace() instead of os.link().                              *)
Replace(p) ==
  /\ pc[p] = "link"
  /\ \/ Go(p, "unlink_failed") /\ UNCHANGED path
     \/ path' = p /\ Go(p, "unlink_ok")
  /\ UNCHANGED <<args, receipt, tmp, synced, outputs, exit, crashes>>

(* Mutant: a file already there counts as success.                         *)
LinkExistOk(p) ==
  /\ pc[p] = "link"
  /\ \/ Go(p, "unlink_failed") /\ UNCHANGED path
     \/ path' = (IF path = Nothing THEN p ELSE path) /\ Go(p, "unlink_ok")
  /\ UNCHANGED <<args, receipt, tmp, synced, outputs, exit, crashes>>

Link(p) ==
  /\ pc[p] = "link"
  /\ \/ Go(p, "unlink_failed") /\ UNCHANGED path
     \/ path = Nothing /\ path' = p /\ Go(p, "unlink_ok")
  /\ UNCHANGED <<args, receipt, tmp, synced, outputs, exit, crashes>>

(* The "finally": the temporary name goes, or stays if unlink fails.  The  *)
(* content lives on under the receipt path, if that is what it names.      *)
Unlink(p) ==
  /\ \/ pc[p] = "unlink_ok" /\ Go(p, "print") /\ UNCHANGED failed
     \/ pc[p] = "unlink_failed" /\ Go(p, "error") /\ Fail(p, "receipt")
  /\ tmp' \in {tmp, [tmp EXCEPT ![p] = IF path = p THEN @ ELSE "absent"]}
  /\ UNCHANGED <<args, receipt, synced, path, stdout, stderr, exit, crashes>>

-------------------------------------------------------------------------------
(* The ends of main()                                                      *)

(* print() may raise OSError, with part of the text gone out; main() then  *)
(* reports an error, with the observation, though the receipt is there.    *)
PrintReceipt(p) ==
  /\ pc[p] = "print"
  /\ \/ Go(p, "error") /\ stdout' = [stdout EXCEPT ![p] = "torn"] /\ Fail(p, "stdout")
     \/ Go(p, "returned") /\ stdout' = [stdout EXCEPT ![p] = "buffered"] /\ UNCHANGED failed
  /\ UNCHANGED <<args, receipt, stderr, exit, crashes, files>>

(* The second print() stands outside the try: if it fails, the exception   *)
(* leaves main().                                                          *)
ReportRaises(p) ==
  /\ pc[p] = "error"
  /\ Go(p, "raised") /\ Fail(p, "stderr")
  /\ UNCHANGED <<args, receipt, stdout, stderr, exit, crashes, files>>

(* Mutant: the error alone is reported.                                    *)
ReportErrorOnly(p) ==
  \/ ReportRaises(p)
  \/ /\ pc[p] = "error"
     /\ Go(p, "reported") /\ stderr' = [stderr EXCEPT ![p] = "error"]
     /\ UNCHANGED <<args, receipt, stdout, failed, exit, crashes, files>>

ReportError(p) ==
  \/ ReportRaises(p)
  \/ /\ pc[p] = "error"
     /\ Go(p, "reported")
     /\ stderr' = [stderr EXCEPT ![p] = IF receipt[p] = "none" THEN "error"
                                        ELSE "error+observation"]
     /\ UNCHANGED <<args, receipt, stdout, failed, exit, crashes, files>>

(* SystemExit(main()) or the exception; the interpreter flushes what is    *)
(* still buffered, on stdout or, after a failed report, on stderr.         *)
Exit(p) ==
  /\ Go(p, "exited")
  /\ \/ /\ pc[p] \in {"returned", "reported", "raised"}
        /\ stdout' = [stdout EXCEPT ![p] = IF @ = "buffered" THEN "whole" ELSE @]
        /\ exit' = [exit EXCEPT ![p] = CASE pc[p] = "returned" -> 0
                                         [] pc[p] = "reported" -> 2
                                         [] pc[p] = "raised" -> 1]
        /\ UNCHANGED failed
     \/ /\ pc[p] = "raised" \/ (pc[p] \in {"returned", "reported"} /\ stdout[p] # "none")
        /\ stdout' = [stdout EXCEPT ![p] = IF @ = "buffered" THEN "torn" ELSE @]
        /\ exit' = [exit EXCEPT ![p] = 120]
        /\ IF pc[p] = "raised" THEN UNCHANGED failed ELSE Fail(p, "stdout")
  /\ UNCHANGED <<args, receipt, stderr, crashes, files>>

Step(p) == \/ ReadRequest(p) \/ Observe(p) \/ CreateTemporary(p) \/ Write(p) \/ Sync(p)
           \/ Link(p) \/ Unlink(p) \/ PrintReceipt(p) \/ ReportError(p)
           \/ Exit(p)

-------------------------------------------------------------------------------
(* The world                                                               *)

Kill(p) ==
  /\ crashes < MaxCrashes /\ Running(p)
  /\ crashes' = crashes + 1
  /\ Go(p, "killed")
  /\ UNCHANGED <<args, receipt, outputs, exit, files>>

(* A run still at "request" starts only afterwards.                        *)
PowerLoss ==
  /\ crashes < MaxCrashes
  /\ crashes' = crashes + 1
  /\ pc' = [p \in Runs |-> IF Running(p) /\ pc[p] # "request" THEN "killed" ELSE pc[p]]
  /\ tmp' = [p \in Runs |-> IF tmp[p] = "absent" \/ synced[p] THEN tmp[p] ELSE "empty"]
  /\ path' \in {path, Nothing}
  /\ UNCHANGED <<args, receipt, synced, outputs, exit>>

Ended == (\A p \in Runs : ~Running(p)) /\ UNCHANGED vars

Next == \/ \E p \in Runs : Step(p) \/ Kill(p)
        \/ PowerLoss
        \/ Ended

Spec == Init /\ [][Next]_vars

-------------------------------------------------------------------------------
(* Properties                                                              *)

TypeOK == /\ pc \in [Runs -> Stages]
          /\ live \in [Runs -> BOOLEAN] /\ wants \in [Runs -> BOOLEAN]
          /\ receipt \in [Runs -> {"none", "offline", "live"}]
          /\ tmp \in [Runs -> {"absent", "empty", "partial", "complete"}]
          /\ synced \in [Runs -> BOOLEAN]
          /\ path \in Runs \cup {Nothing}
          /\ stdout \in [Runs -> {"none", "buffered", "whole", "torn"}]
          /\ stderr \in [Runs -> {"none", "error", "error+observation"}]
          /\ failed \in [Runs -> SUBSET {"receipt", "stdout", "stderr"}]
          /\ exit \in [Runs -> {0, 1, 2, 120, 255}]
          /\ crashes \in 0 .. MaxCrashes

(* Whatever stands at the receipt path is a complete receipt, also after a *)
(* kill between two steps or a power loss ("Publish a complete local       *)
(* receipt atomically", jev_cli.py line 15).                               *)
PublishedIsComplete == path # Nothing => tmp[path] = "complete"

(* The types, and what may stand at the path.                              *)
PathInv == TypeOK /\ PublishedIsComplete

(* No run replaces what another one published, however they interleave and *)
(* whatever a crash left behind; only a power loss can take a name away.   *)
NeverOverwritten == [][path # Nothing => path' \in {path, Nothing}]_vars

(* A run that ends with exit code 0 leaves its own observation on stdout,  *)
(* out of the buffer, and, if asked for, at the path: of two concurrent    *)
(* runs only one can claim that.                                           *)
SuccessIsOwn ==
  [][\A p \in Runs : (exit[p] # 0 /\ exit'[p] = 0)
       => stdout'[p] = "whole" /\ (wants[p] => path' = p)]_vars

(* What a run that ended by itself has lost of its observation, which may  *)
(* have cost a request, shows in an exit code other than 0 and 2.  With    *)
(* --receipt it is lost only if both the receipt and stderr failed         *)
(* ("Preserve a successfully obtained response if only writing the receipt *)
(* failed", jev_cli.py line 62); without it, only if stdout failed.        *)
ObservationReported ==
  [][\A p \in Runs :
       (/\ pc[p] # "exited" /\ pc'[p] = "exited" /\ receipt[p] # "none"
        /\ stdout'[p] # "whole" /\ stderr'[p] # "error+observation")
       => /\ exit'[p] \notin {0, 2}
          /\ IF wants[p] THEN path' = p \/ {"receipt", "stderr"} \subseteq failed'[p]
             ELSE "stdout" \in failed'[p]]_vars
===============================================================================
