------------------------------ MODULE Monitoring ------------------------------
(***************************************************************************)
(* The alert rules of deploy/grafana-alerts.yaml over the series the       *)
(* service exports at /metrics, scraped as deploy/prometheus.yml says.     *)
(*                                                                         *)
(* Each alert stands for a condition of the running service.  Prometheus   *)
(* sees it through one series; a series that is not exported gives the     *)
(* rule's expression an empty result, which never fires.                   *)
(***************************************************************************)
EXTENDS Naturals

CONSTANT MaxRestarts     \* bound: restarts of the service

ASSUME MonitoringAssumption == MaxRestarts \in Nat

VARIABLES
  bad,       \* the alerts whose condition the service is in
  up,        \* the service answers scrapes
  sample,    \* the alerts whose condition the last scrape showed
  pending,   \* evaluations in a row that found the condition
  restarts

vars == <<bad, up, sample, pending, restarts>>

(* The series each rule's expression reads.                                *)
Series == [HighP95Latency |-> "szl_calibration_request_seconds",
           EceDrift |-> "szl_calibration_ece",
           ReceiptChainBroken |-> "szl_calibration_chain_valid",
           MemoryHigh |-> "process_resident_memory_bytes"]
Alerts == DOMAIN Series

(* "for:", in evaluations: 10m, 1h, 0m and 15m, by their order.            *)
For == [HighP95Latency |-> 1, EceDrift |-> 3, ReceiptChainBroken |-> 0, MemoryHigh |-> 2]

(* Mutant: the histogram is renamed in the service, not in the rules.      *)
ExportedRenamed == {"szl_calibration_requests_total", "szl_calibration_request_seconds",
                    "szl_calibration_batch_ece", "process_resident_memory_bytes"}

(* REQS, LAT and ECE_G, and the client library's process collector.        *)
Exported == {"szl_calibration_requests_total", "szl_calibration_request_seconds",
             "szl_calibration_ece", "process_resident_memory_bytes"}

Firing == {a \in Alerts : pending[a] > For[a]}

Init == /\ bad = {} /\ up = TRUE /\ sample = {}
        /\ pending = [a \in Alerts |-> 0]
        /\ restarts = 0

(* The service's condition changes; a broken chain stays broken.           *)
Change(a) ==
  /\ up
  /\ bad' = IF a = "ReceiptChainBroken" THEN bad \cup {a}
            ELSE (bad \cup {a}) \ (bad \cap {a})
  /\ bad' # bad
  /\ UNCHANGED <<up, sample, pending, restarts>>

Stop ==
  /\ up /\ restarts < MaxRestarts
  /\ up' = FALSE /\ bad' = {} /\ restarts' = restarts + 1
  /\ UNCHANGED <<sample, pending>>

Restart ==
  /\ ~up /\ up' = TRUE
  /\ UNCHANGED <<bad, sample, pending, restarts>>

(* A failed scrape marks every series of the target stale.                 *)
Scrape ==
  /\ sample' = IF up THEN {a \in bad : Series[a] \in Exported} ELSE {}
  /\ UNCHANGED <<bad, up, pending, restarts>>

Evaluate ==
  /\ pending' = [a \in Alerts |-> IF a \notin sample THEN 0
                                  ELSE IF pending[a] > For[a] THEN pending[a]
                                  ELSE pending[a] + 1]
  /\ UNCHANGED <<bad, up, sample, restarts>>

Next == (\E a \in Alerts : Change(a)) \/ Stop \/ Restart \/ Scrape \/ Evaluate

(* A scrape every 15 s, the rules evaluated as regularly, a service that   *)
(* is started again.                                                       *)
Spec == Init /\ [][Next]_vars /\ WF_vars(Scrape) /\ WF_vars(Evaluate) /\ WF_vars(Restart)

-------------------------------------------------------------------------------
(* Properties                                                              *)

(* A condition of the service that lasts is alerted on, across restarts of *)
(* the service and whatever the other conditions do.                       *)
LastingConditionAlerts ==
  \A a \in {"HighP95Latency", "EceDrift", "MemoryHigh"} :
    <>[](a \in bad) => <>[](a \in Firing)

(* README, lines 117-118: the manifest ships a "chain-broken (critical,    *)
(* fail-closed)" alert.  The series its expression compares with 0 is      *)
(* exported by nobody.                                                     *)
ChainBreakAlerts == <>[]("ReceiptChainBroken" \in bad) => <>("ReceiptChainBroken" \in Firing)
===============================================================================
