------------------------------- MODULE Service --------------------------------
(***************************************************************************)
(* One worker process of src/szl_calibration/service.py and its chain.     *)
(*                                                                         *)
(* Plain "def" routes (score, healthz, verify, receipts) run on a thread   *)
(* of the server's bounded pool.  "async def" routes (decisions, local,    *)
(* evidence plan: one shape, here "study") run on the event loop: they     *)
(* hold it between two awaits, also while they block on the chain's mutex, *)
(* and borrow a pool thread for the computation only.                      *)
(*                                                                         *)
(* ReceiptChain has the inside of append(); here an append is its          *)
(* verification under the lock followed by its commit, and the chain is    *)
(* the sequence of requests it holds receipts of.  A privileged writer,    *)
(* who does not take the lock, may corrupt the chain at any moment.        *)
(***************************************************************************)
EXTENDS Naturals, Sequences, FiniteSets, Functions

CONSTANTS Requests,
          PoolSize,        \* threads for def routes and run_in_threadpool
          MaxBody,         \* MAX_STUDY_BYTES and its like, in chunks
          MaxRestarts,     \* bound: restarts of the process
          Asked,           \* bound: the routes requests are sent to
          Nobody

ASSUME ServiceAssumption ==
  /\ PoolSize \in Nat \ {0}
  /\ MaxBody \in Nat
  /\ MaxRestarts \in Nat
  /\ Nobody \notin Requests

VARIABLES
  st,        \* where each request is
  route,     \* the route it came in on
  status,    \* its HTTP status (0: none yet)
  body,      \* chunks of its body buffered in raw
  index,     \* index of its receipt, or count read from the chain
  lines,     \* length of the JSONL text it read
  seen,      \* what its client knew when it sent the request
  pool,      \* requests on a pool thread
  loop,      \* request holding the event loop
  lock,      \* request holding the chain's mutex
  log,       \* the chain
  health,    \* what verification would find
  ceiling,   \* receipts the chain may reach, fixed when it is corrupted
  ece, reqs, \* observations of ECE_G, 200s of the score routes in REQS
  restarts

vars == <<st, route, status, body, index, lines, seen, pool, loop, lock, log, health,
          ceiling, ece, reqs, restarts>>
chainVars == <<lock, log, health, ceiling>>
meters == <<ece, reqs>>
data == <<body, index, lines>>

Routes == {"score", "healthz", "verify", "receipts", "study"}
Scored == {"score", "study"}           \* routes that append a receipt
Probes == {"healthz", "verify"}        \* routes that read validity, then length

Stages == {"new", "dispatch", "run", "len", "validity", "jsonl", "check", "reading", "await",
           "compute", "resume", "append", "commit", "observe", "return", "reply", "done",
           "gone"}

Broken == health # "valid"
Done == {r \in Requests : st[r] = "done"}
Receipts(rt) == {i \in DOMAIN log : route[log[i]] = rt}

Init == /\ st = [r \in Requests |-> "new"]
        /\ route = [r \in Requests |-> "score"]
        /\ status = [r \in Requests |-> 0]
        /\ body = [r \in Requests |-> 0]
        /\ index = [r \in Requests |-> 0]
        /\ lines = [r \in Requests |-> 0]
        /\ seen = [r \in Requests |-> [receipts |-> 0, down |-> FALSE]]
        /\ pool = {}
        /\ loop = Nobody
        /\ lock = Nobody
        /\ log = <<>>
        /\ health = "valid" /\ ceiling = 0
        /\ ece = 0 /\ reqs = 0
        /\ restarts = 0

Go(r, stage) == st' = [st EXCEPT ![r] = stage]
Answer(r, code) == status' = [status EXCEPT ![r] = code]

(* A request arrives.  Its client has seen the receipts, and the 503s, of  *)
(* every response sent so far.                                             *)
Arrive(r, rt) ==
  /\ st[r] = "new"
  /\ Go(r, "dispatch")
  /\ route' = [route EXCEPT ![r] = rt]
  /\ seen' = [seen EXCEPT ![r] =
       [receipts |-> Cardinality({i \in DOMAIN log : st[log[i]] = "done"}),
        down |-> \E q \in Done : status[q] = 503]]
  /\ UNCHANGED <<status, pool, loop, restarts, chainVars, meters, data>>

-------------------------------------------------------------------------------
(* def routes                                                              *)

FirstStage == [score |-> "run", healthz |-> "validity", verify |-> "validity",
               receipts |-> "len"]

TakeThread(r) ==
  /\ st[r] = "dispatch" /\ route[r] # "study"
  /\ loop = Nobody /\ Cardinality(pool) < PoolSize
  /\ pool' = pool \cup {r}
  /\ Go(r, FirstStage[route[r]])
  /\ UNCHANGED <<route, status, seen, loop, restarts, chainVars, meters, data>>

(* M._validate and the request model reject the batch before the chain is  *)
(* looked at, or the metrics are computed.                                 *)
Score(r) ==
  /\ st[r] = "run"
  /\ \/ Answer(r, 422) /\ Go(r, "return")
     \/ Go(r, "append") /\ UNCHANGED status
  /\ UNCHANGED <<route, seen, pool, loop, restarts, chainVars, meters, data>>

(* Mutant: the probes report validity in the body only.                    *)
ValidityReported(r) ==
  /\ st[r] = "validity" /\ lock = Nobody
  /\ IF route[r] = "receipts" THEN Go(r, "jsonl") ELSE Go(r, "len")
  /\ UNCHANGED <<route, status, seen, pool, loop, restarts, chainVars, meters, data>>

(* CHAIN.verify() of healthz and verify_receipts, and inside receipts().   *)
Validity(r) ==
  /\ st[r] = "validity" /\ lock = Nobody
  /\ IF route[r] = "receipts" THEN Go(r, "jsonl") /\ UNCHANGED status
     ELSE IF Broken THEN Go(r, "return") /\ Answer(r, 503)
     ELSE Go(r, "len") /\ UNCHANGED status
  /\ UNCHANGED <<route, seen, pool, loop, restarts, chainVars, meters, data>>

(* Mutant: the count of scored batches instead of the chain's length.      *)
LengthScored(r) ==
  /\ st[r] = "len" /\ lock = Nobody
  /\ index' = [index EXCEPT ![r] = Cardinality(Receipts("score"))]
  /\ IF route[r] = "receipts" THEN Go(r, "validity") /\ UNCHANGED status
     ELSE Go(r, "return") /\ Answer(r, 200)
  /\ UNCHANGED <<route, body, lines, seen, pool, loop, restarts, chainVars, meters>>

(* len(CHAIN): after validity for the probes, before it for receipts().    *)
Length(r) ==
  /\ st[r] = "len" /\ lock = Nobody
  /\ index' = [index EXCEPT ![r] = Len(log)]
  /\ IF route[r] = "receipts" THEN Go(r, "validity") /\ UNCHANGED status
     ELSE Go(r, "return") /\ Answer(r, 200)
  /\ UNCHANGED <<route, body, lines, seen, pool, loop, restarts, chainVars, meters>>

(* CHAIN.to_jsonl(): a payload that cannot be rendered raises, and nobody  *)
(* catches it.                                                             *)
Jsonl(r) ==
  /\ st[r] = "jsonl" /\ lock = Nobody
  /\ IF health = "nonfinite" THEN Answer(r, 500) /\ UNCHANGED lines
     ELSE Answer(r, 200) /\ lines' = [lines EXCEPT ![r] = Len(log)]
  /\ Go(r, "return")
  /\ UNCHANGED <<route, body, index, seen, pool, loop, restarts, chainVars, meters>>

Observe(r) ==
  /\ st[r] = "observe"
  /\ ece' = ece + 1
  /\ Answer(r, 200) /\ Go(r, "return")
  /\ UNCHANGED <<route, seen, pool, loop, reqs, restarts, chainVars, data>>

Return(r) ==
  /\ st[r] = "return"
  /\ pool' = pool \ {r}
  /\ Go(r, "reply")
  /\ UNCHANGED <<route, status, seen, loop, restarts, chainVars, meters, data>>

-------------------------------------------------------------------------------
(* async def routes                                                        *)

EnterLoop(r) ==
  /\ st[r] = "dispatch" /\ route[r] = "study" /\ loop = Nobody
  /\ loop' = r
  /\ Go(r, "check")
  /\ UNCHANGED <<route, status, seen, pool, restarts, chainVars, meters, data>>

(* Mutant: the body is read without giving the loop back.                  *)
CheckHoldingLoop(r) ==
  /\ st[r] = "check" /\ lock = Nobody
  /\ \/ Broken /\ Answer(r, 503) /\ Go(r, "reply") /\ loop' = Nobody
     \/ ~Broken /\ Answer(r, 415) /\ Go(r, "reply") /\ loop' = Nobody
     \/ ~Broken /\ Go(r, "reading") /\ UNCHANGED <<status, loop>>
  /\ UNCHANGED <<route, seen, pool, restarts, chainVars, meters, data>>

(* On the loop, blocking it until the mutex is free: verify(), then the    *)
(* content type.                                                           *)
Check(r) ==
  /\ st[r] = "check" /\ lock = Nobody
  /\ loop' = Nobody
  /\ \/ Broken /\ Answer(r, 503) /\ Go(r, "reply")
     \/ ~Broken /\ Answer(r, 415) /\ Go(r, "reply")
     \/ ~Broken /\ Go(r, "reading") /\ UNCHANGED status
  /\ UNCHANGED <<route, seen, pool, restarts, chainVars, meters, data>>

Chunk(r) ==
  /\ st[r] = "reading" /\ loop = Nobody
  /\ IF body[r] + 1 > MaxBody
     THEN Answer(r, 413) /\ Go(r, "reply") /\ UNCHANGED body
     ELSE body' = [body EXCEPT ![r] = @ + 1] /\ UNCHANGED <<st, status>>
  /\ UNCHANGED <<route, index, lines, seen, pool, loop, restarts, chainVars, meters>>

(* The client goes away: request.stream() raises, nothing is answered.     *)
Disconnect(r) ==
  /\ st[r] = "reading" /\ loop = Nobody
  /\ Go(r, "gone")
  /\ UNCHANGED <<route, status, seen, pool, loop, restarts, chainVars, meters, data>>

(* The body is complete: it parses, or not.                                *)
Parse(r) ==
  /\ st[r] = "reading" /\ loop = Nobody
  /\ \/ Answer(r, 422) /\ Go(r, "reply")
     \/ Go(r, "await") /\ UNCHANGED status
  /\ UNCHANGED <<route, seen, pool, loop, restarts, chainVars, meters, data>>

Compute(r) ==
  /\ st[r] = "await" /\ Cardinality(pool) < PoolSize
  /\ pool' = pool \cup {r}
  /\ Go(r, "compute")
  /\ UNCHANGED <<route, status, seen, loop, restarts, chainVars, meters, data>>

(* A result, a TypeError or ValueError, or what the route does not catch:  *)
(* an OverflowError of a number beyond the floats.                         *)
Computed(r) ==
  /\ st[r] = "compute"
  /\ pool' = pool \ {r}
  /\ \/ Answer(r, 422) /\ Go(r, "reply")
     \/ Answer(r, 500) /\ Go(r, "reply")
     \/ Go(r, "resume") /\ UNCHANGED status
  /\ UNCHANGED <<route, seen, loop, restarts, chainVars, meters, data>>

Resume(r) ==
  /\ st[r] = "resume" /\ loop = Nobody
  /\ loop' = r
  /\ Go(r, "append")
  /\ UNCHANGED <<route, status, seen, pool, restarts, chainVars, meters, data>>

-------------------------------------------------------------------------------
(* CHAIN.append(), on a pool thread or on the loop                         *)

(* What the caller of append() goes on with.                               *)
After(r) == IF route[r] = "score" THEN "observe" ELSE "reply"
Failed(r) == IF route[r] = "score" THEN "return" ELSE "reply"
LeaveLoop(r) == loop' = IF loop = r THEN Nobody ELSE loop

(* Mutant: the failure is logged and the metrics are returned anyway.      *)
RefuseOpen(r) ==
  /\ st[r] = "append" /\ lock = Nobody /\ Broken
  /\ Answer(r, 200) /\ Go(r, Failed(r))
  /\ LeaveLoop(r)
  /\ UNCHANGED <<route, seen, pool, restarts, chainVars, meters, data>>

(* Mutant: the ECE is observed in a "finally", whether or not it was       *)
(* receipted.                                                              *)
RefuseObserved(r) ==
  /\ st[r] = "append" /\ lock = Nobody /\ Broken
  /\ Answer(r, 503) /\ Go(r, Failed(r))
  /\ LeaveLoop(r)
  /\ ece' = IF route[r] = "score" THEN ece + 1 ELSE ece
  /\ UNCHANGED <<route, seen, pool, reqs, restarts, chainVars, data>>

(* Verification under the lock found the chain broken: ValueError, 503.    *)
Refuse(r) ==
  /\ st[r] = "append" /\ lock = Nobody /\ Broken
  /\ Answer(r, 503) /\ Go(r, Failed(r))
  /\ LeaveLoop(r)
  /\ UNCHANGED <<route, seen, pool, restarts, chainVars, meters, data>>

(* Mutant: append() trusts the check made when the request came in.        *)
AdmitUnverified(r) ==
  /\ st[r] = "append" /\ lock = Nobody
  /\ lock' = r
  /\ Go(r, "commit")
  /\ UNCHANGED <<route, status, seen, pool, loop, log, health, ceiling, restarts,
                 meters, data>>

Admit(r) ==
  /\ st[r] = "append" /\ lock = Nobody /\ ~Broken
  /\ lock' = r
  /\ Go(r, "commit")
  /\ UNCHANGED <<route, status, seen, pool, loop, log, health, ceiling, restarts,
                 meters, data>>

(* The receipt is in the chain.  A study's answer is rendered after that,  *)
(* as UTF-8, which text with a lone surrogate fails.                       *)
Commit(r) ==
  /\ st[r] = "commit"
  /\ log' = Append(log, r)
  /\ index' = [index EXCEPT ![r] = Len(log)]
  /\ lock' = Nobody
  /\ LeaveLoop(r)
  /\ Go(r, After(r))
  /\ IF route[r] = "study" THEN Answer(r, 200) \/ Answer(r, 500) ELSE UNCHANGED status
  /\ UNCHANGED <<route, body, lines, seen, pool, health, ceiling, restarts, meters>>

(* The middleware, back on the loop, counts the response and sends it.  An *)
(* exception nobody caught passes it by: a 500 is not counted.             *)
Reply(r) ==
  /\ st[r] = "reply" /\ loop = Nobody
  /\ reqs' = IF route[r] = "score" /\ status[r] = 200 THEN reqs + 1 ELSE reqs
  /\ Go(r, "done")
  /\ UNCHANGED <<route, status, seen, pool, loop, ece, restarts, chainVars, data>>

-------------------------------------------------------------------------------
(* The world around the process                                            *)

(* An append that has verified the chain already will complete.            *)
Corrupt(h) ==
  /\ log # <<>> /\ ~Broken
  /\ health' = h
  /\ ceiling' = Len(log) + (IF lock = Nobody THEN 0 ELSE 1)
  /\ UNCHANGED <<st, route, status, seen, pool, loop, lock, log, restarts, meters, data>>

(* The process ends and starts again: the chain and the meters are         *)
(* process-local, requests it was working on are lost.                     *)
Restart ==
  /\ restarts < MaxRestarts
  /\ restarts' = restarts + 1
  /\ st' = [r \in Requests |-> IF st[r] = "new" THEN "new" ELSE "gone"]
  /\ pool' = {} /\ loop' = Nobody
  /\ lock' = Nobody /\ log' = <<>> /\ health' = "valid" /\ ceiling' = 0
  /\ ece' = 0 /\ reqs' = 0
  /\ UNCHANGED <<route, status, seen, data>>

(* Everything the server does by itself for r; a body comes from outside.  *)
Serve(r) == \/ TakeThread(r) \/ Score(r) \/ Validity(r) \/ Length(r) \/ Jsonl(r)
            \/ Observe(r) \/ Return(r)
            \/ EnterLoop(r) \/ Check(r) \/ Compute(r) \/ Computed(r) \/ Resume(r)
            \/ Refuse(r) \/ Admit(r) \/ Commit(r) \/ Reply(r)

Outside(r) == \/ \E rt \in Asked \cap Routes : Arrive(r, rt)
              \/ Chunk(r) \/ Parse(r) \/ Disconnect(r)

Quiet == /\ \A r \in Requests : st[r] \in {"done", "gone"}
         /\ UNCHANGED vars

Next == \/ \E r \in Requests : Serve(r) \/ Outside(r)
        \/ \E h \in {"edited", "nonfinite"} : Corrupt(h)
        \/ Restart
        \/ Quiet

Spec == Init /\ [][Next]_vars

(* Every thread, and the event loop, keeps running; clients owe nothing.   *)
(* Overtaking is finite because Requests is.                               *)
FairSpec == Spec /\ \A r \in Requests : WF_vars(Serve(r))

-------------------------------------------------------------------------------
(* Properties                                                              *)

TypeOK ==
  /\ st \in [Requests -> Stages]
  /\ route \in [Requests -> Routes]
  /\ status \in [Requests -> {0, 200, 413, 415, 422, 500, 503}]
  /\ body \in [Requests -> 0 .. MaxBody]
  /\ index \in [Requests -> Nat] /\ lines \in [Requests -> Nat]
  /\ seen \in [Requests -> [receipts : Nat, down : BOOLEAN]]
  /\ pool \subseteq Requests /\ Cardinality(pool) <= PoolSize
  /\ loop \in Requests \cup {Nobody} /\ lock \in Requests \cup {Nobody}
  /\ log \in Seq(Requests)
  /\ health \in {"valid", "edited", "nonfinite"} /\ ceiling \in Nat
  /\ ece \in Nat /\ reqs \in Nat /\ restarts \in 0 .. MaxRestarts

(* A scored request that is answered 200 has its receipt, at the index the *)
(* answer gives; 413, 415, 422 and 503 leave nothing behind, whatever the  *)
(* request went through before (docs/DECISION_STUDIES.md, "These failures  *)
(* do not append a receipt").  No request has two receipts.  A 500 tells   *)
(* nothing: the answer may have failed to render after the append.         *)
AnswersTellReceipts ==
  /\ \A i, j \in DOMAIN log : log[i] = log[j] => i = j
  /\ \A r \in Done :
       /\ (route[r] \in Scored /\ status[r] = 200) =>
            (\E i \in DOMAIN log : log[i] = r /\ index[r] = i - 1)
       /\ status[r] \in {413, 415, 422, 503} => r \notin Range(log)

(* The ECE histogram holds one observation per score receipt and the       *)
(* request counter one 200 per observation, but for the requests that are  *)
(* between those steps: no batch is measured that is not receipted.        *)
MetersTrailChain ==
  /\ Cardinality(Receipts("score")) - ece = Cardinality({r \in Requests : st[r] = "observe"})
  /\ ece - reqs = Cardinality({r \in Requests : /\ route[r] = "score" /\ status[r] = 200
                                                /\ st[r] \in {"return", "reply"}})

(* A client that has been answered finds its receipt in every later report *)
(* of this process, though count, validity and text are read under three   *)
(* different holds of the lock; the text never has fewer receipts than the *)
(* count beside it.                                                        *)
ReportsCoverAnswered ==
  \A r \in Done : (status[r] = 200 /\ route[r] \notin Scored) =>
    /\ index[r] >= seen[r].receipts
    /\ route[r] = "receipts" => lines[r] >= index[r]

(* Fail closed: once anybody was answered 503, no request sent later gets  *)
(* a 200 from a scoring or a probing route of this process.                *)
FailClosed ==
  \A r \in Done : (seen[r].down /\ route[r] \in Scored \cup Probes) => status[r] # 200

(* Once the chain is broken only the append that had verified it before is *)
(* completed.  Every other request is refused, also one whose own check    *)
(* was made before the break and whose body was read, or whose result was  *)
(* computed, across it.                                                    *)
NoAppendAfterBreak == Broken => Len(log) <= ceiling

(* The module's types, the bound of the pool among them, and the append    *)
(* that a break must stop.                                                 *)
BreakInv == TypeOK /\ NoAppendAfterBreak

(* The chain's mutex, the loop and the pool never wait for each other in a *)
(* circle, and a client that stops sending holds none of them: whatever    *)
(* other clients do, a request whose input is complete is answered.        *)
Answered ==
  \A r \in Requests :
    ((st[r] = "dispatch" /\ route[r] # "study") \/ st[r] = "await")
      ~> st[r] \in {"done", "gone"}
===============================================================================
