----------------------------- MODULE ServiceProofs -----------------------------
(***************************************************************************)
(* Theorems about Service, for any requests, any size of the pool, any     *)
(* limit on bodies and any number of restarts.                             *)
(***************************************************************************)
EXTENDS Service, FiniteSetTheorems, TLAPS

(***************************************************************************)
(* The inductive invariant.  Most of it speaks of one request.             *)
(***************************************************************************)

Answering == {"return", "reply", "done"}
Away == {"new", "gone"}

(* The stages of a request follow its route; it holds a pool thread and    *)
(* the mutex where it needs them, and has no status before its answer.     *)
OnThread(r) == \/ st[r] \in {"run", "len", "validity", "jsonl", "observe", "return", "compute"}
               \/ st[r] \in {"append", "commit"} /\ route[r] = "score"

Place(r) ==
  /\ st[r] \in {"run", "observe"} => route[r] = "score"
  /\ st[r] \in {"validity", "len"} => route[r] \notin Scored
  /\ st[r] = "jsonl" => route[r] = "receipts"
  /\ st[r] \in {"check", "reading", "await", "compute", "resume"} => route[r] = "study"
  /\ st[r] \in {"append", "commit"} => route[r] \in Scored
  /\ st[r] = "return" => route[r] # "study"
  /\ OnThread(r) => r \in pool
  /\ st[r] = "commit" <=> lock = r
  /\ st[r] \notin Answering \cup {"gone"} => status[r] = 0

PlaceInv == IsFiniteSet(pool) /\ \A r \in Requests : Place(r)

(* Receipt i is that of a scored request which knows its index and answers *)
(* 200, or 500 where the answer is rendered after the append.              *)
Receipted(i) ==
  LET r == log[i]
  IN  /\ route[r] \in Scored /\ index[r] = i - 1
      /\ \/ st[r] = "observe" /\ status[r] = 0
         \/ st[r] \in Answering /\ status[r] = 200
         \/ st[r] \in Answering /\ status[r] = 500 /\ route[r] = "study"

LogInv == \A i \in DOMAIN log : Receipted(i)

(* Who is about to be observed, or is answered 200, has a receipt.         *)
Promised(r) == \/ st[r] = "observe"
               \/ st[r] \in Answering /\ route[r] \in Scored /\ status[r] = 200

Recorded(r) == Promised(r) => \E i \in DOMAIN log : log[i] = r

RecordedInv == \A r \in Requests : Recorded(r)

(* What a client knew when it asked is in the chain still, and what its    *)
(* request has read covers it.                                             *)
Covers(r) ==
  /\ st[r] \notin Away => seen[r].receipts <= Len(log)
  /\ (route[r] = "receipts" /\ st[r] \in {"validity", "jsonl"}) =>
       seen[r].receipts <= index[r] /\ index[r] <= Len(log)
  /\ (route[r] \notin Scored /\ st[r] \in Answering /\ status[r] = 200) =>
       /\ seen[r].receipts <= index[r]
       /\ route[r] = "receipts" => index[r] <= lines[r]

CoversInv == \A r \in Requests : Covers(r)

(* A 503 is the answer of a broken chain, and who has heard of one is on   *)
(* no way to a 200.                                                        *)
Closed(r) ==
  /\ (st[r] \in Answering /\ status[r] = 503) => Broken
  /\ (st[r] \notin Away /\ seen[r].down) =>
       /\ Broken
       /\ route[r] \in Scored \cup Probes =>
            st[r] \notin {"len", "commit", "observe"} /\ status[r] # 200

ClosedInv == \A r \in Requests : Closed(r)

(* The ceiling has room for the append that was verified before the break. *)
CeilingInv == Broken => Len(log) + (IF lock = Nobody THEN 0 ELSE 1) <= ceiling

IInv == /\ TypeOK /\ PlaceInv /\ LogInv /\ RecordedInv /\ MetersTrailChain
        /\ CoversInv /\ ClosedInv /\ CeilingInv

-------------------------------------------------------------------------------
(***************************************************************************)
(* Steps of a request                                                      *)
(***************************************************************************)

(* The types, but for the pool's bound.                                    *)
Codes == {0, 200, 413, 415, 422, 500, 503}

Types ==
  /\ st \in [Requests -> Stages]
  /\ route \in [Requests -> Routes]
  /\ status \in [Requests -> Codes]
  /\ body \in [Requests -> 0 .. MaxBody]
  /\ index \in [Requests -> Nat] /\ lines \in [Requests -> Nat]
  /\ seen \in [Requests -> [receipts : Nat, down : BOOLEAN]]
  /\ pool \subseteq Requests
  /\ loop \in Requests \cup {Nobody} /\ lock \in Requests \cup {Nobody}
  /\ log \in Seq(Requests)
  /\ health \in {"valid", "edited", "nonfinite"} /\ ceiling \in Nat
  /\ ece \in Nat /\ reqs \in Nat /\ restarts \in 0 .. MaxRestarts

(* A step of request r leaves every other request where it is.             *)
Only(r) ==
  /\ \A q \in Requests \ {r} :
       /\ st'[q] = st[q] /\ route'[q] = route[q] /\ status'[q] = status[q]
       /\ index'[q] = index[q] /\ lines'[q] = lines[q] /\ seen'[q] = seen[q]
  /\ health' = health /\ ceiling' = ceiling
  /\ \/ pool' = pool \/ pool' = pool \cup {r} \/ pool' = pool \ {r}
  /\ \/ log' = log /\ index'[r] = index[r] /\ lock' = lock
     \/ log' = log /\ lock' = lock /\ route[r] \notin Scored
     \/ log' = log /\ lock' = r /\ lock = Nobody /\ ~Broken /\ index'[r] = index[r]
     \/ Commit(r)

LEMMA StepOnly ==
  ASSUME TypeOK, PlaceInv, NEW r \in Requests, Serve(r) \/ Outside(r)
  PROVE  Only(r)
<1>1. CASE TakeThread(r)
  BY <1>1
  DEF TypeOK, PlaceInv, Place, Only, TakeThread, FirstStage, Go, chainVars, meters, data
<1>2. CASE Score(r)
  BY <1>2 DEF TypeOK, PlaceInv, Place, Only, Score, Answer, Go, chainVars, meters, data
<1>3. CASE Validity(r)
  BY <1>3 DEF TypeOK, PlaceInv, Place, Only, Validity, Answer, Go, chainVars, meters, data
<1>4. CASE Length(r)
  BY <1>4 DEF TypeOK, PlaceInv, Place, Only, Length, Answer, Go, chainVars, meters, data
<1>5. CASE Jsonl(r)
  BY <1>5 DEF TypeOK, PlaceInv, Place, Only, Jsonl, Answer, Go, chainVars, meters, data
<1>6. CASE Observe(r)
  BY <1>6 DEF TypeOK, PlaceInv, Place, Only, Observe, Answer, Go, chainVars, meters, data
<1>7. CASE Return(r)
  BY <1>7 DEF TypeOK, PlaceInv, Place, Only, Return, Go, chainVars, meters, data
<1>8. CASE EnterLoop(r)
  BY <1>8 DEF TypeOK, PlaceInv, Place, Only, EnterLoop, Go, chainVars, meters, data
<1>9. CASE Check(r)
  BY <1>9 DEF TypeOK, PlaceInv, Place, Only, Check, Answer, Go, chainVars, meters, data
<1>10. CASE Compute(r)
  BY <1>10 DEF TypeOK, PlaceInv, Place, Only, Compute, Go, chainVars, meters, data
<1>11. CASE Computed(r)
  BY <1>11 DEF TypeOK, PlaceInv, Place, Only, Computed, Answer, Go, chainVars, meters, data
<1>12. CASE Resume(r)
  BY <1>12 DEF TypeOK, PlaceInv, Place, Only, Resume, Go, chainVars, meters, data
<1>13. CASE Refuse(r)
  BY <1>13
  DEF TypeOK, PlaceInv, Place, Only, Refuse, Answer, Go, Failed, LeaveLoop, chainVars,
      meters, data
<1>14. CASE Admit(r)
  BY <1>14 DEF TypeOK, PlaceInv, Place, Only, Admit, Go, chainVars, meters, data
<1>15. CASE Commit(r)
  BY <1>15
  DEF TypeOK, PlaceInv, Place, Only, Commit, Answer, Go, After, LeaveLoop, chainVars,
      meters, data
<1>16. CASE Reply(r)
  BY <1>16 DEF TypeOK, PlaceInv, Place, Only, Reply, Go, chainVars, meters, data
<1>17. CASE \E rt \in Asked \cap Routes : Arrive(r, rt)
  BY <1>17 DEF TypeOK, PlaceInv, Place, Only, Arrive, Go, chainVars, meters, data
<1>18. CASE Chunk(r)
  BY <1>18 DEF TypeOK, PlaceInv, Place, Only, Chunk, Answer, Go, chainVars, meters, data
<1>19. CASE Parse(r)
  BY <1>19 DEF TypeOK, PlaceInv, Place, Only, Parse, Answer, Go, chainVars, meters, data
<1>20. CASE Disconnect(r)
  BY <1>20 DEF TypeOK, PlaceInv, Place, Only, Disconnect, Go, chainVars, meters, data
<1> QED
  BY <1>1, <1>2, <1>3, <1>4, <1>5, <1>6, <1>7, <1>8, <1>9, <1>10, <1>11, <1>12, <1>13,
     <1>14, <1>15, <1>16, <1>17, <1>18, <1>19, <1>20
  DEF Serve, Outside

(* Only what is new changes its route and what its client knew.            *)
LEMMA StepKeeps ==
  ASSUME Types, NEW r \in Requests, Serve(r) \/ Outside(r), st[r] # "new"
  PROVE  route'[r] = route[r] /\ seen'[r] = seen[r]
<1>1. CASE TakeThread(r)
  BY <1>1 DEF Types, TakeThread, FirstStage, Go, chainVars, meters, data
<1>2. CASE Score(r)
  BY <1>2 DEF Types, Score, Answer, Go, chainVars, meters, data
<1>3. CASE Validity(r)
  BY <1>3 DEF Types, Validity, Answer, Go, chainVars, meters, data
<1>4. CASE Length(r)
  BY <1>4 DEF Types, Length, Answer, Go, chainVars, meters, data
<1>5. CASE Jsonl(r)
  BY <1>5 DEF Types, Jsonl, Answer, Go, chainVars, meters, data
<1>6. CASE Observe(r)
  BY <1>6 DEF Types, Observe, Answer, Go, chainVars, meters, data
<1>7. CASE Return(r)
  BY <1>7 DEF Types, Return, Go, chainVars, meters, data
<1>8. CASE EnterLoop(r)
  BY <1>8 DEF Types, EnterLoop, Go, chainVars, meters, data
<1>9. CASE Check(r)
  BY <1>9 DEF Types, Check, Answer, Go, chainVars, meters, data
<1>10. CASE Compute(r)
  BY <1>10 DEF Types, Compute, Go, chainVars, meters, data
<1>11. CASE Computed(r)
  BY <1>11 DEF Types, Computed, Answer, Go, chainVars, meters, data
<1>12. CASE Resume(r)
  BY <1>12 DEF Types, Resume, Go, chainVars, meters, data
<1>13. CASE Refuse(r)
  BY <1>13 DEF Types, Refuse, Answer, Go, Failed, LeaveLoop, chainVars, meters, data
<1>14. CASE Admit(r)
  BY <1>14 DEF Types, Admit, Go, chainVars, meters, data
<1>15. CASE Commit(r)
  BY <1>15 DEF Types, Commit, Answer, Go, After, LeaveLoop, chainVars, meters, data
<1>16. CASE Reply(r)
  BY <1>16 DEF Types, Reply, Go, chainVars, meters, data
<1>17. CASE \E rt \in Asked \cap Routes : Arrive(r, rt)
  BY <1>17 DEF Types, Arrive, Go, chainVars, meters, data
<1>18. CASE Chunk(r)
  BY <1>18 DEF Types, Chunk, Answer, Go, chainVars, meters, data
<1>19. CASE Parse(r)
  BY <1>19 DEF Types, Parse, Answer, Go, chainVars, meters, data
<1>20. CASE Disconnect(r)
  BY <1>20 DEF Types, Disconnect, Go, chainVars, meters, data
<1> QED
  BY <1>1, <1>2, <1>3, <1>4, <1>5, <1>6, <1>7, <1>8, <1>9, <1>10, <1>11, <1>12, <1>13,
     <1>14, <1>15, <1>16, <1>17, <1>18, <1>19, <1>20
  DEF Serve, Outside

(* Receipts are counted by naturals, at most as many as there are.         *)
LEMMA CountReceipts ==
  ASSUME log \in Seq(Requests), NEW P, P \subseteq DOMAIN log
  PROVE  IsFiniteSet(P) /\ Cardinality(P) \in Nat /\ Cardinality(P) <= Len(log)
<1>1. DOMAIN log = 1 .. Len(log) /\ Len(log) \in Nat
  OBVIOUS
<1>2. IsFiniteSet(1 .. Len(log)) /\ Cardinality(1 .. Len(log)) = Len(log)
  <2>1. 1 \in Int /\ Len(log) \in Int
    BY <1>1
  <2>2. IsFiniteSet(1 .. Len(log))
           /\ Cardinality(1 .. Len(log)) = IF 1 > Len(log) THEN 0 ELSE Len(log) - 1 + 1
    BY <2>1, FS_Interval
  <2> QED BY <1>1, <2>2
<1>3. P \subseteq 1 .. Len(log)
  BY <1>1
<1>4. IsFiniteSet(P) /\ Cardinality(P) <= Cardinality(1 .. Len(log))
  BY <1>2, <1>3, FS_Subset
<1> QED BY <1>2, <1>4, FS_CardinalityType

(* What the client of an arriving request knows.                           *)
LEMMA ArriveKnows ==
  ASSUME Types, NEW r \in Requests, NEW rt \in Asked \cap Routes, Arrive(r, rt)
  PROVE  /\ seen' \in [Requests -> [receipts : Nat, down : BOOLEAN]]
         /\ seen'[r].receipts <= Len(log)
         /\ seen'[r].down = (\E q \in Done : status[q] = 503)
<1> DEFINE answered == {i \in DOMAIN log : st[log[i]] = "done"}
           down == \E q \in Done : status[q] = 503
<1>1. Cardinality(answered) \in Nat /\ Cardinality(answered) <= Len(log)
  BY CountReceipts DEF Types
<1>2. down \in BOOLEAN
  OBVIOUS
<1>3. seen' = [seen EXCEPT ![r] = [receipts |-> Cardinality(answered), down |-> down]]
  BY DEF Arrive
<1> HIDE DEF answered, down
<1>4. seen'[r] = [receipts |-> Cardinality(answered), down |-> down]
  BY <1>3 DEF Types
<1>5. seen' \in [Requests -> [receipts : Nat, down : BOOLEAN]]
  BY <1>1, <1>2, <1>3 DEF Types
<1> QED BY <1>1, <1>4, <1>5 DEF down

LEMMA Members ==
  /\ "new" \in Stages /\ "dispatch" \in Stages /\ "run" \in Stages /\ "len" \in Stages
  /\ "validity" \in Stages /\ "jsonl" \in Stages /\ "check" \in Stages
  /\ "reading" \in Stages /\ "await" \in Stages /\ "compute" \in Stages
  /\ "resume" \in Stages /\ "append" \in Stages /\ "commit" \in Stages
  /\ "observe" \in Stages /\ "return" \in Stages /\ "reply" \in Stages
  /\ "done" \in Stages /\ "gone" \in Stages
  /\ 200 \in Codes /\ 413 \in Codes /\ 415 \in Codes /\ 422 \in Codes
  /\ 500 \in Codes /\ 503 \in Codes
BY DEF Stages, Codes

(* Every answer has one of the codes.                                      *)
LEMMA StepStatus ==
  ASSUME Types, NEW r \in Requests, Serve(r) \/ Outside(r)
  PROVE  status' \in [Requests -> Codes]
<1>0. status \in [Requests -> Codes]
  BY DEF Types
<1> USE Members
<1>1. CASE TakeThread(r)
  BY <1>1, <1>0 DEF TakeThread, FirstStage, Go
<1>2. CASE Score(r)
  BY <1>2, <1>0 DEF Score, Answer, Go
<1>3. CASE Validity(r)
  BY <1>3, <1>0 DEF Validity, Answer, Go
<1>4. CASE Length(r)
  BY <1>4, <1>0 DEF Length, Answer, Go
<1>5. CASE Jsonl(r)
  BY <1>5, <1>0 DEF Jsonl, Answer, Go
<1>6. CASE Observe(r)
  BY <1>6, <1>0 DEF Observe, Answer, Go
<1>7. CASE Return(r)
  BY <1>7, <1>0 DEF Return, Go
<1>8. CASE EnterLoop(r)
  BY <1>8, <1>0 DEF EnterLoop, Go
<1>9. CASE Check(r)
  BY <1>9, <1>0 DEF Check, Answer, Go
<1>10. CASE Compute(r)
  BY <1>10, <1>0 DEF Compute, Go
<1>11. CASE Computed(r)
  BY <1>11, <1>0 DEF Computed, Answer, Go
<1>12. CASE Resume(r)
  BY <1>12, <1>0 DEF Resume, Go
<1>13. CASE Refuse(r)
  BY <1>13, <1>0 DEF Refuse, Answer, Go, Failed, LeaveLoop
<1>14. CASE Admit(r)
  BY <1>14, <1>0 DEF Admit, Go
<1>15. CASE Commit(r)
  BY <1>15, <1>0 DEF Commit, Answer, Go, After, LeaveLoop
<1>16. CASE Reply(r)
  BY <1>16, <1>0 DEF Reply, Go
<1>17. CASE \E rt \in Asked \cap Routes : Arrive(r, rt)
  BY <1>17, <1>0 DEF Arrive, Go
<1>18. CASE Chunk(r)
  BY <1>18, <1>0 DEF Chunk, Answer, Go
<1>19. CASE Parse(r)
  BY <1>19, <1>0 DEF Parse, Answer, Go
<1>20. CASE Disconnect(r)
  BY <1>20, <1>0 DEF Disconnect, Go
<1> QED
  BY <1>1, <1>2, <1>3, <1>4, <1>5, <1>6, <1>7, <1>8, <1>9, <1>10, <1>11, <1>12, <1>13,
     <1>14, <1>15, <1>16, <1>17, <1>18, <1>19, <1>20
  DEF Serve, Outside

(* A request goes from stage to stage.                                     *)
LEMMA StepStages ==
  ASSUME Types, NEW r \in Requests, Serve(r) \/ Outside(r)
  PROVE  st' \in [Requests -> Stages]
<1>0. st \in [Requests -> Stages]
  BY DEF Types
<1> USE Members
<1>1. CASE TakeThread(r)
  <2>1. route[r] \in {"score", "healthz", "verify", "receipts"}
    BY <1>1 DEF Types, Routes, TakeThread
  <2>2. FirstStage[route[r]] \in Stages
    BY <2>1, Members DEF FirstStage
  <2> QED
    BY <1>0, <1>1, <2>2 DEF TakeThread, Go

<1>2. CASE Score(r)
  BY <1>2, <1>0 DEF Score, Go
<1>3. CASE Validity(r)
  BY <1>3, <1>0 DEF Validity, Go
<1>4. CASE Length(r)
  BY <1>4, <1>0 DEF Length, Go
<1>5. CASE Jsonl(r)
  BY <1>5, <1>0 DEF Jsonl, Go
<1>6. CASE Observe(r)
  BY <1>6, <1>0 DEF Observe, Go
<1>7. CASE Return(r)
  BY <1>7, <1>0 DEF Return, Go
<1>8. CASE EnterLoop(r)
  BY <1>8, <1>0 DEF EnterLoop, Go
<1>9. CASE Check(r)
  BY <1>9, <1>0 DEF Check, Go
<1>10. CASE Compute(r)
  BY <1>10, <1>0 DEF Compute, Go
<1>11. CASE Computed(r)
  BY <1>11, <1>0 DEF Computed, Go
<1>12. CASE Resume(r)
  BY <1>12, <1>0 DEF Resume, Go
<1>13. CASE Refuse(r)
  BY <1>13, <1>0 DEF Refuse, Go, Failed, LeaveLoop
<1>14. CASE Admit(r)
  BY <1>14, <1>0 DEF Admit, Go
<1>15. CASE Commit(r)
  BY <1>15, <1>0 DEF Commit, Go, After, LeaveLoop
<1>16. CASE Reply(r)
  BY <1>16, <1>0 DEF Reply, Go
<1>17. CASE \E rt \in Asked \cap Routes : Arrive(r, rt)
  <2>1. PICK rt \in Asked \cap Routes : Arrive(r, rt)
    BY <1>17
  <2> QED
    BY <1>0, <2>1 DEF Arrive, Go
<1>18. CASE Chunk(r)
  BY <1>18, <1>0 DEF Chunk, Go
<1>19. CASE Parse(r)
  BY <1>19, <1>0 DEF Parse, Go
<1>20. CASE Disconnect(r)
  BY <1>20, <1>0 DEF Disconnect, Go
<1> QED
  BY <1>1, <1>2, <1>3, <1>4, <1>5, <1>6, <1>7, <1>8, <1>9, <1>10, <1>11, <1>12, <1>13,
     <1>14, <1>15, <1>16, <1>17, <1>18, <1>19, <1>20
  DEF Serve, Outside

(* What a request reads is counted.                                        *)
LEMMA StepData ==
  ASSUME Types, NEW r \in Requests, Serve(r) \/ Outside(r)
  PROVE  /\ body' \in [Requests -> 0 .. MaxBody]
         /\ index' \in [Requests -> Nat] /\ lines' \in [Requests -> Nat]
<1>0. /\ body \in [Requests -> 0 .. MaxBody]
      /\ index \in [Requests -> Nat] /\ lines \in [Requests -> Nat]
      /\ Len(log) \in Nat
  BY DEF Types
<1>1. CASE TakeThread(r)
  BY <1>1, <1>0 DEF data, TakeThread, FirstStage, data
<1>2. CASE Score(r)
  BY <1>2, <1>0 DEF data, Score, data
<1>3. CASE Validity(r)
  BY <1>3, <1>0 DEF data, Validity, data
<1>4. CASE Length(r)
  BY <1>4, <1>0 DEF data, Length, data
<1>5. CASE Jsonl(r)
  BY <1>5, <1>0 DEF data, Jsonl, data
<1>6. CASE Observe(r)
  BY <1>6, <1>0 DEF data, Observe, data
<1>7. CASE Return(r)
  BY <1>7, <1>0 DEF data, Return, data
<1>8. CASE EnterLoop(r)
  BY <1>8, <1>0 DEF data, EnterLoop, data
<1>9. CASE Check(r)
  BY <1>9, <1>0 DEF data, Check, data
<1>10. CASE Compute(r)
  BY <1>10, <1>0 DEF data, Compute, data
<1>11. CASE Computed(r)
  BY <1>11, <1>0 DEF data, Computed, data
<1>12. CASE Resume(r)
  BY <1>12, <1>0 DEF data, Resume, data
<1>13. CASE Refuse(r)
  BY <1>13, <1>0 DEF data, Refuse, Failed, LeaveLoop, data
<1>14. CASE Admit(r)
  BY <1>14, <1>0 DEF data, Admit, data
<1>15. CASE Commit(r)
  BY <1>15, <1>0 DEF data, Commit, After, LeaveLoop, data
<1>16. CASE Reply(r)
  BY <1>16, <1>0 DEF data, Reply, data
<1>17. CASE \E rt \in Asked \cap Routes : Arrive(r, rt)
  BY <1>17, <1>0 DEF data, Arrive, data
<1>18. CASE Chunk(r)
  <2>1. CASE body' = body
    BY <1>0, <2>1, <1>18 DEF Chunk
  <2>2. CASE body' = [body EXCEPT ![r] = @ + 1] /\ body[r] + 1 <= MaxBody
    <3>1. body[r] + 1 \in 0 .. MaxBody
      BY <1>0, <2>2
    <3>2. body' \in [Requests -> 0 .. MaxBody]
      <4> DEFINE b == body[r] + 1
      <4>1. body' = [body EXCEPT ![r] = b] /\ b \in 0 .. MaxBody
        BY <2>2, <3>1
      <4> HIDE DEF b
      <4> QED BY <1>0, <4>1
    <3> QED BY <1>0, <3>2, <1>18 DEF Chunk
  <2>3. \/ body' = body
        \/ body' = [body EXCEPT ![r] = @ + 1] /\ body[r] + 1 <= MaxBody
    <3>1. body[r] \in 0 .. MaxBody /\ MaxBody \in Nat
      BY <1>0, ServiceAssumption DEF ServiceAssumption
    <3>2. body[r] + 1 > MaxBody \/ body[r] + 1 <= MaxBody
      BY <3>1
    <3> QED BY <3>2, <1>18 DEF Chunk
  <2> QED BY <2>1, <2>2, <2>3
<1>19. CASE Parse(r)
  BY <1>19, <1>0 DEF data, Parse, data
<1>20. CASE Disconnect(r)
  BY <1>20, <1>0 DEF data, Disconnect, data
<1> QED
  BY <1>1, <1>2, <1>3, <1>4, <1>5, <1>6, <1>7, <1>8, <1>9, <1>10, <1>11, <1>12, <1>13,
     <1>14, <1>15, <1>16, <1>17, <1>18, <1>19, <1>20
  DEF Serve, Outside

LEMMA StepTypes ==
  ASSUME Types, NEW r \in Requests, Serve(r) \/ Outside(r)
  PROVE  Types'
<1>0. /\ status' \in [Requests -> Codes] /\ st' \in [Requests -> Stages]
      /\ body' \in [Requests -> 0 .. MaxBody]
      /\ index' \in [Requests -> Nat] /\ lines' \in [Requests -> Nat]
  BY StepStatus, StepStages, StepData
<1>1. CASE TakeThread(r)
  BY <1>1, <1>0 DEF Types, TakeThread, FirstStage, chainVars, meters, data
<1>2. CASE Score(r)
  BY <1>2, <1>0 DEF Types, Score, chainVars, meters, data
<1>3. CASE Validity(r)
  BY <1>3, <1>0 DEF Types, Validity, chainVars, meters, data
<1>4. CASE Length(r)
  BY <1>4, <1>0 DEF Types, Length, chainVars, meters, data
<1>5. CASE Jsonl(r)
  BY <1>5, <1>0 DEF Types, Jsonl, chainVars, meters, data
<1>6. CASE Observe(r)
  BY <1>6, <1>0, SMTT(30) DEF Types, Observe, chainVars, meters, data
<1>7. CASE Return(r)
  BY <1>7, <1>0 DEF Types, Return, chainVars, meters, data
<1>8. CASE EnterLoop(r)
  BY <1>8, <1>0 DEF Types, EnterLoop, chainVars, meters, data
<1>9. CASE Check(r)
  BY <1>9, <1>0 DEF Types, Check, chainVars, meters, data
<1>10. CASE Compute(r)
  BY <1>10, <1>0 DEF Types, Compute, chainVars, meters, data
<1>11. CASE Computed(r)
  BY <1>11, <1>0 DEF Types, Computed, chainVars, meters, data
<1>12. CASE Resume(r)
  BY <1>12, <1>0 DEF Types, Resume, chainVars, meters, data
<1>13. CASE Refuse(r)
  BY <1>13, <1>0 DEF Types, Refuse, Failed, LeaveLoop, chainVars, meters, data
<1>14. CASE Admit(r)
  BY <1>14, <1>0 DEF Types, Admit, chainVars, meters, data
<1>15. CASE Commit(r)
  BY <1>15, <1>0, SMTT(30) DEF Types, Commit, After, LeaveLoop, chainVars, meters, data
<1>16. CASE Reply(r)
  BY <1>16, <1>0 DEF Types, Reply, chainVars, meters, data
<1>17. CASE \E rt \in Asked \cap Routes : Arrive(r, rt)
  <2>1. PICK rt \in Asked \cap Routes : Arrive(r, rt)
    BY <1>17
  <2> QED
    BY <1>0, <2>1, ArriveKnows
    DEF Types, Arrive, chainVars, meters, data
<1>18. CASE Chunk(r)
  BY <1>18, <1>0 DEF Types, Chunk, chainVars, meters, data
<1>19. CASE Parse(r)
  BY <1>19, <1>0 DEF Types, Parse, chainVars, meters, data
<1>20. CASE Disconnect(r)
  BY <1>20, <1>0 DEF Types, Disconnect, chainVars, meters, data
<1> QED
  BY <1>1, <1>2, <1>3, <1>4, <1>5, <1>6, <1>7, <1>8, <1>9, <1>10, <1>11, <1>12, <1>13,
     <1>14, <1>15, <1>16, <1>17, <1>18, <1>19, <1>20
  DEF Serve, Outside

(* A thread is taken only while the pool has one.                          *)
LEMMA StepPool ==
  ASSUME ServiceAssumption, TypeOK, IsFiniteSet(pool), NEW r \in Requests, Serve(r) \/
     Outside(r)
  PROVE  IsFiniteSet(pool') /\ Cardinality(pool') <= PoolSize
<1>1. CASE pool' = pool
  BY <1>1 DEF TypeOK
<1>2. CASE pool' = pool \ {r}
  <2>1. IsFiniteSet(pool \ {r}) /\ Cardinality(pool \ {r}) <= Cardinality(pool)
    BY FS_Subset
  <2>2. Cardinality(pool \ {r}) \in Nat /\ Cardinality(pool) \in Nat
    BY <2>1, FS_CardinalityType
  <2> QED BY <1>2, <2>1, <2>2 DEF TypeOK, ServiceAssumption
<1>3. CASE pool' = pool \cup {r} /\ Cardinality(pool) < PoolSize
  <2>1. IsFiniteSet(pool \cup {r}) /\ Cardinality(pool) \in Nat
    BY FS_AddElement, FS_CardinalityType
  <2>2. Cardinality(pool \cup {r}) = IF r \in pool THEN Cardinality(pool) ELSE
     Cardinality(pool) + 1
    BY FS_AddElement
  <2> QED BY <1>3, <2>1, <2>2 DEF ServiceAssumption
<1>4. \/ pool' = pool
      \/ pool' = pool \ {r}
      \/ pool' = pool \cup {r} /\ Cardinality(pool) < PoolSize
<2>1. CASE TakeThread(r)
  BY <2>1 DEF chainVars, TakeThread, FirstStage, Go, chainVars, meters, data
<2>2. CASE Score(r)
  BY <2>2 DEF chainVars, Score, Answer, Go, chainVars, meters, data
<2>3. CASE Validity(r)
  BY <2>3 DEF chainVars, Validity, Answer, Go, chainVars, meters, data
<2>4. CASE Length(r)
  BY <2>4 DEF chainVars, Length, Answer, Go, chainVars, meters, data
<2>5. CASE Jsonl(r)
  BY <2>5 DEF chainVars, Jsonl, Answer, Go, chainVars, meters, data
<2>6. CASE Observe(r)
  BY <2>6 DEF chainVars, Observe, Answer, Go, chainVars, meters, data
<2>7. CASE Return(r)
  BY <2>7 DEF chainVars, Return, Go, chainVars, meters, data
<2>8. CASE EnterLoop(r)
  BY <2>8 DEF chainVars, EnterLoop, Go, chainVars, meters, data
<2>9. CASE Check(r)
  BY <2>9 DEF chainVars, Check, Answer, Go, chainVars, meters, data
<2>10. CASE Compute(r)
  BY <2>10 DEF chainVars, Compute, Go, chainVars, meters, data
<2>11. CASE Computed(r)
  BY <2>11 DEF chainVars, Computed, Answer, Go, chainVars, meters, data
<2>12. CASE Resume(r)
  BY <2>12 DEF chainVars, Resume, Go, chainVars, meters, data
<2>13. CASE Refuse(r)
  BY <2>13 DEF chainVars, Refuse, Answer, Go, Failed, LeaveLoop, chainVars, meters, data
<2>14. CASE Admit(r)
  BY <2>14 DEF chainVars, Admit, Go, chainVars, meters, data
<2>15. CASE Commit(r)
  BY <2>15 DEF chainVars, Commit, Answer, Go, After, LeaveLoop, chainVars, meters, data
<2>16. CASE Reply(r)
  BY <2>16 DEF chainVars, Reply, Go, chainVars, meters, data
<2>17. CASE \E rt \in Asked \cap Routes : Arrive(r, rt)
  BY <2>17 DEF chainVars, Arrive, Go, chainVars, meters, data
<2>18. CASE Chunk(r)
  BY <2>18 DEF chainVars, Chunk, Answer, Go, chainVars, meters, data
<2>19. CASE Parse(r)
  BY <2>19 DEF chainVars, Parse, Answer, Go, chainVars, meters, data
<2>20. CASE Disconnect(r)
  BY <2>20 DEF chainVars, Disconnect, Go, chainVars, meters, data
<2> QED
  BY <2>1, <2>2, <2>3, <2>4, <2>5, <2>6, <2>7, <2>8, <2>9, <2>10, <2>11, <2>12, <2>13,
     <2>14, <2>15, <2>16, <2>17, <2>18, <2>19, <2>20
  DEF Serve, Outside
<1> QED BY <1>1, <1>2, <1>3, <1>4

LEMMA NextTypeOK == ASSUME ServiceAssumption, TypeOK, PlaceInv, [Next]_vars PROVE TypeOK'
   /\ IsFiniteSet(pool')
<1>1. ASSUME NEW r \in Requests, Serve(r) \/ Outside(r) PROVE TypeOK' /\ IsFiniteSet(pool')
  <2>1. Types /\ IsFiniteSet(pool)
    BY DEF PlaceInv, TypeOK, Types, Codes
  <2>2. Types'
    BY <1>1, <2>1, StepTypes
  <2>3. IsFiniteSet(pool') /\ Cardinality(pool') <= PoolSize
    BY <1>1, <2>1, StepPool
  <2> QED BY <2>2, <2>3 DEF TypeOK, Types, Codes
<1>2. ASSUME NEW h \in {"edited", "nonfinite"}, Corrupt(h) PROVE TypeOK' /\
   IsFiniteSet(pool')
  BY <1>2, SMTT(30) DEF Corrupt, TypeOK, PlaceInv, Broken, meters, data
<1>3. CASE Restart
  <2>1. IsFiniteSet({}) /\ Cardinality({}) = 0
    BY FS_EmptySet
  <2> QED
    BY <1>3, <2>1 DEF Restart, TypeOK, Stages, data, ServiceAssumption
<1>4. CASE UNCHANGED vars
  BY <1>4 DEF vars, TypeOK, PlaceInv
<1> QED BY <1>1, <1>2, <1>3, <1>4 DEF Next, Quiet

-------------------------------------------------------------------------------
(***************************************************************************)
(* The places of requests                                                  *)
(***************************************************************************)

LEMMA StepPlace ==
  ASSUME ServiceAssumption, TypeOK, PlaceInv, NEW r \in Requests, Serve(r) \/ Outside(r)
  PROVE  Place(r)'
<1> USE DEF Answering
<1>0. Types /\ Place(r)
  BY DEF TypeOK, Types, PlaceInv, Codes
<1>1. CASE TakeThread(r)
  <2>1. route[r] \in {"score", "healthz", "verify", "receipts"}
    BY <1>0, <1>1 DEF Types, Routes, TakeThread
  <2>2. /\ route' = route /\ lock' = lock /\ r \in pool' /\ status'[r] = status[r]
        /\ route[r] = "score" => st'[r] = "run"
        /\ route[r] \in {"healthz", "verify"} => st'[r] = "validity"
        /\ route[r] = "receipts" => st'[r] = "len"
    BY <1>0, <1>1, <2>1 DEF Types, TakeThread, FirstStage, Go, chainVars
  <2> QED
    BY <1>0, <1>1, <2>1, <2>2 DEF Place, OnThread, Scored, TakeThread
<1>2. CASE Score(r)
  BY <1>2, <1>0
  DEF Types, Place, OnThread, Scored, Score, Answer, Go, chainVars, meters, data
<1>3. CASE Validity(r)
  BY <1>3, <1>0
  DEF Types, Place, OnThread, Scored, Validity, Answer, Go, chainVars, meters, data
<1>4. CASE Length(r)
  BY <1>4, <1>0
  DEF Types, Place, OnThread, Scored, Length, Answer, Go, chainVars, meters, data
<1>5. CASE Jsonl(r)
  BY <1>5, <1>0
  DEF Types, Place, OnThread, Scored, Jsonl, Answer, Go, chainVars, meters, data
<1>6. CASE Observe(r)
  BY <1>6, <1>0
  DEF Types, Place, OnThread, Scored, Observe, Answer, Go, chainVars, meters, data
<1>7. CASE Return(r)
  BY <1>7, <1>0 DEF Types, Place, OnThread, Scored, Return, Go, chainVars, meters, data
<1>8. CASE EnterLoop(r)
  BY <1>8, <1>0 DEF Types, Place, OnThread, Scored, EnterLoop, Go, chainVars, meters, data
<1>9. CASE Check(r)
  BY <1>9, <1>0
  DEF Types, Place, OnThread, Scored, Check, Answer, Go, chainVars, meters, data
<1>10. CASE Compute(r)
  BY <1>10, <1>0 DEF Types, Place, OnThread, Scored, Compute, Go, chainVars, meters, data
<1>11. CASE Computed(r)
  BY <1>11, <1>0
  DEF Types, Place, OnThread, Scored, Computed, Answer, Go, chainVars, meters, data
<1>12. CASE Resume(r)
  BY <1>12, <1>0 DEF Types, Place, OnThread, Scored, Resume, Go, chainVars, meters, data
<1>13. CASE Refuse(r)
  BY <1>13, <1>0
  DEF Types, Place, OnThread, Scored, Refuse, Answer, Go, Failed, LeaveLoop, chainVars,
      meters, data
<1>14. CASE Admit(r)
  BY <1>14, <1>0, ServiceAssumption
  DEF Types, Place, OnThread, Scored, Admit, Go, chainVars, meters, data
<1>15. CASE Commit(r)
  BY <1>15, <1>0
  DEF Types, Place, OnThread, Scored, Commit, Answer, Go, After, LeaveLoop, chainVars,
      meters, data
<1>16. CASE Reply(r)
  BY <1>16, <1>0 DEF Types, Place, OnThread, Scored, Reply, Go, chainVars, meters, data
<1>17. CASE \E rt \in Asked \cap Routes : Arrive(r, rt)
  <2>1. PICK rt \in Asked \cap Routes : Arrive(r, rt)
    BY <1>17
  <2> QED
    BY <1>0, <2>1, ArriveKnows
    DEF Types, Place, OnThread, Scored, Arrive, Go, chainVars, meters, data
<1>18. CASE Chunk(r)
  BY <1>18, <1>0
  DEF Types, Place, OnThread, Scored, Chunk, Answer, Go, chainVars, meters, data
<1>19. CASE Parse(r)
  BY <1>19, <1>0
  DEF Types, Place, OnThread, Scored, Parse, Answer, Go, chainVars, meters, data
<1>20. CASE Disconnect(r)
  BY <1>20, <1>0 DEF Types, Place, OnThread, Scored, Disconnect, Go, chainVars, meters, data
<1> QED
  BY <1>1, <1>2, <1>3, <1>4, <1>5, <1>6, <1>7, <1>8, <1>9, <1>10, <1>11, <1>12, <1>13,
     <1>14, <1>15, <1>16, <1>17, <1>18, <1>19, <1>20
  DEF Serve, Outside

LEMMA NextPlace == ASSUME ServiceAssumption, TypeOK, PlaceInv, [Next]_vars PROVE PlaceInv'
<1>1. ASSUME NEW r \in Requests, Serve(r) \/ Outside(r) PROVE PlaceInv'
  BY <1>1, StepPlace, StepOnly, NextTypeOK
  DEF PlaceInv, Place, OnThread, Only, Next, Commit
<1>2. ASSUME NEW h \in {"edited", "nonfinite"}, Corrupt(h) PROVE PlaceInv'
  BY <1>2, NextTypeOK DEF Corrupt, TypeOK, PlaceInv, Place, OnThread, meters, data
<1>3. CASE Restart
  <2>1. IsFiniteSet(pool')
    BY NextTypeOK
  <2>2. ASSUME NEW r \in Requests PROVE Place(r)'
    <3>1. Place(r) /\ ((st'[r] = "new" /\ st[r] = "new") \/ st'[r] = "gone") /\ status' =
       status
      BY <1>3 DEF Restart, PlaceInv
    <3>2. lock' = Nobody /\ Nobody # r
      BY <1>3 DEF Restart, ServiceAssumption
    <3> QED BY <3>1, <3>2 DEF Place, OnThread, Answering
  <2> QED BY <2>1, <2>2 DEF PlaceInv
<1>4. CASE UNCHANGED vars
  BY <1>4 DEF vars, TypeOK, PlaceInv, Place, OnThread
<1> QED BY <1>1, <1>2, <1>3, <1>4 DEF Next, Quiet

-------------------------------------------------------------------------------
(***************************************************************************)
(* The chain and who is in it                                              *)
(***************************************************************************)

LEMMA TypesHold == ASSUME TypeOK PROVE Types
BY DEF TypeOK, Types, Codes

(* The chain only grows, at its end, while the process lives.              *)
LEMMA StepChain ==
  ASSUME Types, NEW r \in Requests, Only(r)
  PROVE  \/ log' = log
         \/ /\ Commit(r) /\ log' = Append(log, r) /\ Len(log) \in Nat
            /\ Len(log') = Len(log) + 1 /\ log'[Len(log) + 1] = r
            /\ DOMAIN log = 1 .. Len(log) /\ DOMAIN log' = 1 .. Len(log) + 1
            /\ \A i \in DOMAIN log : log'[i] = log[i]
<1>1. log \in Seq(Requests) /\ Len(log) \in Nat /\ DOMAIN log = 1 .. Len(log)
  BY DEF Types
<1>2. CASE log' = log
  BY <1>2
<1>3. CASE Commit(r)
  <2>1. log' = Append(log, r)
    BY <1>3 DEF Commit
  <2>2. /\ Len(log') = Len(log) + 1 /\ log'[Len(log) + 1] = r
        /\ DOMAIN log' = 1 .. Len(log) + 1
        /\ \A i \in DOMAIN log : log'[i] = log[i]
    BY <1>1, <2>1
  <2> QED BY <1>1, <1>3, <2>1, <2>2
<1> QED BY <1>2, <1>3 DEF Only

(* A receipted request answers what its receipt says.                      *)
LEMMA StepReceipt ==
  ASSUME Types, NEW r \in Requests, Place(r), Serve(r) \/ Outside(r), Only(r),
         NEW i \in DOMAIN log, log[i] = r, Receipted(i)
  PROVE  log' = log /\ Receipted(i)'
<1>0. /\ st \in [Requests -> Stages] /\ status \in [Requests -> Codes] /\ Place(r)
      /\ st[r] \in {"observe"} \cup Answering
      /\ route[r] \in Scored /\ index[r] = i - 1
      /\ st[r] = "observe" => status[r] = 0
      /\ st[r] \in Answering => \/ status[r] = 200
                                \/ status[r] = 500 /\ route[r] = "study"
  BY DEF Types, Receipted, Answering
<1>1. st[r] # "new"
  BY <1>0 DEF Answering
<1>2. route'[r] = route[r]
  BY <1>1, StepKeeps
<1>3. log' = log /\ index'[r] = index[r]
  BY <1>0 DEF Only, Commit, Answering
<1>4. \/ st[r] = "observe" /\ st'[r] = "return" /\ status'[r] = 200
      \/ st[r] = "return" /\ st'[r] = "reply" /\ status'[r] = status[r]
      \/ st[r] = "reply" /\ st'[r] = "done" /\ status'[r] = status[r]
  <2>1. CASE TakeThread(r)
    BY <1>0, <2>1 DEF Answering, TakeThread
  <2>2. CASE Score(r)
    BY <1>0, <2>2 DEF Answering, Score
  <2>3. CASE Validity(r)
    BY <1>0, <2>3 DEF Answering, Validity
  <2>4. CASE Length(r)
    BY <1>0, <2>4 DEF Answering, Length
  <2>5. CASE Jsonl(r)
    BY <1>0, <2>5 DEF Answering, Jsonl
  <2>6. CASE Observe(r)
    BY <1>0, <2>6 DEF Answering, Observe, Answer, Go
  <2>7. CASE Return(r)
    BY <1>0, <2>7 DEF Answering, Return, Go
  <2>8. CASE EnterLoop(r)
    BY <1>0, <2>8 DEF Answering, EnterLoop
  <2>9. CASE Check(r)
    BY <1>0, <2>9 DEF Answering, Check
  <2>10. CASE Compute(r)
    BY <1>0, <2>10 DEF Answering, Compute
  <2>11. CASE Computed(r)
    BY <1>0, <2>11 DEF Answering, Computed
  <2>12. CASE Resume(r)
    BY <1>0, <2>12 DEF Answering, Resume
  <2>13. CASE Refuse(r)
    BY <1>0, <2>13 DEF Answering, Refuse
  <2>14. CASE Admit(r)
    BY <1>0, <2>14 DEF Answering, Admit
  <2>15. CASE Commit(r)
    BY <1>0, <2>15 DEF Answering, Commit
  <2>16. CASE Reply(r)
    BY <1>0, <2>16 DEF Answering, Reply, Go
  <2>17. CASE \E rt \in Asked \cap Routes : Arrive(r, rt)
    BY <1>0, <2>17 DEF Answering, Arrive
  <2>18. CASE Chunk(r)
    BY <1>0, <2>18 DEF Answering, Chunk
  <2>19. CASE Parse(r)
    BY <1>0, <2>19 DEF Answering, Parse
  <2>20. CASE Disconnect(r)
    BY <1>0, <2>20 DEF Answering, Disconnect
  <2> QED
    BY <2>1, <2>2, <2>3, <2>4, <2>5, <2>6, <2>7, <2>8, <2>9, <2>10, <2>11, <2>12, <2>13,
       <2>14, <2>15, <2>16, <2>17, <2>18, <2>19, <2>20
    DEF Serve, Outside
<1>5. \/ st'[r] = "observe" /\ status'[r] = 0
      \/ st'[r] \in Answering /\ status'[r] = 200
      \/ st'[r] \in Answering /\ status'[r] = 500 /\ route[r] = "study"
  BY <1>0, <1>4 DEF Answering, Place, Scored
<1> QED BY <1>0, <1>2, <1>3, <1>5 DEF Receipted

LEMMA StepLog ==
  ASSUME TypeOK, PlaceInv, LogInv, NEW r \in Requests, Serve(r) \/ Outside(r)
  PROVE  LogInv'
<1>1. Types /\ Place(r) /\ Only(r)
  BY TypesHold, StepOnly DEF PlaceInv
<1>2. log \in Seq(Requests) /\ \A i \in DOMAIN log : log[i] \in Requests
  BY <1>1 DEF Types
<1>3. ASSUME NEW i \in DOMAIN log, log'[i] = log[i]
      PROVE  Receipted(i)'
  <2>1. CASE log[i] = r
    BY <1>1, <2>1, StepReceipt DEF LogInv
  <2>2. CASE log[i] # r
    BY <1>1, <1>2, <1>3, <2>2 DEF LogInv, Receipted, Only
  <2> QED BY <2>1, <2>2
<1>4. CASE log' = log
  BY <1>3, <1>4 DEF LogInv
<1>5. ASSUME Commit(r), Len(log) \in Nat, DOMAIN log = 1 .. Len(log),
             DOMAIN log' = 1 .. Len(log) + 1, log'[Len(log) + 1] = r,
             \A i \in DOMAIN log : log'[i] = log[i]
      PROVE  LogInv'
  <2> PICK n : n = Len(log) + 1
    OBVIOUS
  <2>1. Receipted(n)'
    <3>1. /\ route' = route /\ route[r] \in Scored /\ index'[r] = Len(log)
          /\ status[r] = 0
          /\ \/ route[r] = "score" /\ st'[r] = "observe" /\ status'[r] = status[r]
             \/ route[r] = "study" /\ st'[r] = "reply" /\ status'[r] \in {200, 500}
      BY <1>1, <1>5 DEF Types, Place, Commit, Go, Answer, After, Scored, Answering
    <3>2. Len(log) = n - 1 /\ log'[n] = r
      BY <1>5
    <3> QED BY <1>5, <3>1, <3>2 DEF Receipted, Answering
  <2>2. \A i \in DOMAIN log' : i \in DOMAIN log \/ i = n
    BY <1>5
  <2> QED BY <1>3, <1>5, <2>1, <2>2 DEF LogInv
<1> QED BY <1>1, <1>4, <1>5, StepChain

LEMMA NextLogInv ==
  ASSUME ServiceAssumption, TypeOK, PlaceInv, LogInv, [Next]_vars
  PROVE  LogInv'
<1>1. ASSUME NEW r \in Requests, Serve(r) \/ Outside(r) PROVE LogInv'
  BY <1>1, StepLog
<1>2. ASSUME NEW h \in {"edited", "nonfinite"}, Corrupt(h) PROVE LogInv'
  BY <1>2 DEF Corrupt, LogInv, Receipted, data
<1>3. CASE Restart
  BY <1>3 DEF Restart, LogInv
<1>4. CASE UNCHANGED vars
  BY <1>4 DEF vars, LogInv, Receipted
<1> QED BY <1>1, <1>2, <1>3, <1>4 DEF Next, Quiet

(* A receipt stays, and one is given before it is told.                    *)
LEMMA StepRecorded ==
  ASSUME TypeOK, PlaceInv, RecordedInv, NEW r \in Requests, Serve(r) \/ Outside(r)
  PROVE  RecordedInv'
<1>0. /\ Types /\ Place(r) /\ Recorded(r) /\ Only(r)
      /\ st \in [Requests -> Stages] /\ status \in [Requests -> Codes]
      /\ route \in [Requests -> Routes]
  BY TypesHold, StepOnly DEF PlaceInv, RecordedInv, Types
<1>1. ASSUME NEW q \in Requests, \E i \in DOMAIN log : log[i] = q
      PROVE  \E i \in DOMAIN log' : log'[i] = q
  BY <1>0, <1>1, StepChain
<1>2. ASSUME NEW q \in Requests \ {r} PROVE Recorded(q)'
  BY <1>0, <1>1, <1>2 DEF RecordedInv, Recorded, Promised, Only
<1>3. \/ st'[r] \notin {"observe"} \cup Answering
      \/ st'[r] \in Answering /\ status'[r] # 200
      \/ st'[r] \in Answering /\ route'[r] \notin Scored
      \/ st[r] = "observe" /\ route'[r] = route[r]
      \/ /\ st[r] \in Answering /\ st'[r] \in Answering
         /\ route'[r] = route[r] /\ status'[r] = status[r]
      \/ Commit(r)
  <2>1. CASE TakeThread(r)
    <3>1. route[r] \in {"score", "healthz", "verify", "receipts"}
      BY <1>0, <2>1 DEF Routes, TakeThread
    <3> QED
      BY <1>0, <2>1, <3>1 DEF Answering, TakeThread, FirstStage, Go
  <2>2. CASE Score(r)
    BY <2>2, <1>0 DEF Place, Scored, Answering, Score, Answer, Go
  <2>3. CASE Validity(r)
    BY <2>3, <1>0 DEF Place, Scored, Answering, Validity, Answer, Go
  <2>4. CASE Length(r)
    BY <2>4, <1>0 DEF Place, Scored, Answering, Length, Answer, Go
  <2>5. CASE Jsonl(r)
    BY <2>5, <1>0 DEF Place, Scored, Answering, Jsonl, Answer, Go
  <2>6. CASE Observe(r)
    BY <2>6, <1>0 DEF Place, Scored, Answering, Observe, Answer, Go
  <2>7. CASE Return(r)
    BY <2>7, <1>0 DEF Place, Scored, Answering, Return, Go
  <2>8. CASE EnterLoop(r)
    BY <2>8, <1>0 DEF Place, Scored, Answering, EnterLoop, Go
  <2>9. CASE Check(r)
    BY <2>9, <1>0 DEF Place, Scored, Answering, Check, Answer, Go
  <2>10. CASE Compute(r)
    BY <2>10, <1>0 DEF Place, Scored, Answering, Compute, Go
  <2>11. CASE Computed(r)
    BY <2>11, <1>0 DEF Place, Scored, Answering, Computed, Answer, Go
  <2>12. CASE Resume(r)
    BY <2>12, <1>0 DEF Place, Scored, Answering, Resume, Go
  <2>13. CASE Refuse(r)
    BY <2>13, <1>0 DEF Place, Scored, Answering, Refuse, Answer, Go, Failed, LeaveLoop
  <2>14. CASE Admit(r)
    BY <2>14, <1>0 DEF Place, Scored, Answering, Admit, Go
  <2>15. CASE Commit(r)
    BY <2>15, <1>0 DEF Place, Scored, Answering, Commit, Answer, Go, After, LeaveLoop
  <2>16. CASE Reply(r)
    BY <2>16, <1>0 DEF Place, Scored, Answering, Reply, Go
  <2>17. CASE \E rt \in Asked \cap Routes : Arrive(r, rt)
    <3>1. PICK rt \in Asked \cap Routes : Arrive(r, rt)
      BY <2>17
    <3> QED
      BY <1>0, <3>1 DEF Answering, Arrive, Go
  <2>18. CASE Chunk(r)
    BY <2>18, <1>0 DEF Place, Scored, Answering, Chunk, Answer, Go
  <2>19. CASE Parse(r)
    BY <2>19, <1>0 DEF Place, Scored, Answering, Parse, Answer, Go
  <2>20. CASE Disconnect(r)
    BY <2>20, <1>0 DEF Place, Scored, Answering, Disconnect, Go
  <2> QED
    BY <2>1, <2>2, <2>3, <2>4, <2>5, <2>6, <2>7, <2>8, <2>9, <2>10, <2>11, <2>12, <2>13,
       <2>14, <2>15, <2>16, <2>17, <2>18, <2>19, <2>20
    DEF Serve, Outside
<1>4. ASSUME Commit(r) PROVE Recorded(r)'
  <2>1. \E i \in DOMAIN log' : log'[i] = r
    <3>1. log' = Append(log, r) /\ log \in Seq(Requests)
      BY <1>0, <1>4 DEF Types, Commit
    <3>2. /\ Len(log) \in Nat /\ DOMAIN log' = 1 .. Len(log) + 1
          /\ log'[Len(log) + 1] = r
      BY <3>1
    <3>3. Len(log) + 1 \in DOMAIN log'
      BY <3>2
    <3> QED BY <3>2, <3>3
  <2> QED BY <2>1 DEF Recorded
<1>5. Recorded(r)'
  <2>1. CASE ~Promised(r)'
    BY <2>1 DEF Recorded
  <2>2. CASE Promised(r)
    BY <1>0, <1>1, <2>2 DEF Recorded
  <2>3. Promised(r) \/ ~Promised(r)' \/ Commit(r)
    BY <1>3 DEF Promised, Answering
  <2> QED BY <1>4, <2>1, <2>2, <2>3
<1> QED BY <1>2, <1>5 DEF RecordedInv

LEMMA NextRecordedInv ==
  ASSUME ServiceAssumption, TypeOK, PlaceInv, RecordedInv, [Next]_vars
  PROVE  RecordedInv'
<1>1. ASSUME NEW r \in Requests, Serve(r) \/ Outside(r) PROVE RecordedInv'
  BY <1>1, StepRecorded
<1>2. ASSUME NEW h \in {"edited", "nonfinite"}, Corrupt(h) PROVE RecordedInv'
  BY <1>2 DEF Corrupt, RecordedInv, Recorded, Promised
<1>3. CASE Restart
  BY <1>3 DEF Restart, RecordedInv, Recorded, Promised, Answering
<1>4. CASE UNCHANGED vars
  BY <1>4 DEF vars, RecordedInv, Recorded, Promised
<1> QED BY <1>1, <1>2, <1>3, <1>4 DEF Next, Quiet

-------------------------------------------------------------------------------
(***************************************************************************)
(* The meters                                                              *)
(***************************************************************************)

Observing == {q \in Requests : st[q] = "observe"}
Uncounted == {q \in Requests : /\ route[q] = "score" /\ status[q] = 200
                               /\ st[q] \in {"return", "reply"}}

(* Both of the waiting sets are finite, whatever Requests is.              *)
LEMMA MetersFinite ==
  ASSUME TypeOK, PlaceInv, RecordedInv
  PROVE  IsFiniteSet(Observing) /\ IsFiniteSet(Uncounted)
<1>1. IsFiniteSet(Observing)
  <2>1. Observing \subseteq pool
    BY DEF Observing, PlaceInv, Place, OnThread
  <2> QED BY <2>1, FS_Subset DEF PlaceInv
<1>2. IsFiniteSet(Uncounted)
  <2> DEFINE receipts == {i \in DOMAIN log : log[i] \in Uncounted}
             f == [i \in receipts |-> log[i]]
  <2>1. IsFiniteSet(receipts)
    BY CountReceipts DEF TypeOK
  <2>2. \A q \in Uncounted : \E i \in receipts : f[i] = q
    BY DEF Uncounted, RecordedInv, Recorded, Promised, Answering, Scored
  <2>3. f \in Surjection(receipts, Uncounted)
    BY <2>2 DEF Surjection
  <2> QED BY <2>1, <2>3, FS_Surjection
<1> QED BY <1>1, <1>2

(* The route of a receipt is that of its request for good.                 *)
LEMMA RoutesStay ==
  ASSUME TypeOK, PlaceInv, LogInv, NEW r \in Requests, Serve(r) \/ Outside(r)
  PROVE  \A i \in DOMAIN log : log[i] \in Requests /\ route'[log[i]] = route[log[i]]
<1>1. Types /\ Only(r)
  BY TypesHold, StepOnly
<1> TAKE i \in DOMAIN log
<1>2. log[i] \in Requests /\ st[log[i]] # "new"
  <2>1. log[i] \in Requests
    BY <1>1 DEF Types
  <2>2. st[log[i]] = "observe" \/ st[log[i]] \in Answering
    BY DEF LogInv, Receipted
  <2> QED BY <2>1, <2>2 DEF Answering
<1>3. CASE log[i] = r
  BY <1>1, <1>2, <1>3, StepKeeps
<1>4. CASE log[i] # r
  BY <1>1, <1>2, <1>4 DEF Only
<1> QED BY <1>2, <1>3, <1>4

(* Which of the counted things a step changes.                             *)
LEMMA StepCounts ==
  ASSUME TypeOK, PlaceInv, NEW r \in Requests, Serve(r) \/ Outside(r)
  PROVE  \/ /\ Observing' = Observing /\ Uncounted' = Uncounted
            /\ ece' = ece /\ reqs' = reqs
            /\ Commit(r) => route[r] = "study"
         \/ /\ Observing' = Observing \cup {r} /\ r \notin Observing
            /\ Uncounted' = Uncounted
            /\ ece' = ece /\ reqs' = reqs /\ Commit(r) /\ route[r] = "score"
         \/ /\ Observing' = Observing \ {r} /\ r \in Observing
            /\ Uncounted' = Uncounted \cup {r} /\ r \notin Uncounted
            /\ ece' = ece + 1 /\ reqs' = reqs /\ ~Commit(r)
         \/ /\ Observing' = Observing
            /\ Uncounted' = Uncounted \ {r} /\ r \in Uncounted
            /\ ece' = ece /\ reqs' = reqs + 1 /\ ~Commit(r)
<1>0. /\ Place(r) /\ Only(r)
      /\ st \in [Requests -> Stages] /\ status \in [Requests -> Codes]
      /\ route \in [Requests -> Routes]
  BY TypesHold, StepOnly DEF PlaceInv, Types
<1> DEFINE Waits(q) == route[q] = "score" /\ status[q] = 200 /\ st[q] \in {"return",
   "reply"}
<1>1. \A q \in Requests \ {r} : /\ (q \in Observing)' <=> q \in Observing
                                /\ (q \in Uncounted)' <=> q \in Uncounted
  BY <1>0 DEF Only, Observing, Uncounted
<1>2. ASSUME ~(st'[r] = "observe") /\ ~(st[r] = "observe"),
             (Waits(r))' <=> Waits(r)
      PROVE  Observing' = Observing /\ Uncounted' = Uncounted
  BY <1>1, <1>2 DEF Observing, Uncounted
<1> HIDE DEF Waits
<1>3. \/ /\ st[r] # "observe" /\ st'[r] # "observe"
         /\ (Waits(r))' <=> Waits(r)
         /\ ece' = ece /\ reqs' = reqs /\ ~Commit(r)
      \/ Commit(r)
      \/ Observe(r)
      \/ Reply(r) /\ Waits(r)
  <2>1. CASE TakeThread(r)
    <3>1. route[r] \in {"score", "healthz", "verify", "receipts"}
      BY <1>0, <2>1 DEF Routes, TakeThread
    <3> QED
      BY <1>0, <2>1, <3>1 DEF TakeThread, meters, Waits, Commit, FirstStage, Go
  <2>2. CASE Score(r)
    BY <2>2, <1>0 DEF Place, Scored, Answering, Waits, Commit, Score, Answer, Go, meters
  <2>3. CASE Validity(r)
    BY <2>3, <1>0 DEF Place, Scored, Answering, Waits, Commit, Validity, Answer, Go, meters
  <2>4. CASE Length(r)
    BY <2>4, <1>0 DEF Place, Scored, Answering, Waits, Commit, Length, Answer, Go, meters
  <2>5. CASE Jsonl(r)
    BY <2>5, <1>0 DEF Place, Scored, Answering, Waits, Commit, Jsonl, Answer, Go, meters
  <2>6. CASE Observe(r)
    BY <2>6, <1>0 DEF Place, Scored, Answering, Waits, Commit, Observe, Answer, Go, meters
  <2>7. CASE Return(r)
    BY <2>7, <1>0 DEF Place, Scored, Answering, Waits, Commit, Return, Go, meters
  <2>8. CASE EnterLoop(r)
    BY <2>8, <1>0 DEF Place, Scored, Answering, Waits, Commit, EnterLoop, Go, meters
  <2>9. CASE Check(r)
    BY <2>9, <1>0 DEF Place, Scored, Answering, Waits, Commit, Check, Answer, Go, meters
  <2>10. CASE Compute(r)
    BY <2>10, <1>0 DEF Place, Scored, Answering, Waits, Commit, Compute, Go, meters
  <2>11. CASE Computed(r)
    BY <2>11, <1>0 DEF Place, Scored, Answering, Waits, Commit, Computed, Answer, Go, meters
  <2>12. CASE Resume(r)
    BY <2>12, <1>0 DEF Place, Scored, Answering, Waits, Commit, Resume, Go, meters
  <2>13. CASE Refuse(r)
    BY <2>13, <1>0
    DEF Place, Scored, Answering, Waits, Commit, Refuse, Answer, Go, Failed, LeaveLoop,
        meters
  <2>14. CASE Admit(r)
    BY <2>14, <1>0 DEF Place, Scored, Answering, Waits, Commit, Admit, Go, meters
  <2>15. CASE Commit(r)
    BY <2>15, <1>0
    DEF Place, Scored, Answering, Waits, Commit, Answer, Go, After, LeaveLoop, meters
  <2>16. CASE Reply(r)
    BY <2>16, <1>0 DEF Place, Scored, Answering, Waits, Commit, Reply, Go, meters
  <2>17. CASE \E rt \in Asked \cap Routes : Arrive(r, rt)
    <3>1. PICK rt \in Asked \cap Routes : Arrive(r, rt)
      BY <2>17
    <3> QED
      BY <1>0, <3>1 DEF Arrive, meters, Waits, Commit, Place, Answering, Go
  <2>18. CASE Chunk(r)
    BY <2>18, <1>0 DEF Place, Scored, Answering, Waits, Commit, Chunk, Answer, Go, meters
  <2>19. CASE Parse(r)
    BY <2>19, <1>0 DEF Place, Scored, Answering, Waits, Commit, Parse, Answer, Go, meters
  <2>20. CASE Disconnect(r)
    BY <2>20, <1>0 DEF Place, Scored, Answering, Waits, Commit, Disconnect, Go, meters
  <2> QED
    BY <2>1, <2>2, <2>3, <2>4, <2>5, <2>6, <2>7, <2>8, <2>9, <2>10, <2>11, <2>12, <2>13,
       <2>14, <2>15, <2>16, <2>17, <2>18, <2>19, <2>20
    DEF Serve, Outside
<1>4. CASE Commit(r)
  <2>1. /\ st[r] = "commit" /\ ~Waits(r) /\ ~(Waits(r))'
        /\ ece' = ece /\ reqs' = reqs
        /\ \/ route[r] = "score" /\ st'[r] = "observe"
           \/ route[r] = "study" /\ st'[r] = "reply"
    BY <1>0, <1>4 DEF Commit, Go, After, Place, Scored, Waits, meters
  <2>2. CASE route[r] = "score"
    <3>1. Observing' = Observing \cup {r} /\ r \notin Observing
      BY <1>1, <2>1, <2>2 DEF Observing
    <3>2. Uncounted' = Uncounted
      BY <1>1, <2>1 DEF Uncounted, Waits
    <3> QED BY <1>4, <2>1, <2>2, <3>1, <3>2
  <2>3. CASE route[r] = "study"
    BY <1>2, <2>1, <2>3
  <2> QED BY <2>1, <2>2, <2>3
<1>5. CASE Observe(r)
  <2>1. /\ st[r] = "observe" /\ st'[r] = "return" /\ status'[r] = 200 /\ route' = route
        /\ route[r] = "score" /\ ece' = ece + 1 /\ reqs' = reqs
    BY <1>0, <1>5 DEF Observe, Answer, Go, Place
  <2>2. Observing' = Observing \ {r} /\ r \in Observing
    BY <1>1, <2>1 DEF Observing
  <2>3. Uncounted' = Uncounted \cup {r} /\ r \notin Uncounted
    BY <1>1, <2>1 DEF Uncounted
  <2>4. ~Commit(r)
    BY <2>1 DEF Commit
  <2> QED BY <2>1, <2>2, <2>3, <2>4
<1>6. CASE Reply(r) /\ Waits(r)
  <2>1. /\ st[r] = "reply" /\ st'[r] = "done" /\ route' = route /\ status' = status
        /\ ece' = ece /\ reqs' = reqs + 1
    BY <1>0, <1>6 DEF Reply, Go, Waits
  <2>2. Observing' = Observing
    BY <1>1, <2>1 DEF Observing
  <2>3. Uncounted' = Uncounted \ {r} /\ r \in Uncounted
    BY <1>1, <1>6, <2>1 DEF Uncounted, Waits
  <2>4. ~Commit(r)
    BY <2>1 DEF Commit
  <2> QED BY <2>1, <2>2, <2>3, <2>4
<1>7. CASE /\ st[r] # "observe" /\ st'[r] # "observe"
           /\ (Waits(r))' <=> Waits(r)
           /\ ece' = ece /\ reqs' = reqs /\ ~Commit(r)
  <2>1. Observing' = Observing /\ Uncounted' = Uncounted
    BY <1>2, <1>7
  <2> QED BY <1>7, <2>1
<1> QED BY <1>3, <1>4, <1>5, <1>6, <1>7

LEMMA StepMeters ==
  ASSUME TypeOK, PlaceInv, LogInv, RecordedInv, MetersTrailChain,
         NEW r \in Requests, Serve(r) \/ Outside(r)
  PROVE  MetersTrailChain'
<1> DEFINE R == Receipts("score")
<1>0. Types /\ Only(r)
  BY TypesHold, StepOnly
<1>1. /\ IsFiniteSet(Observing) /\ IsFiniteSet(Uncounted) /\ IsFiniteSet(R)
      /\ Cardinality(Observing) \in Nat /\ Cardinality(Uncounted) \in Nat
      /\ Cardinality(R) \in Nat /\ ece \in Nat /\ reqs \in Nat
  <2>1. IsFiniteSet(R)
    BY <1>0, CountReceipts DEF Types, Receipts
  <2> QED BY <1>0, <2>1, MetersFinite, FS_CardinalityType DEF Types
<1>2. /\ Cardinality(R) - ece = Cardinality(Observing)
      /\ ece - reqs = Cardinality(Uncounted)
  BY DEF MetersTrailChain, Observing, Uncounted
<1>3. \A i \in DOMAIN log : route'[log[i]] = route[log[i]]
  BY RoutesStay
<1>4. ASSUME ~Commit(r) \/ route[r] = "study" PROVE R' = R
  <2>1. CASE log' = log
    BY <1>3, <2>1 DEF Receipts
  <2>2. ASSUME Commit(r), route[r] = "study", Len(log) \in Nat,
               DOMAIN log = 1 .. Len(log), DOMAIN log' = 1 .. Len(log) + 1,
               log'[Len(log) + 1] = r, \A i \in DOMAIN log : log'[i] = log[i]
        PROVE  R' = R
    <3> PICK n : n = Len(log) + 1
      OBVIOUS
    <3>1. \A i \in DOMAIN log' : i \in DOMAIN log \/ i = n
      BY <2>2
    <3>2. route'[log'[n]] = "study" /\ \A i \in DOMAIN log : i \in DOMAIN log'
      BY <2>2 DEF Commit
    <3> QED BY <1>3, <2>2, <3>1, <3>2 DEF Receipts
  <2> QED BY <1>0, <1>4, <2>1, <2>2, StepChain
<1>5. ASSUME Commit(r), route[r] = "score"
      PROVE  \E n : n \notin R /\ R' = R \cup {n}
  <2>1. /\ Len(log) \in Nat /\ DOMAIN log = 1 .. Len(log)
        /\ DOMAIN log' = 1 .. Len(log) + 1
        /\ log'[Len(log) + 1] = r /\ \A i \in DOMAIN log : log'[i] = log[i]
    <3>1. log' = Append(log, r) /\ log \in Seq(Requests)
      BY <1>0, <1>5 DEF Types, Commit
    <3> QED BY <3>1
  <2> PICK n : n = Len(log) + 1
    OBVIOUS
  <2>2. /\ n \notin DOMAIN log /\ n \in DOMAIN log' /\ log'[n] = r
        /\ \A i : i \in DOMAIN log' <=> i \in DOMAIN log \/ i = n
    BY <2>1
  <2>3. route'[log'[n]] = "score"
    BY <1>5, <2>2 DEF Commit
  <2>4. n \notin R /\ R' = R \cup {n}
    BY <1>3, <2>1, <2>2, <2>3 DEF Receipts
  <2> QED BY <2>4
<1> HIDE DEF R
<1>6. CASE /\ Observing' = Observing /\ Uncounted' = Uncounted
           /\ ece' = ece /\ reqs' = reqs
           /\ Commit(r) => route[r] = "study"
  <2>1. R' = R
    BY <1>4, <1>6
  <2> QED BY <1>2, <1>6, <2>1 DEF MetersTrailChain, R, Observing, Uncounted
<1>7. CASE /\ Observing' = Observing \cup {r} /\ r \notin Observing
           /\ Uncounted' = Uncounted
           /\ ece' = ece /\ reqs' = reqs /\ Commit(r) /\ route[r] = "score"
  <2>1. Cardinality(R') = Cardinality(R) + 1
    BY <1>1, <1>5, <1>7, FS_AddElement
  <2>2. Cardinality(Observing') = Cardinality(Observing) + 1
    BY <1>1, <1>7, FS_AddElement
  <2>3. /\ Cardinality(R') - ece' = Cardinality(Observing')
        /\ ece' - reqs' = Cardinality(Uncounted')
    BY <1>1, <1>2, <1>7, <2>1, <2>2
  <2> QED BY <2>3 DEF MetersTrailChain, R, Observing, Uncounted
<1>8. CASE /\ Observing' = Observing \ {r} /\ r \in Observing
           /\ Uncounted' = Uncounted \cup {r} /\ r \notin Uncounted
           /\ ece' = ece + 1 /\ reqs' = reqs /\ ~Commit(r)
  <2>1. R' = R
    BY <1>4, <1>8
  <2>2. Cardinality(Observing') = Cardinality(Observing) - 1
    BY <1>1, <1>8, FS_RemoveElement
  <2>3. Cardinality(Uncounted') = Cardinality(Uncounted) + 1
    BY <1>1, <1>8, FS_AddElement
  <2>4. /\ Cardinality(R') - ece' = Cardinality(Observing')
        /\ ece' - reqs' = Cardinality(Uncounted')
    BY <1>1, <1>2, <1>8, <2>1, <2>2, <2>3
  <2> QED BY <2>4 DEF MetersTrailChain, R, Observing, Uncounted
<1>9. CASE /\ Observing' = Observing
           /\ Uncounted' = Uncounted \ {r} /\ r \in Uncounted
           /\ ece' = ece /\ reqs' = reqs + 1 /\ ~Commit(r)
  <2>1. R' = R
    BY <1>4, <1>9
  <2>2. Cardinality(Uncounted') = Cardinality(Uncounted) - 1
    BY <1>1, <1>9, FS_RemoveElement
  <2>3. /\ Cardinality(R') - ece' = Cardinality(Observing')
        /\ ece' - reqs' = Cardinality(Uncounted')
    BY <1>1, <1>2, <1>9, <2>1, <2>2
  <2> QED BY <2>3 DEF MetersTrailChain, R, Observing, Uncounted
<1> QED BY <1>6, <1>7, <1>8, <1>9, StepCounts

LEMMA NextMetersTrailChain ==
  ASSUME ServiceAssumption, TypeOK, PlaceInv, LogInv, RecordedInv, MetersTrailChain,
     [Next]_vars
  PROVE  MetersTrailChain'
<1>1. ASSUME NEW r \in Requests, Serve(r) \/ Outside(r) PROVE MetersTrailChain'
  BY <1>1, StepMeters
<1>2. ASSUME NEW h \in {"edited", "nonfinite"}, Corrupt(h) PROVE MetersTrailChain'
  BY <1>2 DEF Corrupt, MetersTrailChain, Receipts, meters
<1>3. CASE Restart
  <2>1. Receipts("score")' = {} /\ Observing' = {} /\ Uncounted' = {} /\ ece' = 0 /\ reqs'
     = 0
    BY <1>3 DEF Restart, Receipts, Observing, Uncounted
  <2>2. Cardinality({}) = 0
    BY FS_EmptySet
  <2>3. /\ Cardinality(Receipts("score")') - ece' = Cardinality(Observing')
        /\ ece' - reqs' = Cardinality(Uncounted')
    BY <2>1, <2>2
  <2> QED BY <2>3 DEF MetersTrailChain, Observing, Uncounted
<1>4. CASE UNCHANGED vars
  BY <1>4 DEF vars, MetersTrailChain, Receipts
<1> QED BY <1>1, <1>2, <1>3, <1>4 DEF Next, Quiet

-------------------------------------------------------------------------------
(***************************************************************************)
(* What clients knew                                                       *)
(***************************************************************************)

LEMMA StepCovers ==
  ASSUME TypeOK, PlaceInv, CoversInv, NEW r \in Requests, Serve(r) \/ Outside(r)
  PROVE  CoversInv'
<1>0. Types /\ Place(r) /\ Only(r) /\ Covers(r)
  BY TypesHold, StepOnly DEF PlaceInv, CoversInv
<1>1. Len(log) \in Nat /\ Len(log') \in Nat /\ Len(log) <= Len(log')
  <2>1. Len(log) \in Nat
    BY <1>0 DEF Types
  <2> QED BY <1>0, <2>1, StepChain
<1>2. \A q \in Requests : /\ seen[q].receipts \in Nat /\ (seen[q].receipts)' \in Nat
                          /\ index[q] \in Nat /\ lines[q] \in Nat
  BY <1>0, StepTypes DEF Types
<1>3. ASSUME NEW q \in Requests \ {r} PROVE Covers(q)'
  <2>1. Covers(q)
    BY DEF CoversInv
  <2> QED BY <1>0, <1>1, <1>2, <2>1 DEF Covers, Only
<1>4. Covers(r)'
  <2>0. /\ st \in [Requests -> Stages] /\ status \in [Requests -> Codes]
        /\ route \in [Requests -> Routes] /\ index \in [Requests -> Nat]
        /\ lines \in [Requests -> Nat]
    BY <1>0 DEF Types
  <2>1. ASSUME NEW rt \in Asked \cap Routes, Arrive(r, rt) PROVE Covers(r)'
    <3>1. seen'[r].receipts <= Len(log) /\ log' = log
      BY <1>0, <2>1, ArriveKnows DEF Arrive, chainVars
    <3>2. st'[r] = "dispatch"
      BY <2>0, <2>1 DEF Arrive, Go
    <3> QED BY <3>1, <3>2 DEF Covers, Away, Answering
  <2>2. CASE Length(r)
    <3>1. /\ seen' = seen /\ log' = log /\ route' = route /\ lines' = lines
          /\ index'[r] = Len(log) /\ seen[r].receipts <= Len(log)
          /\ \/ route[r] = "receipts" /\ st'[r] = "validity"
             \/ route[r] # "receipts" /\ st'[r] = "return"
      BY <1>0, <2>0, <2>2 DEF Length, Go, chainVars, Covers, Away
    <3> QED BY <1>1, <3>1 DEF Covers, Away, Answering
  <2>3. CASE Jsonl(r)
    <3>1. /\ seen' = seen /\ log' = log /\ route' = route /\ index' = index
          /\ route[r] = "receipts" /\ st[r] = "jsonl" /\ st'[r] = "return"
          /\ status'[r] = 200 => lines'[r] = Len(log)
      BY <1>0, <2>0, <2>3 DEF Jsonl, Go, Answer, chainVars, Place
    <3> QED BY <1>0, <1>1, <3>1 DEF Covers, Away, Answering
  <2>4. CASE Validity(r)
    <3>1. /\ seen' = seen /\ log' = log /\ route' = route
          /\ index' = index /\ lines' = lines
          /\ st[r] = "validity"
          /\ \/ route[r] = "receipts" /\ st'[r] = "jsonl"
             \/ route[r] # "receipts" /\ st'[r] = "return" /\ status'[r] = 503
             \/ route[r] # "receipts" /\ st'[r] = "len"
      BY <1>0, <2>0, <2>4 DEF Validity, Go, Answer, chainVars, data
    <3> QED BY <1>0, <3>1 DEF Covers, Away, Answering
  <2>5. CASE Return(r) \/ Reply(r)
    <3>1. /\ seen' = seen /\ log' = log /\ route' = route
          /\ index' = index /\ lines' = lines
          /\ st[r] \in Answering /\ st'[r] \in Answering /\ status' = status
      BY <2>0, <2>5 DEF Return, Reply, Go, Answering, chainVars, data
    <3> QED BY <1>0, <3>1 DEF Covers, Away, Answering
  <2>6. CASE TakeThread(r)
    <3>1. /\ seen' = seen /\ log' = log /\ route' = route /\ status' = status
          /\ st[r] = "dispatch"
          /\ route[r] = "receipts" => st'[r] = "len"
          /\ st'[r] \notin Answering \cup {"jsonl"}
      <4>1. route[r] \in {"score", "healthz", "verify", "receipts"}
        BY <2>0, <2>6 DEF Routes, TakeThread
      <4> QED BY <2>0, <2>6, <4>1 DEF TakeThread, FirstStage, Go, chainVars, Answering
    <3> QED BY <1>0, <3>1 DEF Covers, Away, Answering
  <2>7. \/ \E rt \in Asked \cap Routes : Arrive(r, rt)
        \/ Length(r) \/ Jsonl(r) \/ Validity(r) \/ Return(r) \/ Reply(r)
        \/ /\ st[r] \notin Away /\ seen' = seen /\ route' = route
           /\ st'[r] \notin {"validity", "jsonl"}
           /\ st'[r] \in Answering /\ status'[r] = 200 => route[r] \in Scored
        \/ TakeThread(r)
    <3>1. CASE Score(r)
      BY <1>0, <2>0, <3>1 DEF Score, Answer, Go, Place, Away, Answering, Scored
    <3>2. CASE Observe(r)
      BY <1>0, <2>0, <3>2 DEF Observe, Answer, Go, Place, Away, Answering, Scored
    <3>3. CASE EnterLoop(r)
      BY <1>0, <2>0, <3>3 DEF EnterLoop, Go, Place, Away, Answering, Scored
    <3>4. CASE Check(r)
      BY <1>0, <2>0, <3>4 DEF Check, Answer, Go, Place, Away, Answering, Scored
    <3>5. CASE Compute(r)
      BY <1>0, <2>0, <3>5 DEF Compute, Go, Place, Away, Answering, Scored
    <3>6. CASE Computed(r)
      BY <1>0, <2>0, <3>6 DEF Computed, Answer, Go, Place, Away, Answering, Scored
    <3>7. CASE Resume(r)
      BY <1>0, <2>0, <3>7 DEF Resume, Go, Place, Away, Answering, Scored
    <3>8. CASE Refuse(r)
      BY <1>0, <2>0, <3>8 DEF Refuse, Answer, Go, Failed, Place, Away, Answering, Scored
    <3>9. CASE Admit(r)
      BY <1>0, <2>0, <3>9 DEF Admit, Go, Place, Away, Answering, Scored
    <3>10. CASE Commit(r)
      BY <1>0, <2>0, <3>10 DEF Commit, Answer, Go, After, Place, Away, Answering, Scored
    <3>11. CASE Chunk(r)
      BY <1>0, <2>0, <3>11 DEF Chunk, Answer, Go, Place, Away, Answering, Scored
    <3>12. CASE Parse(r)
      BY <1>0, <2>0, <3>12 DEF Parse, Answer, Go, Place, Away, Answering, Scored
    <3>13. CASE Disconnect(r)
      BY <1>0, <2>0, <3>13 DEF Disconnect, Go, Place, Away, Answering, Scored
    <3> QED
      BY <3>1, <3>2, <3>3, <3>4, <3>5, <3>6, <3>7, <3>8, <3>9, <3>10, <3>11, <3>12, <3>13,
         <2>6
      DEF Serve, Outside
  <2>8. CASE /\ st[r] \notin Away /\ seen' = seen /\ route' = route
             /\ st'[r] \notin {"validity", "jsonl"}
             /\ st'[r] \in Answering /\ status'[r] = 200 => route[r] \in Scored
    <3>1. seen[r].receipts <= Len(log) /\ seen[r].receipts \in Nat
      BY <1>0, <1>2, <2>8 DEF Covers
    <3>2. seen'[r].receipts <= Len(log')
      BY <1>1, <2>8, <3>1
    <3>3. ~(route'[r] = "receipts" /\ st'[r] \in {"validity", "jsonl"})
      BY <2>8
    <3>4. ~(route'[r] \notin Scored /\ st'[r] \in Answering /\ status'[r] = 200)
      BY <2>8
    <3> QED BY <3>2, <3>3, <3>4 DEF Covers
  <2> QED BY <2>1, <2>2, <2>3, <2>4, <2>5, <2>6, <2>7, <2>8
<1> QED BY <1>3, <1>4 DEF CoversInv

LEMMA NextCoversInv ==
  ASSUME ServiceAssumption, TypeOK, PlaceInv, CoversInv, [Next]_vars
  PROVE  CoversInv'
<1>1. ASSUME NEW r \in Requests, Serve(r) \/ Outside(r) PROVE CoversInv'
  BY <1>1, StepCovers
<1>2. ASSUME NEW h \in {"edited", "nonfinite"}, Corrupt(h) PROVE CoversInv'
  BY <1>2 DEF Corrupt, CoversInv, Covers, data
<1>3. CASE Restart
  BY <1>3 DEF Restart, CoversInv, Covers, Away, Answering
<1>4. CASE UNCHANGED vars
  BY <1>4 DEF vars, CoversInv, Covers
<1> QED BY <1>1, <1>2, <1>3, <1>4 DEF Next, Quiet

-------------------------------------------------------------------------------
(***************************************************************************)
(* Failing closed                                                          *)
(***************************************************************************)

LEMMA StepClosed ==
  ASSUME TypeOK, PlaceInv, ClosedInv, NEW r \in Requests, Serve(r) \/ Outside(r)
  PROVE  ClosedInv'
<1>0. /\ Types /\ Place(r) /\ Only(r) /\ Closed(r) /\ (Broken' <=> Broken)
      /\ st \in [Requests -> Stages] /\ status \in [Requests -> Codes]
      /\ route \in [Requests -> Routes]
  BY TypesHold, StepOnly DEF PlaceInv, ClosedInv, Types, Only, Broken
<1>1. ASSUME NEW q \in Requests \ {r} PROVE Closed(q)'
  <2>1. Closed(q)
    BY DEF ClosedInv
  <2> QED BY <1>0, <2>1 DEF Closed, Only
<1>2. ASSUME NEW rt \in Asked \cap Routes, Arrive(r, rt) PROVE Closed(r)'
  <2>1. seen'[r].down => Broken
    BY <1>0, <1>2, ArriveKnows DEF Done, ClosedInv, Closed, Answering
  <2>2. st'[r] = "dispatch" /\ status'[r] = 0
    BY <1>0, <1>2 DEF Arrive, Go, Place, Answering
  <2> QED BY <1>0, <2>1, <2>2 DEF Closed, Answering
<1> DEFINE Shut == seen[r].down /\ route[r] \in Scored \cup Probes
<1>3. ASSUME ~\E rt \in Asked \cap Routes : Arrive(r, rt)
      PROVE  /\ st[r] \notin Away /\ seen'[r] = seen[r] /\ route'[r] = route[r]
             /\ st'[r] \in Answering /\ status'[r] = 503 =>
                  Broken \/ (st[r] \in Answering /\ status[r] = 503)
             /\ Shut /\ Broken /\ st[r] \notin {"len", "commit", "observe"} /\ status[r] #
                200 =>
                  st'[r] \notin {"len", "commit", "observe"} /\ status'[r] # 200
  <2>0. st[r] \notin Away
    <3>1. CASE TakeThread(r)
      BY <3>1 DEF Away, TakeThread
    <3>2. CASE Score(r)
      BY <3>2 DEF Away, Score
    <3>3. CASE Validity(r)
      BY <3>3 DEF Away, Validity
    <3>4. CASE Length(r)
      BY <3>4 DEF Away, Length
    <3>5. CASE Jsonl(r)
      BY <3>5 DEF Away, Jsonl
    <3>6. CASE Observe(r)
      BY <3>6 DEF Away, Observe
    <3>7. CASE Return(r)
      BY <3>7 DEF Away, Return
    <3>8. CASE EnterLoop(r)
      BY <3>8 DEF Away, EnterLoop
    <3>9. CASE Check(r)
      BY <3>9 DEF Away, Check
    <3>10. CASE Compute(r)
      BY <3>10 DEF Away, Compute
    <3>11. CASE Computed(r)
      BY <3>11 DEF Away, Computed
    <3>12. CASE Resume(r)
      BY <3>12 DEF Away, Resume
    <3>13. CASE Refuse(r)
      BY <3>13 DEF Away, Refuse
    <3>14. CASE Admit(r)
      BY <3>14 DEF Away, Admit
    <3>15. CASE Commit(r)
      BY <3>15 DEF Away, Commit
    <3>16. CASE Reply(r)
      BY <3>16 DEF Away, Reply
    <3>17. CASE \E rt \in Asked \cap Routes : Arrive(r, rt)
      BY <1>3, <3>17
    <3>18. CASE Chunk(r)
      BY <3>18 DEF Away, Chunk
    <3>19. CASE Parse(r)
      BY <3>19 DEF Away, Parse
    <3>20. CASE Disconnect(r)
      BY <3>20 DEF Away, Disconnect
    <3> QED
      BY <3>1, <3>2, <3>3, <3>4, <3>5, <3>6, <3>7, <3>8, <3>9, <3>10, <3>11, <3>12, <3>13,
         <3>14, <3>15, <3>16, <3>17, <3>18, <3>19, <3>20
      DEF Serve, Outside
  <2>1. seen'[r] = seen[r] /\ route'[r] = route[r]
    BY <1>0, <2>0, StepKeeps DEF Away
  <2>2. /\ st'[r] \in Answering /\ status'[r] = 503 =>
             Broken \/ (st[r] \in Answering /\ status[r] = 503)
        /\ Shut /\ Broken /\ st[r] \notin {"len", "commit", "observe"} /\ status[r] # 200 =>
             st'[r] \notin {"len", "commit", "observe"} /\ status'[r] # 200
    <3>1. CASE TakeThread(r)
      <4>1. route[r] \in {"score", "healthz", "verify", "receipts"}
        BY <1>0, <3>1 DEF Routes, TakeThread
      <4>2. /\ status' = status
            /\ route[r] # "receipts" => st'[r] \in {"run", "validity"}
            /\ route[r] = "receipts" => st'[r] = "len"
        BY <1>0, <3>1, <4>1 DEF TakeThread, FirstStage, Go
      <4> QED BY <1>0, <3>1, <4>1, <4>2 DEF Place, Answering, Scored, Probes, TakeThread
    <3>2. CASE Score(r)
      BY <1>0, <3>2 DEF Score, Answer, Go, Place, Answering, Scored, Probes
    <3>3. CASE Validity(r)
      BY <1>0, <3>3 DEF Validity, Answer, Go, Place, Answering, Scored, Probes
    <3>4. CASE Length(r)
      BY <1>0, <3>4 DEF Length, Answer, Go, Place, Answering, Scored, Probes
    <3>5. CASE Jsonl(r)
      BY <1>0, <3>5 DEF Jsonl, Answer, Go, Place, Answering, Scored, Probes
    <3>6. CASE Observe(r)
      BY <1>0, <3>6 DEF Observe, Answer, Go, Place, Answering, Scored, Probes
    <3>7. CASE Return(r)
      BY <1>0, <3>7 DEF Return, Go, Place, Answering, Scored, Probes
    <3>8. CASE EnterLoop(r)
      BY <1>0, <3>8 DEF EnterLoop, Go, Place, Answering, Scored, Probes
    <3>9. CASE Check(r)
      BY <1>0, <3>9 DEF Check, Answer, Go, Place, Answering, Scored, Probes
    <3>10. CASE Compute(r)
      BY <1>0, <3>10 DEF Compute, Go, Place, Answering, Scored, Probes
    <3>11. CASE Computed(r)
      BY <1>0, <3>11 DEF Computed, Answer, Go, Place, Answering, Scored, Probes
    <3>12. CASE Resume(r)
      BY <1>0, <3>12 DEF Resume, Go, Place, Answering, Scored, Probes
    <3>13. CASE Refuse(r)
      BY <1>0, <3>13 DEF Refuse, Answer, Go, Failed, Place, Answering, Scored, Probes
    <3>14. CASE Admit(r)
      BY <1>0, <3>14 DEF Admit, Go, Place, Answering, Scored, Probes
    <3>15. CASE Commit(r)
      BY <1>0, <3>15 DEF Commit, Answer, Go, After, Place, Answering, Scored, Probes
    <3>16. CASE Reply(r)
      BY <1>0, <3>16 DEF Reply, Go, Place, Answering, Scored, Probes
    <3>17. CASE \E rt \in Asked \cap Routes : Arrive(r, rt)
      BY <1>3, <3>17
    <3>18. CASE Chunk(r)
      BY <1>0, <3>18 DEF Chunk, Answer, Go, Place, Answering, Scored, Probes
    <3>19. CASE Parse(r)
      BY <1>0, <3>19 DEF Parse, Answer, Go, Place, Answering, Scored, Probes
    <3>20. CASE Disconnect(r)
      BY <1>0, <3>20 DEF Disconnect, Go, Place, Answering, Scored, Probes
    <3> QED
      BY <3>1, <3>2, <3>3, <3>4, <3>5, <3>6, <3>7, <3>8, <3>9, <3>10, <3>11, <3>12, <3>13,
         <3>14, <3>15, <3>16, <3>17, <3>18, <3>19, <3>20
      DEF Serve, Outside
  <2> QED BY <2>0, <2>1, <2>2
<1>4. ASSUME ~\E rt \in Asked \cap Routes : Arrive(r, rt) PROVE Closed(r)'
  BY <1>0, <1>3, <1>4 DEF Closed
<1> QED BY <1>1, <1>2, <1>4 DEF ClosedInv

LEMMA NextClosedInv ==
  ASSUME ServiceAssumption, TypeOK, PlaceInv, ClosedInv, [Next]_vars
  PROVE  ClosedInv'
<1>1. ASSUME NEW r \in Requests, Serve(r) \/ Outside(r) PROVE ClosedInv'
  BY <1>1, StepClosed
<1>2. ASSUME NEW h \in {"edited", "nonfinite"}, Corrupt(h) PROVE ClosedInv'
  BY <1>2 DEF Corrupt, ClosedInv, Closed, Broken
<1>3. CASE Restart
  BY <1>3 DEF Restart, ClosedInv, Closed, Away, Answering
<1>4. CASE UNCHANGED vars
  BY <1>4 DEF vars, ClosedInv, Closed, Broken
<1> QED BY <1>1, <1>2, <1>3, <1>4 DEF Next, Quiet

LEMMA StepCeiling ==
  ASSUME ServiceAssumption, TypeOK, PlaceInv, CeilingInv, NEW r \in Requests, Serve(r) \/
     Outside(r)
  PROVE  CeilingInv'
<1>1. Types /\ Place(r) /\ Only(r) /\ (Broken' <=> Broken)
  BY TypesHold, StepOnly DEF PlaceInv, Only, Broken
<1>2. CASE log' = log /\ lock' = lock
  BY <1>1, <1>2 DEF CeilingInv, Only
<1>3. CASE ~Broken
  BY <1>1, <1>3 DEF CeilingInv
<1>4. CASE Commit(r)
  <2>1. lock = r /\ r # Nobody /\ lock' = Nobody
    BY <1>1, <1>4 DEF Commit, Place, ServiceAssumption
  <2>2. Len(log') = Len(log) + 1 /\ Len(log) \in Nat
    <3>1. log' = Append(log, r) /\ log \in Seq(Requests)
      BY <1>1, <1>4 DEF Commit, Types
    <3> QED BY <3>1
  <2>3. Broken => Len(log') + 0 <= ceiling'
    BY <1>1, <2>1, <2>2 DEF CeilingInv, Types, Only
  <2> QED BY <1>1, <2>1, <2>3 DEF CeilingInv
<1> QED BY <1>1, <1>2, <1>3, <1>4 DEF Only

LEMMA NextCeilingInv ==
  ASSUME ServiceAssumption, TypeOK, PlaceInv, CeilingInv, [Next]_vars
  PROVE  CeilingInv'
<1>1. ASSUME NEW r \in Requests, Serve(r) \/ Outside(r) PROVE CeilingInv'
  BY <1>1, StepCeiling
<1>2. ASSUME NEW h \in {"edited", "nonfinite"}, Corrupt(h) PROVE CeilingInv'
  <2>1. /\ log' = log /\ lock' = lock
        /\ ceiling' = Len(log) + (IF lock = Nobody THEN 0 ELSE 1)
        /\ Len(log) \in Nat
    BY <1>2, TypesHold DEF Corrupt, Types
  <2> QED BY <2>1 DEF CeilingInv
<1>3. CASE Restart
  BY <1>3 DEF Restart, CeilingInv, Broken
<1>4. CASE UNCHANGED vars
  BY <1>4 DEF vars, CeilingInv, Broken
<1> QED BY <1>1, <1>2, <1>3, <1>4 DEF Next, Quiet

-------------------------------------------------------------------------------
(***************************************************************************)
(* The theorems                                                            *)
(***************************************************************************)

LEMMA InitIInv == ASSUME ServiceAssumption, Init PROVE IInv
<1>1. IsFiniteSet({}) /\ Cardinality({}) = 0
  BY FS_EmptySet
<1>2. TypeOK
  BY <1>1 DEF Init, TypeOK, Stages, Routes, ServiceAssumption
<1>3. PlaceInv
  BY <1>1 DEF Init, PlaceInv, Place, OnThread, ServiceAssumption
<1>4. LogInv /\ RecordedInv
  BY DEF Init, LogInv, RecordedInv, Recorded, Promised, Answering
<1>5. MetersTrailChain
  <2>1. Receipts("score") = {} /\ Observing = {} /\ Uncounted = {} /\ ece = 0 /\ reqs = 0
    BY DEF Init, Receipts, Observing, Uncounted
  <2>2. /\ Cardinality(Receipts("score")) - ece = Cardinality(Observing)
        /\ ece - reqs = Cardinality(Uncounted)
    BY <1>1, <2>1
  <2> QED BY <2>2 DEF MetersTrailChain, Observing, Uncounted
<1>6. CoversInv /\ ClosedInv
  BY DEF Init, CoversInv, Covers, ClosedInv, Closed, Away, Answering
<1>7. CeilingInv
  BY DEF Init, CeilingInv, Broken
<1> QED BY <1>2, <1>3, <1>4, <1>5, <1>6, <1>7 DEF IInv

(* However the requests, their threads and a privileged writer interleave, *)
(* log, chain, counters and answers stay in step (service.py).             *)
THEOREM Invariance == Spec => []IInv
<1>1. Init => IInv
  BY InitIInv, ServiceAssumption
<1>2. IInv /\ [Next]_vars => IInv'
  BY NextTypeOK, NextPlace, NextLogInv, NextRecordedInv, NextMetersTrailChain,
     NextCoversInv,
     NextClosedInv, NextCeilingInv, ServiceAssumption
  DEF IInv
<1> QED BY <1>1, <1>2, PTL DEF Spec

(* The types, the bound of the pool, and that a broken chain grows by no   *)
(* more than the append that had verified it before (append(), under the   *)
(* lock).                                                                  *)
THEOREM BrokenChainStops == Spec => []BreakInv
<1>1. IInv => NoAppendAfterBreak
  <2>1. ASSUME IInv, Broken PROVE Len(log) <= ceiling
    <3>1. Len(log) \in Nat /\ ceiling \in Nat
      BY <2>1 DEF IInv, TypeOK
    <3> QED BY <2>1, <3>1 DEF IInv, CeilingInv
  <2> QED BY <2>1 DEF NoAppendAfterBreak
<1>2. IInv => BreakInv
  BY <1>1 DEF IInv, BreakInv
<1> QED BY <1>2, Invariance, PTL

(* What a status says about a receipt, for every scored request (the       *)
(* handlers of score and of the studies).                                  *)
THEOREM StatusTellsReceipt == Spec => []AnswersTellReceipts
<1>1. ASSUME IInv, NEW i \in DOMAIN log, NEW j \in DOMAIN log, log[i] = log[j]
      PROVE  i = j
  <2>1. i \in Int /\ j \in Int
    <3>1. log \in Seq(Requests)
      BY <1>1 DEF IInv, TypeOK
    <3> QED BY <3>1
  <2>2. index[log[i]] = i - 1 /\ index[log[j]] = j - 1
    BY <1>1 DEF IInv, LogInv, Receipted
  <2> QED BY <1>1, <2>1, <2>2
<1>2. ASSUME IInv, NEW r \in Done
      PROVE  /\ (route[r] \in Scored /\ status[r] = 200) =>
                  (\E i \in DOMAIN log : log[i] = r /\ index[r] = i - 1)
             /\ status[r] \in {413, 415, 422, 503} => r \notin Range(log)
  <2>1. r \in Requests /\ st[r] = "done"
    BY DEF Done
  <2>2. ASSUME route[r] \in Scored, status[r] = 200
        PROVE  \E i \in DOMAIN log : log[i] = r /\ index[r] = i - 1
    <3>1. PICK i \in DOMAIN log : log[i] = r
      BY <1>2, <2>1, <2>2 DEF IInv, RecordedInv, Recorded, Promised, Answering
    <3> QED BY <1>2, <3>1 DEF IInv, LogInv, Receipted
  <2>3. ASSUME r \in Range(log) PROVE status[r] \in {200, 500}
    <3>1. PICK i \in DOMAIN log : log[i] = r
      BY <2>3 DEF Range
    <3> QED BY <1>2, <2>1, <3>1 DEF IInv, LogInv, Receipted
  <2> QED BY <2>2, <2>3
<1>3. IInv => AnswersTellReceipts
  BY <1>1, <1>2 DEF AnswersTellReceipts
<1> QED BY <1>3, Invariance, PTL

(* No batch is measured that is not receipted, none is counted that is not *)
(* measured (score(), and the middleware).                                 *)
THEOREM MetersFollow == Spec => []MetersTrailChain
<1>1. IInv => MetersTrailChain
  BY DEF IInv
<1> QED BY <1>1, Invariance, PTL

(* A report covers whatever its client had been answered before it asked   *)
(* (receipts(), healthz() and verify_receipts()).                          *)
THEOREM ReportsCover == Spec => []ReportsCoverAnswered
<1>1. ASSUME IInv, NEW r \in Done, status[r] = 200, route[r] \notin Scored
      PROVE  /\ index[r] >= seen[r].receipts
             /\ route[r] = "receipts" => lines[r] >= index[r]
  <2>1. /\ seen[r].receipts <= index[r]
        /\ route[r] = "receipts" => index[r] <= lines[r]
    BY <1>1 DEF IInv, CoversInv, Covers, Done, Answering
  <2> QED BY <2>1
<1>2. IInv => ReportsCoverAnswered
  BY <1>1 DEF ReportsCoverAnswered
<1> QED BY <1>2, Invariance, PTL

(* After a 503 no later request is answered 200 by a scoring or a probing  *)
(* route.                                                                  *)
THEOREM FailsClosed == Spec => []FailClosed
<1>1. IInv => FailClosed
  BY DEF IInv, ClosedInv, Closed, FailClosed, Done, Away
<1> QED BY <1>1, Invariance, PTL

===============================================================================
