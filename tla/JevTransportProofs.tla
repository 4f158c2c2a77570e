-------------------------- MODULE JevTransportProofs --------------------------
(***************************************************************************)
(* Theorems about JevTransport, for any requests and answers, any limit    *)
(* and any length of answer.                                               *)
(***************************************************************************)
EXTENDS JevTransport, SetInduction, TLAPS

(***************************************************************************)
(* The inductive invariant.                                                *)
(***************************************************************************)

Unsent == Unchecked \cup {"idle", "request", "reconnected"}
Answering == {"respond", "read", "blocked", "eof", "validate"}
Over == {"close", "done"}

(* The worker starts with the wait and puts at most one outcome, last.     *)
Protocol ==
  /\ results = <<>> \/ \E outcome \in Outcomes : results = <<outcome>>
  /\ worker = "idle" <=> caller \in {"start", "checked"} \cup Refused
  /\ results # <<>> => worker \in Over
  /\ caller \in Outcomes => worker \in Over /\ results = <<>>
  /\ cancelled <=> caller \in {"closing", "releasing", "provider_timeout_outcome_unknown"}

(* Where the worker is tells what went over the wire.                      *)
WireInv ==
  /\ sent \in {0, 1}
  /\ worker \in Unsent => sent = 0
  /\ worker \in Answering => sent = 1
  /\ worker \in Unsent \cup {"respond"} => got = 0
  /\ worker \in Answering => got <= MaxChunks

(* A worker the caller gave up on early is still before its check, or has  *)
(* found the event set.                                                    *)
EarlyInv == early => cancelled /\ sent = 0 /\ worker \in Unchecked \cup Over

(* An outcome "validated", in the queue or handed out, and what it means.  *)
Validated == results = <<"validated">> \/ caller = "validated"
OutcomeInv ==
  Validated => /\ sent = 1 /\ got = total /\ total \in 1 .. MaxChunks
               /\ ResponseOK(snapshot, result)

(* The payload is the snapshot, and so is what the summary describes.      *)
SnapshotInv ==
  /\ worker # "idle" => snapshot = payload /\ snapshot \in Requests
  /\ caller = "validated" => summary = snapshot

IInv == TypeOK /\ Protocol /\ WireInv /\ EarlyInv /\ OutcomeInv /\ SnapshotInv

-------------------------------------------------------------------------------
(***************************************************************************)
(* The types                                                               *)
(***************************************************************************)

LEMMA QueueType ==
  ASSUME NEW queue, queue = <<>> \/ \E outcome \in Outcomes : queue = <<outcome>>
  PROVE  queue \in Seq(Outcomes) /\ Len(queue) <= 1
<1>1. CASE queue = <<>>
  BY <1>1
<1>2. CASE \E outcome \in Outcomes : queue = <<outcome>>
  <2>1. PICK outcome \in Outcomes : queue = <<outcome>>
    BY <1>2
  <2> QED BY <2>1
<1> QED BY <1>1, <1>2

LEMMA InitIInv == ASSUME TransportAssumption, Init PROVE IInv
<1>1. TypeOK
  <2>1. results \in Seq(Outcomes) /\ Len(results) <= 1
    BY QueueType DEF Init
  <2>2. {snapshot, payload, summary} \subseteq Requests \cup {None}
    BY DEF Init
  <2>3. total \in 0 .. MaxAnswer /\ got \in 0 .. total
    BY DEF Init, TransportAssumption
  <2> QED BY <2>1, <2>2, <2>3 DEF Init, TypeOK
<1> USE DEF Init, Ended, Outcomes, Errors, Refused, Running, Unchecked
<1>2. Protocol
  BY DEF Protocol
<1>3. WireInv /\ EarlyInv /\ OutcomeInv /\ SnapshotInv
  BY DEF WireInv, EarlyInv, OutcomeInv, SnapshotInv, Validated, Unsent, Answering
<1> QED BY <1>1, <1>2, <1>3 DEF IInv

LEMMA NextProtocol ==
  ASSUME IInv, [Next]_vars
  PROVE  Protocol'
<1> USE DEF IInv, Protocol, Over, Running, Unchecked, Ended, Outcomes, Errors, Refused, objects, callerVars, answer, Put
<1>1. ASSUME Create PROVE Protocol'
  BY <1>1 DEF Create
<1>2. ASSUME Connect PROVE Protocol'
  BY <1>2 DEF Connect
<1>3. ASSUME CheckCancelled PROVE Protocol'
  BY <1>3 DEF CheckCancelled
<1>4. ASSUME Request PROVE Protocol'
  BY <1>4 DEF Request
<1>5. ASSUME SendReconnected PROVE Protocol'
  BY <1>5 DEF SendReconnected
<1>6. ASSUME Respond PROVE Protocol'
  BY <1>6 DEF Respond
<1>7. ASSUME ReadLoop PROVE Protocol'
  BY <1>7 DEF ReadLoop
<1>8. ASSUME Read PROVE Protocol'
  BY <1>8 DEF Read
<1>9. ASSUME EndOfBody PROVE Protocol'
  BY <1>9 DEF EndOfBody
<1>10. ASSUME Validate PROVE Protocol'
  BY <1>10 DEF Validate
<1>11. ASSUME Close PROVE Protocol'
  BY <1>11 DEF Close
<1>12. ASSUME Check PROVE Protocol'
  BY <1>12 DEF Check
<1>13. ASSUME Start PROVE Protocol'
  BY <1>13 DEF Start
<1>14. ASSUME Get PROVE Protocol'
  BY <1>14 DEF Get
<1>15. ASSUME Timeout PROVE Protocol'
  BY <1>15 DEF Timeout
<1>16. ASSUME CloseHeld \/ CloseResponse PROVE Protocol'
  BY <1>16 DEF CloseHeld, CloseResponse
<1>17. ASSUME Change PROVE Protocol'
  BY <1>17 DEF Change
<1>18. CASE UNCHANGED vars
  BY <1>18 DEF vars
<1> QED
  BY <1>1, <1>2, <1>3, <1>4, <1>5, <1>6, <1>7, <1>8, <1>9, <1>10, <1>11, <1>12, <1>13, <1>14, <1>15, <1>16, <1>17, <1>18
  DEF Next, Worker, Caller, Finished

LEMMA NextTypeOK ==
  ASSUME IInv, [Next]_vars, TransportAssumption
  PROVE  TypeOK'
<1> USE DEF IInv, TypeOK, Running, Unchecked, TransportAssumption, objects, callerVars, answer, Put
<1>0. results' \in Seq(Outcomes) /\ Len(results') <= 1
  BY NextProtocol, QueueType DEF Protocol
<1>1. ASSUME Create PROVE TypeOK'
  BY <1>0, <1>1 DEF Create
<1>2. ASSUME Connect PROVE TypeOK'
  BY <1>0, <1>2 DEF Connect
<1>3. ASSUME CheckCancelled PROVE TypeOK'
  BY <1>0, <1>3 DEF CheckCancelled
<1>4. ASSUME Request PROVE TypeOK'
  <2>1. (late \/ cancelled) \in BOOLEAN
    OBVIOUS
  <2>2. late' \in BOOLEAN
    BY <1>4, <2>1 DEF Request
  <2>3. sock' \in BOOLEAN
    BY <1>4 DEF Request
  <2>4. worker' \in Running /\ sent' \in Nat
    BY <1>4 DEF Request
  <2> QED BY <1>0, <1>4, <2>2, <2>3, <2>4 DEF Request
<1>5. ASSUME SendReconnected PROVE TypeOK'
  BY <1>0, <1>5 DEF SendReconnected
<1>6. ASSUME Respond PROVE TypeOK'
  BY <1>0, <1>6 DEF Respond, Protocol, WireInv, Unsent, Answering
<1>7. ASSUME ReadLoop PROVE TypeOK'
  BY <1>0, <1>7 DEF ReadLoop
<1>8. ASSUME Read PROVE TypeOK'
  BY <1>0, <1>8 DEF Read, Protocol, WireInv, Unsent, Answering
<1>9. ASSUME EndOfBody PROVE TypeOK'
  BY <1>0, <1>9 DEF EndOfBody
<1>10. ASSUME Validate PROVE TypeOK'
  BY <1>0, <1>10 DEF Validate
<1>11. ASSUME Close PROVE TypeOK'
  BY <1>0, <1>11 DEF Close
<1>12. ASSUME Check PROVE TypeOK'
  BY <1>0, <1>12 DEF Check, Ended, Refused
<1>13. ASSUME Start PROVE TypeOK'
  BY <1>0, <1>13 DEF Start, Ended
<1>14. ASSUME Get PROVE TypeOK'
  BY <1>0, <1>14 DEF Get, Protocol, Ended, RequestNow, SnapshotInv
<1>15. ASSUME Timeout PROVE TypeOK'
  BY <1>0, <1>15 DEF Timeout
<1>16. ASSUME CloseHeld \/ CloseResponse PROVE TypeOK'
  <2>1. sock' \in BOOLEAN
    BY <1>16 DEF CloseHeld, CloseResponse
  <2> QED BY <1>0, <1>16, <2>1 DEF CloseHeld, CloseResponse, Ended
<1>17. ASSUME Change PROVE TypeOK'
  BY <1>0, <1>17 DEF Change
<1>18. CASE UNCHANGED vars
  BY <1>0, <1>18 DEF vars
<1> QED
  BY <1>1, <1>2, <1>3, <1>4, <1>5, <1>6, <1>7, <1>8, <1>9, <1>10, <1>11, <1>12, <1>13, <1>14, <1>15, <1>16, <1>17, <1>18
  DEF Next, Worker, Caller, Finished

LEMMA NextWireInv ==
  ASSUME IInv, [Next]_vars, TransportAssumption
  PROVE  WireInv'
<1> USE DEF IInv, WireInv, TypeOK, Unsent, Answering, Over, Unchecked, TransportAssumption, objects, callerVars, answer, Put
<1>1. ASSUME Create PROVE WireInv'
  BY <1>1 DEF Create
<1>2. ASSUME Connect PROVE WireInv'
  BY <1>2 DEF Connect
<1>3. ASSUME CheckCancelled PROVE WireInv'
  BY <1>3 DEF CheckCancelled
<1>4. ASSUME Request PROVE WireInv'
  BY <1>4 DEF Request
<1>5. ASSUME SendReconnected PROVE WireInv'
  BY <1>5 DEF SendReconnected
<1>6. ASSUME Respond PROVE WireInv'
  BY <1>6 DEF Respond
<1>7. ASSUME ReadLoop PROVE WireInv'
  BY <1>7 DEF ReadLoop
<1>8. ASSUME Read PROVE WireInv'
  BY <1>8 DEF Read
<1>9. ASSUME EndOfBody PROVE WireInv'
  BY <1>9 DEF EndOfBody
<1>10. ASSUME Validate PROVE WireInv'
  BY <1>10 DEF Validate
<1>11. ASSUME Close PROVE WireInv'
  BY <1>11 DEF Close
<1>12. ASSUME Check PROVE WireInv'
  BY <1>12 DEF Check
<1>13. ASSUME Start PROVE WireInv'
  BY <1>13 DEF Start, Protocol, Refused
<1>14. ASSUME Get PROVE WireInv'
  BY <1>14 DEF Get
<1>15. ASSUME Timeout PROVE WireInv'
  BY <1>15 DEF Timeout
<1>16. ASSUME CloseHeld \/ CloseResponse PROVE WireInv'
  BY <1>16 DEF CloseHeld, CloseResponse
<1>17. ASSUME Change PROVE WireInv'
  BY <1>17 DEF Change
<1>18. CASE UNCHANGED vars
  BY <1>18 DEF vars
<1> QED
  BY <1>1, <1>2, <1>3, <1>4, <1>5, <1>6, <1>7, <1>8, <1>9, <1>10, <1>11, <1>12, <1>13, <1>14, <1>15, <1>16, <1>17, <1>18
  DEF Next, Worker, Caller, Finished

LEMMA NextEarlyInv ==
  ASSUME IInv, [Next]_vars
  PROVE  EarlyInv'
<1> USE DEF IInv, EarlyInv, Over, Unchecked, objects, callerVars, answer, Put
<1>1. ASSUME Create PROVE EarlyInv'
  BY <1>1 DEF Create
<1>2. ASSUME Connect PROVE EarlyInv'
  BY <1>2 DEF Connect
<1>3. ASSUME CheckCancelled PROVE EarlyInv'
  BY <1>3 DEF CheckCancelled
<1>4. ASSUME Request PROVE EarlyInv'
  BY <1>4 DEF Request
<1>5. ASSUME SendReconnected PROVE EarlyInv'
  BY <1>5 DEF SendReconnected
<1>6. ASSUME Respond PROVE EarlyInv'
  BY <1>6 DEF Respond
<1>7. ASSUME ReadLoop PROVE EarlyInv'
  BY <1>7 DEF ReadLoop
<1>8. ASSUME Read PROVE EarlyInv'
  BY <1>8 DEF Read
<1>9. ASSUME EndOfBody PROVE EarlyInv'
  BY <1>9 DEF EndOfBody
<1>10. ASSUME Validate PROVE EarlyInv'
  BY <1>10 DEF Validate
<1>11. ASSUME Close PROVE EarlyInv'
  BY <1>11 DEF Close
<1>12. ASSUME Check PROVE EarlyInv'
  BY <1>12 DEF Check
<1>13. ASSUME Start PROVE EarlyInv'
  BY <1>13 DEF Start, Protocol, Refused
<1>14. ASSUME Get PROVE EarlyInv'
  BY <1>14 DEF Get
<1>15. ASSUME Timeout PROVE EarlyInv'
  BY <1>15 DEF Timeout, WireInv, Unsent
<1>16. ASSUME CloseHeld \/ CloseResponse PROVE EarlyInv'
  BY <1>16 DEF CloseHeld, CloseResponse
<1>17. ASSUME Change PROVE EarlyInv'
  BY <1>17 DEF Change
<1>18. CASE UNCHANGED vars
  BY <1>18 DEF vars
<1> QED
  BY <1>1, <1>2, <1>3, <1>4, <1>5, <1>6, <1>7, <1>8, <1>9, <1>10, <1>11, <1>12, <1>13, <1>14, <1>15, <1>16, <1>17, <1>18
  DEF Next, Worker, Caller, Finished

LEMMA NextOutcomeInv ==
  ASSUME IInv, [Next]_vars, TransportAssumption
  PROVE  OutcomeInv'
<1> USE DEF IInv, OutcomeInv, Validated, Protocol, Over, Unchecked, Refused, Ended, Outcomes, Errors, objects, callerVars, answer, Put
<1>1. ASSUME Create PROVE OutcomeInv'
  BY <1>1 DEF Create
<1>2. ASSUME Connect PROVE OutcomeInv'
  BY <1>2 DEF Connect
<1>3. ASSUME CheckCancelled PROVE OutcomeInv'
  BY <1>3 DEF CheckCancelled
<1>4. ASSUME Request PROVE OutcomeInv'
  BY <1>4 DEF Request
<1>5. ASSUME SendReconnected PROVE OutcomeInv'
  BY <1>5 DEF SendReconnected
<1>6. ASSUME Respond PROVE OutcomeInv'
  BY <1>6 DEF Respond
<1>7. ASSUME ReadLoop PROVE OutcomeInv'
  BY <1>7 DEF ReadLoop
<1>8. ASSUME Read PROVE OutcomeInv'
  BY <1>8 DEF Read
<1>9. ASSUME EndOfBody PROVE OutcomeInv'
  BY <1>9 DEF EndOfBody
<1>10. ASSUME Validate PROVE OutcomeInv'
  BY <1>10 DEF Validate, WireInv, TypeOK, Answering, RequestNow, TransportAssumption
<1>11. ASSUME Close PROVE OutcomeInv'
  BY <1>11 DEF Close
<1>12. ASSUME Check PROVE OutcomeInv'
  BY <1>12 DEF Check
<1>13. ASSUME Start PROVE OutcomeInv'
  BY <1>13 DEF Start
<1>14. ASSUME Get PROVE OutcomeInv'
  BY <1>14 DEF Get
<1>15. ASSUME Timeout PROVE OutcomeInv'
  BY <1>15 DEF Timeout
<1>16. ASSUME CloseHeld \/ CloseResponse PROVE OutcomeInv'
  BY <1>16 DEF CloseHeld, CloseResponse
<1>17. ASSUME Change PROVE OutcomeInv'
  BY <1>17 DEF Change
<1>18. CASE UNCHANGED vars
  BY <1>18 DEF vars
<1> QED
  BY <1>1, <1>2, <1>3, <1>4, <1>5, <1>6, <1>7, <1>8, <1>9, <1>10, <1>11, <1>12, <1>13, <1>14, <1>15, <1>16, <1>17, <1>18
  DEF Next, Worker, Caller, Finished

LEMMA NextSnapshotInv ==
  ASSUME IInv, [Next]_vars
  PROVE  SnapshotInv'
<1> USE DEF IInv, SnapshotInv, TypeOK, Protocol, Over, Unchecked, Refused, Ended, Outcomes, Errors, objects, callerVars, answer, Put
<1>1. ASSUME Create PROVE SnapshotInv'
  BY <1>1 DEF Create
<1>2. ASSUME Connect PROVE SnapshotInv'
  BY <1>2 DEF Connect
<1>3. ASSUME CheckCancelled PROVE SnapshotInv'
  BY <1>3 DEF CheckCancelled
<1>4. ASSUME Request PROVE SnapshotInv'
  BY <1>4 DEF Request
<1>5. ASSUME SendReconnected PROVE SnapshotInv'
  BY <1>5 DEF SendReconnected
<1>6. ASSUME Respond PROVE SnapshotInv'
  BY <1>6 DEF Respond
<1>7. ASSUME ReadLoop PROVE SnapshotInv'
  BY <1>7 DEF ReadLoop
<1>8. ASSUME Read PROVE SnapshotInv'
  BY <1>8 DEF Read
<1>9. ASSUME EndOfBody PROVE SnapshotInv'
  BY <1>9 DEF EndOfBody
<1>10. ASSUME Validate PROVE SnapshotInv'
  BY <1>10 DEF Validate
<1>11. ASSUME Close PROVE SnapshotInv'
  BY <1>11 DEF Close
<1>12. ASSUME Check PROVE SnapshotInv'
  BY <1>12 DEF Check
<1>13. ASSUME Start PROVE SnapshotInv'
  BY <1>13 DEF Start
<1>14. ASSUME Get PROVE SnapshotInv'
  BY <1>14 DEF Get, RequestNow
<1>15. ASSUME Timeout PROVE SnapshotInv'
  BY <1>15 DEF Timeout
<1>16. ASSUME CloseHeld \/ CloseResponse PROVE SnapshotInv'
  BY <1>16 DEF CloseHeld, CloseResponse
<1>17. ASSUME Change PROVE SnapshotInv'
  BY <1>17 DEF Change
<1>18. CASE UNCHANGED vars
  BY <1>18 DEF vars
<1> QED
  BY <1>1, <1>2, <1>3, <1>4, <1>5, <1>6, <1>7, <1>8, <1>9, <1>10, <1>11, <1>12, <1>13, <1>14, <1>15, <1>16, <1>17, <1>18
  DEF Next, Worker, Caller, Finished

-------------------------------------------------------------------------------
(***************************************************************************)
(* Answers                                                                 *)
(***************************************************************************)

LEMMA TotalIsSum ==
  ASSUME NEW probabilities
  PROVE  Total(probabilities) = Sum(probabilities)
BY DEF Total, FoldFunction, FoldFunctionOnSet, MapThenFoldSet, Sum, SumsUp, Member

(* A distribution over a finite set is a function of numbers that sum to   *)
(* one, but for the slack.                                                 *)
LEMMA DistributionSums ==
  ASSUME NEW keys, IsFiniteSet(keys), NEW f,
         Distribution(f, keys), AnswersAssumption
  PROVE  /\ f \in [keys -> 0 .. Unit] /\ Sum(f) \in Int
         /\ Sum(f) >= Unit - SumSlack /\ Sum(f) <= Unit + SumSlack
         /\ \E x \in keys : f[x] > 0
<1>1. f \in [keys -> 0 .. Unit] /\ Near(Sum(f), Unit, SumSlack)
  BY TotalIsSum DEF Distribution
<1> DEFINE ones == [x \in keys |-> 1]
<1>2. /\ f \in [keys -> Int] /\ ones \in [keys -> Int]
      /\ \A x \in keys : 1 * f[x] <= Unit * ones[x]
  BY <1>1 DEF AnswersAssumption
<1>3. Sum(f) \in Int
  <2>1. 1 \in Int /\ Unit \in Int
    BY DEF AnswersAssumption
  <2> HIDE DEF ones
  <2> QED BY <1>2, <2>1, SumCompares
<1>4. Sum(f) >= Unit - SumSlack /\ Sum(f) <= Unit + SumSlack
  BY <1>1, <1>3 DEF Near, AnswersAssumption
<1>5. ASSUME \A x \in keys : ~(f[x] > 0)
      PROVE  FALSE
  <2>1. \A x \in keys : 1 * f[x] <= 0 * ones[x]
    BY <1>1, <1>5
  <2>2. 1 * Sum(f) <= 0 * Sum(ones) /\ Sum(ones) \in Int
    <3>1. 0 \in Int /\ 1 \in Int
      OBVIOUS
    <3> HIDE DEF ones
    <3> QED BY <1>2, <2>1, <3>1, SumCompares
  <2> HIDE DEF ones
  <2>3. Sum(f) <= 0
    BY <1>3, <2>2
  <2> QED BY <1>3, <1>4, <2>3 DEF AnswersAssumption
<1> QED BY <1>1, <1>3, <1>4, <1>5

(* The chosen label is no less likely than an even split makes it.         *)
LEMMA ChoiceIsLikely ==
  ASSUME NEW keys, IsFiniteSet(keys), NEW f,
         Distribution(f, keys), NEW choice \in keys,
         Near(f[choice], Max(Range(f)), ChoiceSlack), AnswersAssumption
  PROVE  (f[choice] + ChoiceSlack) * Cardinality(keys) >= Unit - SumSlack
<1>1. /\ f \in [keys -> 0 .. Unit] /\ Sum(f) \in Int
      /\ Sum(f) >= Unit - SumSlack
  BY DistributionSums
<1>2. Range(f) \subseteq Int /\ IsFiniteSet(Range(f)) /\ Range(f) # {}
  <2>1. Range(f) \subseteq Int /\ Range(f) # {}
    BY <1>1 DEF Range
  <2>2. Range(f) \subseteq 0 .. Unit
    BY <1>1 DEF Range
  <2>3. IsFiniteSet(0 .. Unit)
    <3>1. 0 \in Int /\ Unit \in Int
      BY DEF AnswersAssumption
    <3> QED BY <3>1, FS_Interval
  <2> QED BY <2>1, <2>2, <2>3, FS_Subset
<1>3. Max(Range(f)) \in Int /\ \A k \in Range(f) : k <= Max(Range(f))
  <2>1. \E m \in Range(f) : \A k \in Range(f) : k <= m
    BY <1>2, GreatestInteger
  <2>2. \E m \in Range(f) : \A k \in Range(f) : m >= k
    BY <1>2, <2>1
  <2>3. Max(Range(f)) \in Range(f) /\ \A k \in Range(f) : Max(Range(f)) >= k
    BY <2>2 DEF Max
  <2> QED BY <1>2, <2>3
<1> DEFINE m == f[choice] + ChoiceSlack
           ones == [x \in keys |-> 1]
<1>4. m \in Int /\ \A x \in keys : f[x] <= m
  <2>1. \A x \in keys : f[x] \in Range(f)
    BY <1>1 DEF Range
  <2> QED BY <1>1, <1>3, <2>1 DEF Near, AnswersAssumption
<1>5. /\ f \in [keys -> Int] /\ ones \in [keys -> Int]
      /\ \A x \in keys : 1 * f[x] <= m * ones[x]
  <2> HIDE DEF m
  <2> QED BY <1>1, <1>4
<1>6. 1 * Sum(f) <= m * Sum(ones) /\ Sum(ones) = Cardinality(keys)
  <2>1. Sum(ones) = Cardinality(keys)
    BY SumCounts
  <2>2. 1 \in Int
    OBVIOUS
  <2> HIDE DEF m, ones
  <2>3. 1 * Sum(f) <= m * Sum(ones)
    BY <1>4, <1>5, <2>2, SumCompares
  <2> QED BY <2>1, <2>3
<1>7. Cardinality(keys) \in Int
  BY FS_CardinalityType
<1>8. m * Cardinality(keys) \in Int
  <2> HIDE DEF m
  <2> QED BY <1>4, <1>7
<1>9. m * Cardinality(keys) >= Unit - SumSlack
  <2> HIDE DEF m, ones
  <2> QED BY <1>1, <1>6, <1>8 DEF AnswersAssumption
<1> QED BY <1>9

(* An expected level lies between the least and the greatest with mass.    *)
LEMMA ExpectedIsBetween ==
  ASSUME NEW n \in Nat, NEW f,
         Distribution(f, 0 .. n), AnswersAssumption
  PROVE  LET mass == {x \in DOMAIN f : f[x] > 0}
         IN  /\ Expected(f) \in Int
             /\ Min(mass) \in Nat /\ Max(mass) \in Nat
             /\ Expected(f) >= Min(mass) * (Unit - SumSlack)
             /\ Expected(f) <= Max(mass) * (Unit + SumSlack)
<1> DEFINE keys == 0 .. n
           mass == {x \in DOMAIN f : f[x] > 0}
           e == [x \in keys |-> x * f[x]]
<1>1. IsFiniteSet(keys) /\ Distribution(f, keys)
  <2>1. 0 \in Int /\ n \in Int
    OBVIOUS
  <2> QED BY <2>1, FS_Interval
<1>2. /\ f \in [keys -> 0 .. Unit] /\ Sum(f) \in Int
      /\ Sum(f) >= Unit - SumSlack /\ Sum(f) <= Unit + SumSlack
      /\ \E x \in keys : f[x] > 0
  <2> HIDE DEF keys
  <2> QED BY <1>1, DistributionSums
<1>3. mass \subseteq Nat /\ mass \subseteq Int /\ mass # {} /\ IsFiniteSet(mass)
  <2>1. mass \subseteq keys /\ mass # {}
    BY <1>2
  <2>2. IsFiniteSet(mass)
    <3> HIDE DEF mass, keys
    <3> QED BY <1>1, <2>1, FS_Subset
  <2> QED BY <2>1, <2>2
<1>4. Min(mass) \in mass /\ \A x \in mass : Min(mass) <= x
  <2> HIDE DEF mass
  <2>1. \E m \in mass : \A k \in mass : m <= k
    BY <1>3, LeastNatural
  <2> QED BY <2>1 DEF Min
<1>5. Max(mass) \in mass /\ \A x \in mass : Max(mass) >= x
  <2> HIDE DEF mass
  <2>1. \E m \in mass : \A k \in mass : k <= m
    BY <1>3, GreatestInteger
  <2>2. \E m \in mass : \A k \in mass : m >= k
    BY <1>3, <2>1
  <2> QED BY <2>2 DEF Max
<1>6. Expected(f) = Sum(e)
  BY <1>2, TotalIsSum DEF Expected
<1>7. /\ e \in [keys -> Int] /\ f \in [keys -> Int]
      /\ \A x \in keys : e[x] = x * f[x] /\ x \in Nat /\ f[x] \in Nat
  <2>1. \A x \in keys : x * f[x] \in Int /\ x \in Nat /\ f[x] \in Nat
    BY <1>2
  <2> QED BY <1>2, <2>1
<1> DEFINE lo == Min(mass)
           hi == Max(mass)
<1>8. \A x \in keys : lo * f[x] <= 1 * e[x] /\ 1 * e[x] <= hi * f[x]
  <2> TAKE x \in keys
  <2>1. lo \in Nat /\ hi \in Nat /\ x \in Nat /\ f[x] \in Nat /\ e[x] = x * f[x]
    BY <1>3, <1>4, <1>5, <1>7
  <2>2. CASE f[x] = 0
    BY <2>1, <2>2
  <2>3. CASE f[x] > 0
    <3>1. x \in mass
      BY <1>2, <2>3
    <3>2. lo <= x /\ x <= hi
      BY <1>4, <1>5, <2>1, <3>1
    <3> HIDE DEF lo, hi, e, mass
    <3>3. lo * f[x] <= x * f[x] /\ x * f[x] <= hi * f[x]
      BY <2>1, <3>2
    <3>4. x * f[x] \in Int
      BY <2>1
    <3> QED BY <2>1, <3>3, <3>4
  <2> QED BY <2>1, <2>2, <2>3
<1>9. lo \in Nat /\ hi \in Nat
  BY <1>3, <1>4, <1>5
<1>10. Sum(e) \in Int /\ lo * Sum(f) <= 1 * Sum(e) /\ 1 * Sum(e) <= hi * Sum(f)
  <2> HIDE DEF lo, hi, e, keys, mass
  <2>1. lo \in Int /\ hi \in Int /\ 1 \in Int
    BY <1>9
  <2>2. lo * Sum(f) <= 1 * Sum(e) /\ Sum(e) \in Int
    BY <1>1, <1>7, <1>8, <2>1, SumCompares
  <2>3. 1 * Sum(e) <= hi * Sum(f)
    BY <1>1, <1>7, <1>8, <2>1, SumCompares
  <2> QED BY <2>2, <2>3
<1>11. lo * (Unit - SumSlack) <= lo * Sum(f) /\ hi * Sum(f) <= hi * (Unit + SumSlack)
  <2> HIDE DEF lo, hi
  <2> QED BY <1>2, <1>9 DEF AnswersAssumption
<1>12. /\ lo * (Unit - SumSlack) \in Int /\ hi * (Unit + SumSlack) \in Int
       /\ lo * Sum(f) \in Int /\ hi * Sum(f) \in Int
  <2> HIDE DEF lo, hi
  <2> QED BY <1>2, <1>9 DEF AnswersAssumption
<1>13. Sum(e) >= lo * (Unit - SumSlack) /\ Sum(e) <= hi * (Unit + SumSlack)
  <2> HIDE DEF lo, hi, e
  <2> QED BY <1>10, <1>11, <1>12
<1> QED BY <1>6, <1>9, <1>10, <1>13

(* An accepted answer to a valid question can be used as one.              *)
LEMMA AcceptedIsUsable ==
  ASSUME AnswersAssumption, NEW question, QuestionOK(question), IsFiniteSet(question.labels),
         NEW reply, AnswerOK(question, reply)
  PROVE  LET mass == {key \in DOMAIN reply.probabilities : reply.probabilities[key] > 0}
         IN  /\ question.type = "choice" =>
                  /\ reply.choice \in question.labels
                  /\ (reply.probabilities[reply.choice] + ChoiceSlack)
                        * Cardinality(question.labels) >= Unit - SumSlack
             /\ question.type = "score" =>
                  /\ reply.legend = question.rubric
                  /\ reply.number + SumSlack >= Min(mass) * (Unit - SumSlack)
                  /\ reply.number - SumSlack <= Max(mass) * (Unit + SumSlack)
<1> DEFINE f == reply.probabilities
           mass == {key \in DOMAIN f : f[key] > 0}
<1>1. CASE question.type = "choice"
  <2>1. /\ Distribution(f, question.labels) /\ reply.choice \in question.labels
        /\ Near(f[reply.choice], Max(Range(f)), ChoiceSlack)
    BY <1>1 DEF AnswerOK, Keys
  <2>2. (f[reply.choice] + ChoiceSlack) * Cardinality(question.labels) >= Unit - SumSlack
    <3> HIDE DEF f
    <3> QED BY <2>1, ChoiceIsLikely
  <2> QED BY <1>1, <2>1, <2>2
<1>2. CASE question.type = "score"
  <2> DEFINE n == Len(question.rubric) - 1
  <2>1. n \in Nat
    BY <1>2 DEF QuestionOK
  <2>2. /\ Distribution(f, 0 .. n) /\ reply.legend = question.rubric
        /\ reply.number \in 0 .. n * Unit
        /\ Near(reply.number, Expected(f), SumSlack)
    BY <1>2 DEF AnswerOK, Keys, Levels
  <2>3. /\ Expected(f) \in Int /\ Min(mass) \in Nat /\ Max(mass) \in Nat
        /\ Expected(f) >= Min(mass) * (Unit - SumSlack)
        /\ Expected(f) <= Max(mass) * (Unit + SumSlack)
    <3> HIDE DEF f, n
    <3> QED BY <2>1, <2>2, ExpectedIsBetween
  <2>4. reply.number \in Int
    <3>1. \A k \in Int : \A x \in 0 .. k : x \in Int
      OBVIOUS
    <3>2. n * Unit \in Int
      BY <2>1 DEF AnswersAssumption
    <3> QED BY <2>2, <3>1, <3>2
  <2>5. /\ reply.number + SumSlack >= Expected(f)
        /\ reply.number - SumSlack <= Expected(f)
    BY <2>2, <2>3, <2>4 DEF Near, AnswersAssumption
  <2>6. /\ Min(mass) * (Unit - SumSlack) \in Int
        /\ Max(mass) * (Unit + SumSlack) \in Int
    <3> HIDE DEF mass
    <3> QED BY <2>3 DEF AnswersAssumption
  <2>7. /\ reply.number + SumSlack >= Min(mass) * (Unit - SumSlack)
        /\ reply.number - SumSlack <= Max(mass) * (Unit + SumSlack)
    <3> HIDE DEF mass
    <3> QED BY <2>3, <2>4, <2>5, <2>6 DEF AnswersAssumption
  <2> QED BY <1>2, <2>2, <2>7
<1> QED BY <1>1, <1>2

-------------------------------------------------------------------------------
(***************************************************************************)
(* The theorems                                                            *)
(***************************************************************************)

(* Whatever the caller, the worker and the server do and when, a deadline  *)
(* keeps one request on the wire and one answer in the queue (perform()).  *)
THEOREM Invariance == Spec => []IInv
<1>1. Init => IInv
  BY InitIInv, TransportAssumption
<1>2. IInv /\ [Next]_vars => IInv'
  BY NextTypeOK, NextProtocol, NextWireInv, NextEarlyInv, NextOutcomeInv, NextSnapshotInv,
     TransportAssumption
  DEF IInv
<1> QED BY <1>1, <1>2, PTL DEF Spec

(* One attempt, and none after a caller that gave up while the worker was  *)
(* still connecting (perform(), lines 241-250).                            *)
THEOREM OneAttemptAtMost == Spec => []SendInv
<1>1. IInv => SendInv
  BY DEF IInv, SendInv, WireInv, OneAttempt, EarlyInv, EarlyTimeoutSendsNothing
<1> QED BY <1>1, Invariance, PTL

(* A validated answer was read whole, within the limit, for a caller that  *)
(* still waits (perform(), lines 262-286).                                 *)
THEOREM OnlyWholeAnswers == Spec => []ValidatedIsWhole
<1>1. IInv => ValidatedIsWhole
  BY DEF IInv, Protocol, OutcomeInv, Validated, ValidatedIsWhole, Outcomes, Errors
<1> QED BY <1>1, Invariance, PTL

(* Summary, payload and answer belong together, and the answer can be used *)
(* (evaluate(), lines 226-310, and validate_response).                     *)
THEOREM AnswersFitTheRequest == Spec => []AnswerInv
<1>1. ASSUME IInv, caller = "validated"
      PROVE  /\ summary = payload /\ payload \in Requests /\ payload = snapshot
             /\ ResponseOK(payload, result)
  BY <1>1 DEF IInv, Protocol, OutcomeInv, Validated, SnapshotInv, Outcomes, Errors, Over
<1>2. IInv => SummaryBindsAnswer
  BY <1>1 DEF SummaryBindsAnswer, ResponseOK
<1>3. ASSUME IInv, caller = "validated", NEW name \in DOMAIN payload.questions
      PROVE  /\ QuestionOK(payload.questions[name])
             /\ IsFiniteSet(payload.questions[name].labels)
             /\ AnswerOK(payload.questions[name], result.answers[name])
  BY <1>1, <1>3, TransportAssumption DEF TransportAssumption, ResponseOK, RequestOK
<1>4. IInv => AnswersAreUsable
  <2> SUFFICES ASSUME IInv, caller = "validated", NEW name \in DOMAIN payload.questions
               PROVE  LET question == payload.questions[name]
                          reply == result.answers[name]
                          mass == {key \in DOMAIN reply.probabilities :
                                     reply.probabilities[key] > 0}
                      IN  /\ question.type = "choice" =>
                               /\ reply.choice \in question.labels
                               /\ (reply.probabilities[reply.choice] + ChoiceSlack)
                                     * Cardinality(question.labels) >= Unit - SumSlack
                          /\ question.type = "score" =>
                               /\ reply.legend = question.rubric
                               /\ reply.number + SumSlack >= Min(mass) * (Unit - SumSlack)
                               /\ reply.number - SumSlack <= Max(mass) * (Unit + SumSlack)
    BY DEF AnswersAreUsable
  <2> QED BY <1>3, AcceptedIsUsable, AnswersAssumption
<1>5. IInv => AnswerInv
  BY <1>2, <1>4 DEF AnswerInv
<1> QED BY <1>5, Invariance, PTL
===============================================================================
