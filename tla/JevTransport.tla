----------------------------- MODULE JevTransport -----------------------------
(***************************************************************************)
(* One call of evaluate() in src/szl_calibration/jev.py: the calling       *)
(* thread, the daemon worker that talks HTTP, and what they share: the     *)
(* cancelled event, the result queue (one slot), the list that holds the   *)
(* connection, and the connection itself.  The request is an object of the *)
(* program that calls evaluate(), whose other threads may change it at any *)
(* time: between its checks and the snapshot of it too.                    *)
(*                                                                         *)
(* The connection is http.client's: close() forgets the socket, and a send *)
(* on a connection without a socket connects again (auto_open).  A         *)
(* response reads through a file of its own, which keeps the socket open.  *)
(* If the provider keeps the connection alive the connection remembers the *)
(* response, and close() then waits for the lock of that file, which a     *)
(* read holds until it returns; otherwise the socket is the response's.    *)
(*                                                                         *)
(* The provider's answer is a number of chunks, the limit on them          *)
(* MaxChunks; a body that was cut short is not a JSON document.  What the  *)
(* body says is picked where it is parsed, the first time anything depends *)
(* on it.                                                                  *)
(***************************************************************************)
EXTENDS JevAnswers

CONSTANTS MaxChunks,      \* max_response_bytes, in chunks
          MaxAnswer,      \* bound: length of the longest answer
          Requests,       \* what the caller's object may hold
          Responses,      \* what the provider may say
          None

ASSUME TransportAssumption ==
  /\ MaxChunks \in Nat /\ MaxAnswer \in Nat
  /\ None \notin Requests \cup Responses
  /\ \A request \in Requests : \A name \in DOMAIN request.questions :
       IsFiniteSet(request.questions[name].labels)

VARIABLES
  given,       \* the object evaluate() was called with
  snapshot,    \* "request" from line 226 on: parsed back from canonical bytes
  payload,     \* the body of the request to the provider
  result,      \* the provider's answer, once it was validated
  summary,     \* the request the returned summary describes
  caller,      \* "start", "waiting", "closing", "releasing" or how evaluate() ended
  worker,      \* where perform() is
  cancelled,   \* the event
  results,     \* the queue
  holder,      \* connection_holder has the connection
  sock,        \* the connection has an open socket
  kept,        \* the connection remembers its response
  sent,        \* requests sent to the provider
  total, got,  \* chunks of the provider's answer, and those read
  early,       \* the caller gave up before the worker looked at "cancelled"
  late         \* a connect() finished after the caller gave up

vars == <<given, snapshot, payload, result, summary,
          caller, worker, cancelled, results, holder, sock, kept,
          sent, total, got, early, late>>

objects == <<given, snapshot, payload, result, summary>>
callerVars == <<caller, cancelled, early>>
answer == <<total, got>>

Errors == {"provider_transport_error", "rejected", "response_too_large", "invalid_answer"}
Outcomes == Errors \cup {"validated"}
Refused == {"invalid_request", "invalid_settings"}
Ended == Outcomes \cup Refused \cup {"provider_timeout_outcome_unknown"}

Unchecked == {"create", "connect", "check"}     \* before line 248 was passed
Running == Unchecked \cup {"request", "reconnected", "respond", "read", "blocked", "eof",
                           "validate", "close"}

Init == /\ given \in Requests
        /\ snapshot = None /\ payload = None /\ result = None /\ summary = None
        /\ caller = "start" /\ worker = "idle"
        /\ cancelled = FALSE
        /\ results = <<>>
        /\ holder = FALSE /\ sock = FALSE /\ kept = FALSE
        /\ sent = 0 /\ total = 0 /\ got = 0
        /\ early = FALSE /\ late = FALSE

-------------------------------------------------------------------------------
(* The worker                                                              *)

(* results.put(): blocks while the slot is taken.  Then "finally" closes.  *)
Put(outcome) == /\ results = <<>>
                /\ results' = <<outcome>>
                /\ worker' = "close"

Create ==
  /\ worker = "create"
  /\ \/ Put("provider_transport_error") /\ UNCHANGED holder
     \/ worker' = "connect" /\ holder' = TRUE /\ UNCHANGED results
  /\ UNCHANGED <<objects, callerVars, sock, kept, sent, answer, late>>

(* Mutant: the event is looked at before the slow part, not after it.      *)
ConnectUnchecked ==
  /\ worker = "connect"
  /\ \/ Put("provider_transport_error") /\ UNCHANGED <<sock, late>>
     \/ /\ worker' = "request" /\ sock' = TRUE /\ late' = cancelled
        /\ UNCHANGED results
  /\ UNCHANGED <<objects, callerVars, holder, kept, sent, answer>>

Connect ==
  /\ worker = "connect"
  /\ \/ Put("provider_transport_error") /\ UNCHANGED <<sock, late>>
     \/ /\ worker' = "check" /\ sock' = TRUE /\ late' = cancelled
        /\ UNCHANGED results
  /\ UNCHANGED <<objects, callerVars, holder, kept, sent, answer>>

CheckCancelled ==
  /\ worker = "check"
  /\ worker' = IF cancelled THEN "close" ELSE "request"
  /\ UNCHANGED <<objects, callerVars, results, holder, sock, kept, sent, answer, late>>

(* connection.request(): on an open socket the request goes out; on one    *)
(* the caller has closed meanwhile, http.client first connects again.      *)
Request ==
  /\ worker = "request"
  /\ \/ Put("provider_transport_error") /\ UNCHANGED <<sock, sent, late>>
     \/ /\ sock
        /\ sent' = sent + 1 /\ worker' = "respond"
        /\ UNCHANGED <<sock, results, late>>
     \/ /\ ~sock
        /\ sock' = TRUE /\ late' = (late \/ cancelled)
        /\ worker' = "reconnected"
        /\ UNCHANGED <<sent, results>>
  /\ UNCHANGED <<objects, callerVars, holder, kept, answer>>

SendReconnected ==
  /\ worker = "reconnected"
  /\ \/ Put("provider_transport_error") /\ UNCHANGED sent
     \/ sock /\ sent' = sent + 1 /\ worker' = "respond" /\ UNCHANGED results
  /\ UNCHANGED <<objects, callerVars, holder, sock, kept, answer, late>>

(* getresponse() and the checks of status, content type and length.  The   *)
(* file is made before the headers are read: a caller that closes          *)
(* meanwhile takes the connection's socket, not the response's.            *)
Respond ==
  /\ worker = "respond"
  /\ \/ Put("provider_transport_error") /\ UNCHANGED <<sock, kept, total>>
     \/ /\ kept' \in BOOLEAN /\ sock' = (sock /\ kept')
        /\ \/ Put("rejected") /\ UNCHANGED total
           \/ /\ total' \in 0 .. MaxAnswer
              /\ \/ worker' = "read" /\ UNCHANGED results
                 \/ total' > MaxChunks /\ Put("response_too_large")   \* by Content-Length
  /\ UNCHANGED <<objects, callerVars, holder, sent, got, late>>

ReadLoop ==
  /\ worker = "read"
  /\ worker' = IF cancelled THEN "eof" ELSE "blocked"
  /\ UNCHANGED <<objects, callerVars, results, holder, sock, kept, sent, answer, late>>

(* One read(): data, the end of the body, or an error.  A connection that  *)
(* was cut, or let go by the caller, reads as the end of the body too.     *)
Read ==
  /\ worker = "blocked"
  /\ \/ Put("provider_transport_error") /\ UNCHANGED got
     \/ worker' = "eof" /\ UNCHANGED <<results, got>>
     \/ /\ got < total
        /\ got' = got + 1
        /\ IF got' > MaxChunks THEN Put("response_too_large")
           ELSE worker' = "read" /\ UNCHANGED results
  /\ UNCHANGED <<objects, callerVars, holder, sock, kept, sent, total, late>>

EndOfBody ==
  /\ worker = "eof"
  /\ worker' = IF cancelled THEN "close" ELSE "validate"
  /\ UNCHANGED <<objects, callerVars, results, holder, sock, kept, sent, answer, late>>

(* Mutant: the caller's object itself, as if there were no snapshot.       *)
RequestNowAlias == given

(* The request as evaluate() and its worker see it.                        *)
RequestNow == snapshot

(* Mutant: what arrived is taken for the answer.                           *)
ValidateLenient ==
  /\ worker = "validate"
  /\ Put("validated")
  /\ result' \in {response \in Responses : ResponseOK(RequestNow, response)}
  /\ UNCHANGED <<given, snapshot, payload, summary,
                 callerVars, holder, sock, kept, sent, answer, late>>

(* What is not JSON, or holds the credential, is an invalid answer; so is  *)
(* every answer to a snapshot that is itself not a valid request.          *)
Validate ==
  /\ worker = "validate"
  /\ \/ Put("invalid_answer") /\ UNCHANGED result
     \/ /\ got = total /\ total > 0
        /\ result' \in {response \in Responses : ResponseOK(RequestNow, response)}
        /\ Put("validated")
  /\ UNCHANGED <<given, snapshot, payload, summary,
                 callerVars, holder, sock, kept, sent, answer, late>>

(* Mutant: without the "finally".                                          *)
CloseForgotten ==
  /\ worker = "close"
  /\ worker' = "done"
  /\ UNCHANGED <<objects, callerVars, results, holder, sock, kept, sent, answer, late>>

Close ==
  /\ worker = "close"
  /\ sock' = FALSE /\ kept' = FALSE /\ worker' = "done"
  /\ UNCHANGED <<objects, callerVars, results, holder, sent, answer, late>>

Worker == \/ Create \/ Connect \/ CheckCancelled \/ Request \/ SendReconnected \/ Respond
          \/ ReadLoop \/ Read \/ EndOfBody \/ Validate \/ Close

-------------------------------------------------------------------------------
(* The caller                                                              *)

(* The calling program changes the object, from another thread.            *)
Change ==
  /\ caller \notin Ended
  /\ given' \in Requests \ {given}
  /\ UNCHANGED <<snapshot, payload, result, summary, worker, results, holder, sock, kept, sent,
                 answer, callerVars, late>>

(* The checks of validate_request.                                         *)
Check ==
  /\ caller = "start"
  /\ caller' = IF RequestOK(given) THEN "checked" ELSE "invalid_request"
  /\ UNCHANGED <<objects, worker, cancelled, results, holder, sock, kept, sent, answer,
                 early, late>>

(* Its last lines serialise the object, whatever it holds by now; then     *)
(* come timeout, limit and key, the payload, and the worker's start.  The  *)
(* serialisation may fail or be too large.                                 *)
Start ==
  /\ caller = "checked"
  /\ \/ caller' \in Refused /\ UNCHANGED <<snapshot, payload, worker>>
     \/ /\ snapshot' = given /\ payload' = given
        /\ caller' = "waiting" /\ worker' = "create"
  /\ UNCHANGED <<given, result, summary,
                 cancelled, results, holder, sock, kept, sent, answer, early, late>>

(* An error is raised; an answer is returned with the request's summary.   *)
Get ==
  /\ caller = "waiting" /\ results # <<>>
  /\ caller' = results[1] /\ results' = <<>>
  /\ summary' = IF results[1] = "validated" THEN RequestNow ELSE summary
  /\ UNCHANGED <<given, snapshot, payload, result,
                 worker, cancelled, holder, sock, kept, sent, answer, early, late>>

(* Mutant: get() without a timeout.                                        *)
NeverTimeout == FALSE /\ UNCHANGED vars

(* queue.Empty: the timer ran out and nothing is in the queue.             *)
Timeout ==
  /\ caller = "waiting" /\ results = <<>>
  /\ cancelled' = TRUE
  /\ early' = (worker \in Unchecked)
  /\ caller' = "closing"
  /\ UNCHANGED <<objects, worker, results, holder, sock, kept, sent, answer, late>>

(* connection.close() forgets socket and response, and then closes the     *)
(* response, if there was one ...                                          *)
CloseHeld ==
  /\ caller = "closing"
  /\ IF holder THEN sock' = FALSE /\ kept' = FALSE ELSE UNCHANGED <<sock, kept>>
  /\ caller' = IF holder /\ kept THEN "releasing" ELSE "provider_timeout_outcome_unknown"
  /\ UNCHANGED <<objects, worker, cancelled, results, holder, sent, answer, early, late>>

(* ... once no read of the worker holds the lock of its file.              *)
CloseResponse ==
  /\ caller = "releasing" /\ worker # "blocked"
  /\ caller' = "provider_timeout_outcome_unknown"
  /\ UNCHANGED <<objects, worker, cancelled, results, holder, sock, kept, sent, answer,
                 early, late>>

Caller == Check \/ Start \/ Get \/ Timeout \/ CloseHeld \/ CloseResponse

Finished == caller \in Ended /\ worker \in {"idle", "done"} /\ UNCHANGED vars

Next == Worker \/ Caller \/ Change \/ Finished

Spec == Init /\ [][Next]_vars

(* The clock runs and the calling thread is scheduled; the network owes    *)
(* nothing: platform DNS and socket calls may never return.                *)
PatientSpec == Spec /\ WF_vars(Caller)

-------------------------------------------------------------------------------
(* Properties                                                              *)

TypeOK == /\ given \in Requests
          /\ {snapshot, payload, summary} \subseteq Requests \cup {None}
          /\ result \in Responses \cup {None}
          /\ caller \in {"start", "checked", "waiting", "closing", "releasing"} \cup Ended
          /\ worker \in Running \cup {"idle", "done"}
          /\ cancelled \in BOOLEAN /\ holder \in BOOLEAN
          /\ sock \in BOOLEAN /\ kept \in BOOLEAN
          /\ early \in BOOLEAN /\ late \in BOOLEAN
          /\ results \in Seq(Outcomes) /\ Len(results) <= 1
          /\ sent \in Nat
          /\ total \in 0 .. MaxAnswer /\ got \in 0 .. total

(* One attempt: no path through the worker, a reconnect included, sends    *)
(* the request twice (docs/JEV_ADAPTER.md, "performs no retries").         *)
OneAttempt == sent <= 1

(* An answer is handed to the caller only when the one request was sent    *)
(* and its answer was read whole, within the limit and before the caller   *)
(* gave up: closing the connection under the reader never produces one.    *)
ValidatedIsWhole ==
  caller = "validated" =>
    sent = 1 /\ got = total /\ total \in 1 .. MaxChunks /\ ~cancelled

(* What is returned is of one piece: the summary, the payload the provider *)
(* answered and the answer are about the same valid request, however the   *)
(* caller's object was changed meanwhile.                                  *)
SummaryBindsAnswer ==
  caller = "validated" =>
    /\ summary = payload /\ RequestOK(payload)
    /\ result.model = payload.model
    /\ DOMAIN result.answers = DOMAIN payload.questions

(* An answer that was handed out can be used as one: a choice is a label   *)
(* of its question no less likely than an even split makes it, a score     *)
(* lies between the levels of its rubric that have mass, up to the slack   *)
(* the sums and the comparison leave.                                      *)
AnswersAreUsable ==
  caller = "validated" =>
    \A name \in DOMAIN payload.questions :
      LET question == payload.questions[name]
          reply == result.answers[name]
          mass == {key \in DOMAIN reply.probabilities : reply.probabilities[key] > 0}
      IN  /\ question.type = "choice" =>
               /\ reply.choice \in question.labels
               /\ (reply.probabilities[reply.choice] + ChoiceSlack)
                     * Cardinality(question.labels) >= Unit - SumSlack
          /\ question.type = "score" =>
               /\ reply.legend = question.rubric
               /\ reply.number + SumSlack >= Min(mass) * (Unit - SumSlack)
               /\ reply.number - SumSlack <= Max(mass) * (Unit + SumSlack)

(* A worker that is still connecting when the caller gives up sends        *)
(* nothing, whenever the connect returns.                                  *)
EarlyTimeoutSendsNothing == early => sent = 0

(* jev.py, lines 301-302: "A delayed DNS result checks cancelled before    *)
(* sending."  The connect inside a send on a connection the caller closed  *)
(* after line 248 was passed is followed by no such check.                 *)
DelayedConnectNotSent == late => sent = 0

(* The types, and both bounds on what is sent.                             *)
SendInv == TypeOK /\ OneAttempt /\ EarlyTimeoutSendsNothing

(* What is handed out fits the request and can be used.                    *)
AnswerInv == SummaryBindsAnswer /\ AnswersAreUsable

(* Only a read of the answer that never returns keeps the caller: one that *)
(* the timeout finds in a DNS lookup, a connect, a send or the headers is  *)
(* left behind (evaluate(), lines 295-309).                                *)
CallerReturns == caller = "waiting" ~> caller \in Ended \/ [](worker = "blocked")

(* jev.py, line 223: "A daemon worker bounds the caller's wait even if     *)
(* platform DNS/socket operations stall."  The close at line 305 waits for *)
(* the read at line 269.                                                   *)
WaitIsBounded == caller = "waiting" ~> caller \in Ended

(* If socket operations return, with data, an end or an error, as the      *)
(* socket's own timeout makes them, the worker ends too and leaves no open *)
(* connection, the one of a reconnect after the timeout included: it never *)
(* waits for room in the queue nobody reads any more.                      *)
SocketsReturn == WF_vars(Worker)
WorkerCleansUp ==
  SocketsReturn => (caller = "waiting" ~> [](worker = "done" /\ ~sock /\ ~kept))
===============================================================================
