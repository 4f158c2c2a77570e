\* Answers of up to three chunks against a limit of two.
CONSTANTS
  MaxChunks = 2
  MaxAnswer = 3
  Unit <- MCUnit
  SumSlack <- MCSumSlack
  ChoiceSlack <- MCChoiceSlack
  Requests <- MCRequests
  Responses <- MCResponses
  None = None
SPECIFICATION PatientSpec
INVARIANTS SendInv ValidatedIsWhole AnswerInv
PROPERTIES CallerReturns WorkerCleansUp
