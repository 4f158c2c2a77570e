\* The comment on the caller's wait, against http.client's close().
CONSTANTS
  MaxChunks = 1
  MaxAnswer = 1
  Unit <- MCUnit
  SumSlack <- MCSumSlack
  ChoiceSlack <- MCChoiceSlack
  Requests <- MCRequests
  Responses <- MCResponses
  None = None
SPECIFICATION PatientSpec
PROPERTY WaitIsBounded
