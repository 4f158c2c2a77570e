\* The comment on delayed connects, against http.client's reconnect.
CONSTANTS
  MaxChunks = 1
  MaxAnswer = 1
  Unit <- MCUnit
  SumSlack <- MCSumSlack
  ChoiceSlack <- MCChoiceSlack
  Requests <- MCRequests
  Responses <- MCResponses
  None = None
SPECIFICATION Spec
INVARIANT DelayedConnectNotSent
