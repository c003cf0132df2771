SPECIFICATION Spec
CONSTANTS
  Requests <- MCRequests
  Responses <- MCResponses
  MaxRequests = 3
  FieldMax = 2048
  RequestMax = 4096
INVARIANTS
  TypeOK
  AnswersInOrder
  DeviceSeesValid
  EncodingsAgree
PROPERTIES
  EveryLineAnswered
CHECK_DEADLOCK FALSE
