CONSTANTS
  Top = 7
  Response = 6
  Question <- MCQuestion
SPECIFICATION Spec
INVARIANTS
  WalkExact
  InsideKey
  AnswerVerifies
