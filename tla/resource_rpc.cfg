SPECIFICATION Spec
CONSTANTS
  name = name
  size = size
  id = id
  token = token
  v1 = v1
  v2 = v2
  Null = Null
  Unknown = Unknown
  Absent = Absent
  NoPrivate = NoPrivate
  Attr = {name, size, id, token}
  Value = {v1, v2}
  Required = {name}
  Computed = {size, id}
  WriteOnly = {token}
  ReplaceOn = {id}
  Private = {p1}
  Default <- MCDefault
  Config <- MCConfig
  Author <- MCAuthor
INVARIANTS PlansAreAccepted HonestApplyIsAccepted SuccessKeepsPlan PlanConverges OrphansAreReported
PROPERTIES DeletesArePlanned PrivateSurvives
