SPECIFICATION Spec
CONSTANTS
  c1 = c1
  c2 = c2
  c3 = c3
  k1 = k1
  p = p
  q = q
  Calls <- TwoCalls
  Endpoints <- TwoEndpoints
  Keys <- OneKey
  NoKey = NoKey
  Payloads <- TwoPayloads
  Invalid = Invalid
  NoCall = NoCall
  NoAnswer = NoAnswer
  MaxRestarts = 0
  OverlapKeys = TRUE
INVARIANT ReuseIsReported
CHECK_DEADLOCK FALSE
