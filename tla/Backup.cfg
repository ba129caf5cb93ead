SPECIFICATION Spec
CONSTANTS
  w1 = w1
  w2 = w2
  c1 = c1
  c2 = c2
  Waiters = {w1, w2}
  ApiOf <- BothApis
  Cancellers = {c1, c2}
INVARIANTS OutcomeIsTrue DenialIsTrue
PROPERTY WaitEnds
