CONSTANTS
  l1 = l1
  l2 = l2
  Logins <- TwoLogins
  Lag = 1
  Period = 3
  Ahead = 6
  Lifetime = 8
  AnswerDelay = 1
  RoundTrip = 3
  Horizon = 14
SYMMETRY LoginSymmetry
SPECIFICATION Spec
INVARIANTS
  OneTimer
  RefreshedInTime
PROPERTIES
  TokenReturnedIsValid
