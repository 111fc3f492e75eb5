SPECIFICATION Spec
CONSTANTS
  Numbers <- MCNumbers
  Decimal <- ToString
  Wants <- MCWants
  MaxAnswer = 2
  ChanCap = 1
  MaxRestarts = 1
INVARIANTS TypeOK OncePerProcess NothingForgotten UnderstoodAsMeant StartedInOrder
PROPERTIES EveryUpdateEnds
CHECK_DEADLOCK FALSE
