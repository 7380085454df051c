SPECIFICATION FairSpec
CONSTANTS
  Objects <- SmallObjects
  Tails = {0, 3}
  FirstAlign = 8
INVARIANTS TypeOK CountersMeasure WrittenIsMeasured RetryIsHopeless
PROPERTIES MeasurableIsWritten
