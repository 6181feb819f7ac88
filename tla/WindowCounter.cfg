\* Four boundaries; requests below a limit above the period, and token amounts
\* that overshoot it well into the window after the next.
CONSTANTS
  Period = 4
  Limit = 5
  Charges = {1, 7}
  LastTime = 17
  MaxCharged = 15
SPECIFICATION CounterSpec
INVARIANTS
  RetryIsLeast
  NoDoubleBurst
PROPERTIES
  CountsWhatHappened
