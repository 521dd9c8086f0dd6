SPECIFICATION FairSpec
CONSTANTS
  MaxVersion = 2
  MaxFaults = 2
  Failed = Failed
  Missed = Missed
INVARIANTS BackgroundInv
PROPERTIES NeverGoesBack CatchesUp CancelEnds
