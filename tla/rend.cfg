SPECIFICATION Spec
CONSTANTS
  s1 = s1
  i1 = i1
  i2 = i2
  Streams <- MCStreams
  CCircs <- MCCCircs
  SCircs <- MCSCircs
  IntroRelays <- MCIntroRelays
  RendPoint = rp
  NumIntro = 2
  MaxRendFailures = 1
  Dirs = 2
  MaxUploads = 2
  MaxFaults = 1
INVARIANT SpliceOK
INVARIANT OneAnswer
INVARIANT JoinedOrTold
INVARIANT SomebodyAsked
SYMMETRY RelaySymmetry
CHECK_DEADLOCK FALSE
