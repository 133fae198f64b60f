CONSTANTS
  first = first
  second = second
  measured = measured
  signed = signed
  probe = probe
  verdict = verdict
  words = words
  Check = {measured, signed}
  Gate = {measured, signed}
  Universal = {measured, signed}
  Class <- MCClass
  Citation = {verdict, words}
  Detector = {probe}
  Implemented = {probe}
  DetectorsOf <- MCDetectorsOf
  Automation <- MCAutomation
  Flag = {}
  FlagsOf <- MCFlagsOf
  Verdict = verdict
  Statement = words
  ExceptionProof = {measured}
  RunId = {first, second}
  Sightings <- MCSightings
  SiteFlags = {}
  Signable = {"passed"}
  MaxTime = 2
  MaxGrades = 2
  MaxAttests = 1
  MaxScope = 2
CONSTANT MCMost = 5
  MCMeanwhile = 2
SYMMETRY MCRunIds
ACTION_CONSTRAINT MCCalm
CONSTRAINT MCBounded
CHECK_DEADLOCK FALSE
INVARIANT LapsedNeedsAnother
SPECIFICATION DeskSpec
