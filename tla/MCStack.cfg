SPECIFICATION Spec
CONSTANTS
  a = a
  b = b
  c = c
  d = d
  Classes <- MCClasses
  CoverageOf <- MCCoverageOf
  BeamWidth <- Beam
  MaxDistortion = 1
  NBestSize = 1
  Settings <- MCSettings
SYMMETRY ClassSymmetry
INVARIANTS
  LossOnlyBelowRankOrBeam
  StackContract
  OneOwner
  DiversityKept
  ArcsAreWorseAlternatives
CHECK_DEADLOCK FALSE
