CONSTANTS
  MaxDemuxBits = 1
  Indices = {0, 1}
  MaxAccesses = 3
  DeepLeaves = {1, 6}
  MaxPermuted = 1
SPECIFICATION Spec
PROPERTY FindsWhatWasLeft
CHECK_DEADLOCK FALSE
