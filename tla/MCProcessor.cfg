SPECIFICATION ESpec
CONSTANTS
  NPlayers = 2
  P = 11
  Degree = 4
  Limbs = 1024
  Alpha <- MCAlpha
  Programs <- MCPrograms
  Inputs <- MCTyped
  Rand <- MCRand
  PublicInput <- MCPublicInput
  NReg = 14
  NMem = 4
  Differences <- MCDifferences
INVARIANTS
  ClearFollowsEmulator
  SharesFollowEmulator
  OutputsRight
  MacrosAgree
