SPECIFICATION Spec
CONSTANTS
  Moduli <- MCModuli
  RootModuli <- MCRootModuli
  Degrees = {4, 8, 28, 40}
  SmallPrime = 46337
  LargePrime = 1048573
  Kappa = 2
  Lengths = {2, 3}
  Draws = {77, 4095}
INVARIANTS
  PrimeFieldRight
  BinaryFieldRight
  ComparisonsRight
  NumbersRight
  DataStructuresRight
  EncryptionRight
CHECK_DEADLOCK FALSE
