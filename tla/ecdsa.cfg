\* Every limb, carry and branch of the curve arithmetic on a small curve.
SPECIFICATION Spec
CHECK_DEADLOCK FALSE
CONSTANTS
  LimbBits = 2
  Limbs = 3
  Prime = 53
  Order = 41
  CurveB = 47
  Gx = 2
  Gy = 7
  TwiceX = 34
  TwiceY = 33
  ThriceX = 10
  ThriceY = 13
  Signatures <- MCSignatures
  Agreements <- MCAgreements
  Operands <- MCOperands
INVARIANTS TypeOK ArithmeticExact LoopExact VerdictExact
