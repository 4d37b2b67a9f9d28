CONSTANTS
  ByteBits = 4
  Bits16 = 8
  Poly16 <- Poly07
  Bits32 = 16
  Poly32 <- Poly8005
  MaxLength = 3
  MaxTexts = 1
SPECIFICATION Spec
INVARIANTS RemainderOfText OnlyTrailerVerified AgonAgreesWithPc
CHECK_DEADLOCK FALSE
