SPECIFICATION MessageSpec
CONSTANTS
  MaxBodyLength = 512
  SizeModulus = 1073741824
  Chars <- MCChars
INVARIANTS
  BodyFits
  FramingAgrees
