SPECIFICATION Spec
CONSTANTS
  Texts <- Both
  Longest = 3
  LongestRaw = 4
  Border = {97, 128, 143, 144, 159, 160, 191, 193, 194, 223, 224, 240, 244, 245}
INVARIANT OnePlaceEach
INVARIANT MarksAreDecodable
INVARIANT ValidatesExactly
PROPERTY ReadsTheText
CHECK_DEADLOCK FALSE
