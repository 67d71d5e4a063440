SPECIFICATION Spec
CONSTANTS
  Chars = {"CR", "LF", "SP", ":", "/", "0", "2", ".", "C", "O", "T", "E", "H", "P"}
  Types = {"REQUEST"}
  HeaderResults = {0, 1}
  Limit = 4
  Byte = 4
  Size = 8
  MaxDigits = 1
INVARIANTS
  BodyAsAnnounced CutsDoNotMatter CallbacksInOrder AssertionsHold TypeOK ParserInv
CHECK_DEADLOCK FALSE
