SPECIFICATION Spec
CONSTANTS
  Chars = {"CR", "LF", "SP", ":", "/", "?", "#", "0", "2", ".", "C", "G", "E", "H", "T", "P", "U"}
  Types = {"BOTH"}
  HeaderResults = {0}
  Limit = 4
  Byte = 4
  Size = 4
  MaxDigits = 1
INVARIANTS
  CutsDoNotMatter PiecesCoverStrings ParserInv
CHECK_DEADLOCK FALSE
