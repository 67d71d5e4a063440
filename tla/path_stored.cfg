SPECIFICATION Spec
CONSTANTS
  Requests <- OneWhole
  BufSize = 32
  Behind <- SomeBehind
  Chars = {"CR", "LF", "SP", ":", "/", "?", "0", "2", ".", "C", "G", "E", "H", "K", "N", "O", "P", "T", "U"}
  Limit = 64
  Byte = 256
  Size = 65536
  MaxDigits = 1
INVARIANTS
  PathStored
