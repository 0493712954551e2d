CONSTANTS
  s1 = s1
  s2 = s2
  Nil = Nil
  Starts = {s1, s2}
  Radix = 16
  HexDigit <- MCHexDigit
  HexRadix = 4
  Words = 4096
  Numbers <- MCNumbers
  Prime = 11
  Gen = 2
  Exps = {3, 4}
  Garbled = {7}
  MaxC = 2

SPECIFICATION ClientSpec

INVARIANTS
  InnerDataValidated
