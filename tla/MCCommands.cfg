CONSTANTS
  Text <- MCText
  LineTerm <- MCLineTerm
  NUL <- Nul
  Garbage = "garbage"
  Capacity = 2
  MaxWriteBuf = 3
  DestSizes = {1, 3}
  Width = 6
  Calls = 2
  Quote <- MCQuote
  Blank = {" "}
  EndOfString <- Nul
  Input <- MCInput
  DestNelem = {0, 1, 2, 6}
SPECIFICATION CommandsFairSpec
INVARIANTS
  WritesInOrder
  FindsWords
PROPERTIES
  LineOrBeginning
  WriteAllReturns
