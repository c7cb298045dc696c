SPECIFICATION ScreenSpec
CONSTANTS
  Rows = 2
  Cols = 2
  NL = NL
  Blank = Blank
  m = m
  h = h
  MainMessages <- MCMainMessages
  HandlerStrings <- MCHandlerStrings
  MaxText = 8
  Characters <- MCCharacters
INVARIANTS
  CursorOnScreen
  ShowsText
  TextInPlace
