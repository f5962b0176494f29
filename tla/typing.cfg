SPECIFICATION FairSpec
CONSTANTS
  ROWS = 8
  COLS = 4
  BYTE_RANGE = 256
  x = x
  y = y
  mark = mark
  nl = nl
  Glyph = {x, y, mark}
  Nul = nul
  Newline = nl
  Letter = {x, y}
  Enter = enter
  Backspace = backspace
  Silent = {up}
  Deaf = {left}
  Extended = {up, left}
  Prompt <- MCPrompt
  Answers <- MCAnswers
  MaxPresses = 5
  MaxHasty = 3
INVARIANTS
  TypeOK
  OnceInOrder
  NoDeafKeyboard
  ScreenShowsLine
PROPERTIES
  KeysServed
  PressesArrive
