SPECIFICATION FairSpec
CONSTANTS
  ROWS = 3
  COLS = 4
  BYTE_RANGE = 256
  x = x
  y = y
  mark = mark
  nl = nl
  Glyph = {x, mark}
  Nul = nul
  Newline = nl
  Letter = {x}
  Enter = enter
  Backspace = backspace
  Silent = {up}
  Deaf = {left}
  Extended = {up, left}
  Prompt <- MCPrompt
  Answers <- OneAnswer
  MaxPresses = 1
  MaxHasty = 1
PROPERTY
  KeysListenedTo
