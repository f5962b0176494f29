------------------------------- MODULE Screen -------------------------------
(***************************************************************************)
(* The frame buffer (src/src/framebuffer.c) and puts, which writes to it   *)
(* for a program (src/src/interrupt.c).  The hardware draws the cursor at  *)
(* `cursor'; puts goes on from a row and column of its own, and tells the  *)
(* keyboard driver, whose row and column are in this module because both   *)
(* change them.                                                            *)
(***************************************************************************)
EXTENDS Integers, Sequences

CONSTANTS
  ROWS, COLS,  \* the screen (25 by 80)
  BYTE_RANGE,  \* values of the uint8_t that a row and a column become (256)
  Glyph,       \* characters that can be printed
  Nul,         \* the character 0
  Newline

ASSUME ScreenAssumption ==
  /\ ROWS \in Nat \ {0} /\ COLS \in Nat \ {0}
  /\ BYTE_RANGE \in Nat /\ BYTE_RANGE > ROWS /\ BYTE_RANGE > COLS
  /\ Nul \notin Glyph /\ Newline \notin Glyph /\ Nul # Newline

VARIABLES
  fb,                     \* the characters shown, and whether one was written
                          \* outside of what the screen shows
  cursor,                 \* where the hardware draws its cursor
  cursor_row, cursor_col, \* of puts
  row, col,               \* of the keyboard driver
  wrapped                 \* history: puts has come back to the top row

screen == <<fb, cursor, cursor_row, cursor_col, row, col, wrapped>>

Cell == 0 .. ROWS * COLS - 1
Byte(n) == n % BYTE_RANGE
Index(r, c) == Byte(r) * COLS + Byte(c)

\* What fb becomes when glyph is written at a row and a column.
FramebufferWrite(b, r, c, glyph) ==
  IF Index(r, c) \in Cell THEN [b EXCEPT !.shown[Index(r, c)] = glyph]
                          ELSE [b EXCEPT !.stray = TRUE]

FramebufferClear ==
  fb' = [shown |-> [i \in Cell |-> Nul], stray |-> FALSE]

FramebufferSetCursor(r, c) == cursor' = Index(r, c)

----------------------------------------------------------------------------

Pen == [fb |-> fb, cursor_row |-> cursor_row, cursor_col |-> cursor_col,
        row |-> row, col |-> col, wrapped |-> wrapped]

NextLine(s) == [s EXCEPT !.cursor_row = s.cursor_row + 1, !.cursor_col = 0,
                         !.row = s.cursor_row + 1, !.col = 0]

\* Past the last row puts starts at the top, and tells the column only.
AtBottom(s) ==
  IF s.cursor_row >= ROWS
    THEN [s EXCEPT !.cursor_row = 0, !.col = s.cursor_col, !.wrapped = TRUE]
    ELSE s

Advance(s, glyph) ==
  [s EXCEPT !.fb = FramebufferWrite(s.fb, s.cursor_row, s.cursor_col, glyph),
            !.cursor_col = s.cursor_col + 1,
            !.col = s.cursor_col + 1]

PutChar(s, glyph) ==
  AtBottom(IF glyph = Newline THEN NextLine(s)
           ELSE IF Advance(s, glyph).cursor_col >= COLS
                  THEN NextLine(Advance(s, glyph))
           ELSE Advance(s, glyph))

Puts(str) ==
  LET pens[i \in 0 .. Len(str)] ==
        IF i = 0 THEN Pen ELSE PutChar(pens[i - 1], str[i])
  IN
  \E s \in {pens[Len(str)]} :
    /\ fb' = s.fb
    /\ cursor_row' = s.cursor_row /\ cursor_col' = s.cursor_col
    /\ row' = s.row /\ col' = s.col
    /\ wrapped' = s.wrapped
    /\ FramebufferSetCursor(s.cursor_row, s.cursor_col)

=============================================================================
