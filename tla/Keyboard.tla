------------------------------ MODULE Keyboard ------------------------------
(***************************************************************************)
(* The keyboard: a controller that holds scan codes and raises an          *)
(* interrupt for the first one, and the driver of src/src/keyboard.c,      *)
(* whose handler runs to its end with interrupts off.                      *)
(*                                                                         *)
(* A scan code is what a key sends when it is pressed, and again while it  *)
(* is held ("make"), when it is let go ("break"), or the byte before       *)
(* either ("prefix", 0xE0).  It carries the number of the press, `at'.     *)
(***************************************************************************)
EXTENDS Screen

CONSTANTS
  Letter,           \* keys with a character, shown as themselves
  Enter, Backspace,
  Silent,           \* keys the handler takes for a character 0: Shift, Up
  Deaf,             \* keys whose make code it passes over: Left, Delete
  Extended          \* the ones of the last two sets that send a prefix: arrows

Key == Letter \cup {Enter, Backspace} \cup Silent \cup Deaf

ASSUME KeyAssumption ==
  /\ Letter \subseteq Glyph
  /\ Enter \notin Letter /\ Backspace \notin Letter /\ Enter # Backspace
  /\ Extended \subseteq Silent \cup Deaf
  /\ (Silent \cup Deaf) \cap (Letter \cup {Enter, Backspace}) = {}
  /\ Silent \cap Deaf = {}

VARIABLES
  queue,             \* scan codes that the driver has not read
  full,              \* the first one is in the output buffer (port 0x60)
  irq,               \* the interrupt it raised has not been taken
  keyboard_input_on, keyboard_buffer,  \* keyboard_state
  key_pressed, backspace_pressed

controller == <<queue, full, irq>>
driver == <<keyboard_input_on, keyboard_buffer, key_pressed, backspace_pressed>>

Scancode == [code : {"make", "break", "prefix"}, key : Key, at : Nat]
NoChar   == [ch |-> Nul, at |-> 0]
Char     == [ch : Letter \cup {Newline}, at : Nat]

\* What the key k sends: its byte, after a prefix if it is an arrow.
Codes(c, k, n) ==
  (IF k \in Extended THEN <<[code |-> "prefix", key |-> k, at |-> n]>> ELSE << >>)
    \o <<[code |-> c, key |-> k, at |-> n]>>

\* The controller raises its interrupt when a byte enters the output buffer,
\* and not again until that byte has been read.
Announce ==
  /\ queue # << >> /\ ~ full
  /\ full' = TRUE /\ irq' = TRUE
  /\ UNCHANGED queue

----------------------------------------------------------------------------
\* keyboard_isr, branch by branch.  pic_ack ends every one of them.

\* Reading port 0x60 lets the next byte into the output buffer.
TakeScancode ==
  /\ irq /\ keyboard_input_on
  /\ queue' = Tail(queue) /\ full' = FALSE /\ irq' = FALSE

scancode == Head(queue)
Above80 == scancode.code \in {"break", "prefix"}

\* The keyboard is off: nothing is read, so the output buffer stays full.
IsrOff ==
  /\ irq /\ ~ keyboard_input_on
  /\ irq' = FALSE
  /\ keyboard_buffer' = NoChar
  /\ UNCHANGED <<queue, full, keyboard_input_on, key_pressed,
                 backspace_pressed, screen>>

IsrBackspace ==
  /\ TakeScancode
  /\ scancode.code = "make" /\ scancode.key = Backspace
  /\ IF col >= 1
       THEN /\ backspace_pressed' = TRUE
            /\ fb' = FramebufferWrite(fb, row, col - 1, Nul)
            /\ FramebufferSetCursor(row, col - 1)
            /\ col' = col - 1
            /\ keyboard_buffer' = NoChar
       ELSE UNCHANGED <<backspace_pressed, fb, cursor, col, keyboard_buffer>>
  /\ UNCHANGED <<keyboard_input_on, key_pressed, cursor_row, cursor_col, row,
                 wrapped>>

\* Mutant of IsrEnter: keeps the key instead of its character.
IsrEnterUnmapped ==
  /\ TakeScancode
  /\ scancode.code = "make" /\ scancode.key = Enter /\ ~ key_pressed
  /\ row' = row + 1 /\ col' = 0
  /\ FramebufferSetCursor(row + 1, 0)
  /\ key_pressed' = TRUE
  /\ keyboard_buffer' = [ch |-> scancode.key, at |-> scancode.at]
  /\ UNCHANGED <<keyboard_input_on, backspace_pressed, fb, cursor_row,
                 cursor_col, wrapped>>

\* Mutant of IsrEnter: turns the keyboard off and not on again.
IsrEnterTurnedOff ==
  /\ TakeScancode
  /\ scancode.code = "make" /\ scancode.key = Enter /\ ~ key_pressed
  /\ row' = row + 1 /\ col' = 0
  /\ FramebufferSetCursor(row + 1, 0)
  /\ key_pressed' = TRUE
  /\ keyboard_input_on' = FALSE
  /\ keyboard_buffer' = [ch |-> Newline, at |-> scancode.at]
  /\ UNCHANGED <<backspace_pressed, fb, cursor_row, cursor_col, wrapped>>

IsrEnter ==
  /\ TakeScancode
  /\ scancode.code = "make" /\ scancode.key = Enter /\ ~ key_pressed
  /\ row' = row + 1 /\ col' = 0
  /\ FramebufferSetCursor(row + 1, 0)
  /\ key_pressed' = TRUE
  /\ keyboard_buffer' = [ch |-> Newline, at |-> scancode.at]
  /\ UNCHANGED <<keyboard_input_on, backspace_pressed, fb, cursor_row,
                 cursor_col, wrapped>>

\* keyboard_scancode_1_to_ascii_map, with the number of the press.
MappedChar ==
  IF scancode.key \in Letter THEN [ch |-> scancode.key, at |-> scancode.at]
                             ELSE NoChar

\* The column moves on when the key is let go.
IsrCharacter ==
  /\ TakeScancode
  /\ scancode.code = "make" /\ scancode.key \in Letter \cup Silent /\ ~ key_pressed
  /\ fb' = FramebufferWrite(fb, row, col, MappedChar.ch)
  /\ FramebufferSetCursor(row, col + 1)
  /\ keyboard_buffer' = MappedChar
  /\ key_pressed' = TRUE
  /\ UNCHANGED <<keyboard_input_on, backspace_pressed, cursor_row, cursor_col,
                 row, col, wrapped>>

IsrAfterBackspace ==
  /\ TakeScancode
  /\ Above80 /\ backspace_pressed
  /\ backspace_pressed' = FALSE
  /\ keyboard_buffer' = NoChar
  /\ col' = IF keyboard_buffer # NoChar THEN col - 1 ELSE col
  /\ UNCHANGED <<keyboard_input_on, key_pressed, fb, cursor, cursor_row,
                 cursor_col, row, wrapped>>

\* Mutant of IsrRelease: moves on after Enter too.
IsrReleaseAny ==
  /\ TakeScancode
  /\ Above80 /\ ~ backspace_pressed /\ key_pressed
  /\ key_pressed' = FALSE
  /\ col' = col + 1
  /\ UNCHANGED <<keyboard_input_on, keyboard_buffer, backspace_pressed, fb,
                 cursor, cursor_row, cursor_col, row, wrapped>>

\* Mutant of IsrRelease: forgets a character that has not been polled.
IsrReleaseFlush ==
  /\ TakeScancode
  /\ Above80 /\ ~ backspace_pressed /\ key_pressed
  /\ ~ (scancode.code = "break" /\ scancode.key = Enter)
  /\ key_pressed' = FALSE
  /\ col' = col + 1
  /\ keyboard_buffer' = NoChar
  /\ UNCHANGED <<keyboard_input_on, backspace_pressed, fb, cursor, cursor_row,
                 cursor_col, row, wrapped>>

EnterBreak == scancode.code = "break" /\ scancode.key = Enter

IsrRelease ==
  /\ TakeScancode
  /\ Above80 /\ ~ EnterBreak /\ ~ backspace_pressed /\ key_pressed
  /\ key_pressed' = FALSE
  /\ col' = col + 1
  /\ UNCHANGED <<keyboard_input_on, keyboard_buffer, backspace_pressed, fb,
                 cursor, cursor_row, cursor_col, row, wrapped>>

IsrEnterRelease ==
  /\ TakeScancode
  /\ EnterBreak /\ ~ backspace_pressed
  /\ key_pressed' = FALSE
  /\ UNCHANGED <<keyboard_input_on, keyboard_buffer, backspace_pressed, screen>>

IsrPrefix ==
  /\ TakeScancode
  /\ scancode.code = "prefix" /\ ~ backspace_pressed /\ ~ key_pressed
  /\ col' = col - 1
  /\ FramebufferSetCursor(row, col - 1)
  /\ UNCHANGED <<driver, fb, cursor_row, cursor_col, row, wrapped>>

\* Codes that no branch is for: a key held or pressed beside another, and the
\* release of one that was.
\* Mutant of IsrPassOver: acknowledges a code without reading it.
IsrPassOverUnread ==
  /\ irq /\ keyboard_input_on
  /\ scancode.code = "make" /\ scancode.key # Backspace
  /\ key_pressed \/ scancode.key \in Deaf
  /\ irq' = FALSE
  /\ UNCHANGED <<queue, full, driver, screen>>

IsrPassOver ==
  /\ TakeScancode
  /\ \/ /\ scancode.code = "make" /\ scancode.key # Backspace
        /\ key_pressed \/ scancode.key \in Deaf
     \/ /\ scancode.code = "break" /\ ~ EnterBreak
        /\ ~ backspace_pressed /\ ~ key_pressed
  /\ UNCHANGED <<driver, screen>>

KeyboardIsr ==
  \/ IsrOff \/ IsrBackspace \/ IsrEnter \/ IsrCharacter \/ IsrAfterBackspace
  \/ IsrRelease \/ IsrEnterRelease \/ IsrPrefix \/ IsrPassOver

\* Mutant of GetKeyboardBuffer: leaves the character where it is.
GetKeyboardBufferKept == keyboard_buffer' = keyboard_buffer

\* get_keyboard_buffer: the caller gets keyboard_buffer, which is then empty.
GetKeyboardBuffer == keyboard_buffer' = NoChar

=============================================================================
