--------------------------- MODULE TerminalSafety ---------------------------
(***************************************************************************)
(* What the terminal must keep true, and what it must get done.            *)
(***************************************************************************)
EXTENDS Terminal

(* The values that each variable can take. *)
TypeOK ==
  /\ fb \in [shown : [Cell -> Glyph \cup {Nul}], stray : BOOLEAN]
  /\ cursor \in Nat /\ cursor_row \in Nat /\ cursor_col \in Nat
  /\ row \in Nat /\ col \in Int /\ wrapped \in BOOLEAN
  /\ queue \in Seq(Scancode) /\ full \in BOOLEAN /\ irq \in BOOLEAN
  /\ keyboard_input_on \in BOOLEAN
  /\ keyboard_buffer \in Char \cup {NoChar}
  /\ key_pressed \in BOOLEAN /\ backspace_pressed \in BOOLEAN
  /\ pc \in {"setup", "start", "greet", "poll", "answer"}
  /\ out \in Seq(Seq(Glyph \cup {Newline})) /\ line \in Seq(Letter)
  /\ taken \in Nat /\ held \subseteq Key
  /\ presses \in Nat /\ latest \in Nat /\ early \in BOOLEAN
  /\ hasty \in BOOLEAN

(***************************************************************************)
(* get_keyboard_buffer empties the buffer it returns, with the handler     *)
(* writing to it between any two calls: the shell never gets the same      *)
(* press twice, nor a press from before the last one it got.               *)
(***************************************************************************)
OnceInOrder == keyboard_buffer # NoChar => keyboard_buffer.at > taken

(***************************************************************************)
(* keyboard_isr and pic_ack: a scan code that waits in the output buffer   *)
(* of the controller has an interrupt that is still to be taken, if nobody *)
(* typed before the shell had turned the keyboard on.  Without one no      *)
(* interrupt would ever come again.                                        *)
(***************************************************************************)
NoDeafKeyboard == ~ early => (full => irq)

(***************************************************************************)
(* The same of everything on the way from a key to the shell, which makes  *)
(* OnceInOrder inductive: make codes wait in the order of the presses, all *)
(* of them later than the character in the buffer and the one last taken;  *)
(* an interrupt that waits has a scan code to read.                        *)
(***************************************************************************)
OrderInv ==
  /\ queue \in Seq(Scancode) /\ keyboard_buffer \in Char \cup {NoChar}
  /\ taken \in Nat /\ presses \in Nat
  /\ irq => full
  /\ full => queue # << >>
  /\ OnceInOrder
  /\ taken <= presses /\ keyboard_buffer.at <= presses
  /\ \A i \in 1 .. Len(queue) : queue[i].code = "make" =>
       /\ taken < queue[i].at /\ keyboard_buffer.at < queue[i].at
       /\ queue[i].at <= presses
  /\ \A i, j \in 1 .. Len(queue) :
       i < j /\ queue[i].code = "make" /\ queue[j].code = "make"
         => queue[i].at < queue[j].at

(***************************************************************************)
(* What makes NoDeafKeyboard inductive: until the keyboard is on there is  *)
(* nothing that its handler could leave unread, and what is in the output  *)
(* buffer is the first of what is waiting.                                 *)
(***************************************************************************)
ListeningInv ==
  ~ early =>
    /\ keyboard_input_on \/ queue = << >>
    /\ full <=> irq
    /\ full => queue # << >>

(***************************************************************************)
(* The handler echoes what is typed and puts prints what the shell says;   *)
(* each moves a row and a column.  When the shell waits, nobody types and  *)
(* nobody was hasty, the screen shows the shell's line after its prompt,   *)
(* the next key is echoed behind it, and nothing was written outside of    *)
(* the screen.                                                             *)
(***************************************************************************)
ScreenShowsLine ==
  Quiet /\ ~ wrapped /\ ~ hasty =>
    /\ ~ fb.stray
    /\ row = cursor_row /\ col = cursor_col + Len(line)
    /\ \A i \in 1 .. Len(line) :
         fb.shown[cursor_row * COLS + cursor_col + i - 1] = line[i]

(***************************************************************************)
(* What makes ScreenShowsLine inductive when k is the only key typed.  Its *)
(* codes wait from the make code to the break code that ends it; before    *)
(* the handler has read the first one, the shell waits on a line with room *)
(* for it.  The character that the handler keeps is the one of that key.   *)
(***************************************************************************)
OneKeyInv(k) ==
  /\ held \subseteq {k}
  /\ \A i \in 1 .. Len(queue) :
       /\ queue[i].key = k
       /\ queue[i].code = IF held = {} /\ i = Len(queue) THEN "break" ELSE "make"
  /\ held # {} => queue # << >> \/ key_pressed
  /\ held = {} /\ key_pressed => queue # << >>
  /\ queue # << >> /\ ~ key_pressed =>
       /\ queue[1].code = "make"
       /\ pc = "poll" /\ keyboard_buffer = NoChar
       /\ cursor_col + Len(line) < COLS - 1
  /\ key_pressed /\ keyboard_buffer # NoChar =>
       keyboard_buffer.ch = IF k = Enter THEN Newline ELSE k
  /\ key_pressed /\ pc = "answer" => k = Enter
  /\ ~ backspace_pressed
  /\ keyboard_input_on <=> pc \in {"poll", "answer"}
  /\ pc # "poll" => keyboard_buffer = NoChar
  /\ pc \notin {"poll", "answer"} =>
       queue = << >> /\ held = {} /\ ~ key_pressed /\ line = << >>

InStep == row = cursor_row /\ col = cursor_col

\* The shell's line with the character that it has not polled.
Echoed == IF keyboard_buffer = NoChar THEN line
                                      ELSE Append(line, keyboard_buffer.ch)

\* It is shown behind the pen of puts, and the driver's is behind it, or on
\* its last character while k, which sent that one, is down.
EchoInv(k) ==
  /\ row = cursor_row
  /\ col = cursor_col + Len(Echoed) - (IF key_pressed /\ k # Enter THEN 1 ELSE 0)
  /\ cursor_col + Len(Echoed) < COLS
  /\ \A i \in 1 .. Len(Echoed) :
       fb.shown[cursor_row * COLS + cursor_col + i - 1] = Echoed[i]

(***************************************************************************)
(* The same of the two pens.  puts leaves them together, or the newline    *)
(* that an answer begins with is still to bring them together; while the   *)
(* shell waits they are the line apart.                                    *)
(***************************************************************************)
PensInv(k) ==
  /\ cursor_row < ROWS /\ cursor_col < COLS
  /\ ~ wrapped =>
       /\ ~ fb.stray
       /\ pc \notin {"poll", "answer"} => InStep
       /\ pc = "answer" =>
            \/ InStep
            \/ out # << >> /\ Head(out) # << >> /\ Head(Head(out)) = Newline
       /\ pc = "poll" /\ keyboard_buffer.ch # Newline => EchoInv(k)

LineInv == \E k \in Letter \cup {Enter} : OneKeyInv(k) /\ PensInv(k)

(***************************************************************************)
(* keyboard_isr empties the controller's buffer: if nobody typed before    *)
(* the keyboard was on, every scan code is read sooner or later.           *)
(***************************************************************************)
KeysServed ==
  keyboard_input_on /\ ~ early /\ queue # << >> ~> queue = << >>

(***************************************************************************)
(* keyboard.h:44: once the keyboard is on it is listened to, whatever came *)
(* before.                                                                 *)
(***************************************************************************)
KeysListenedTo == keyboard_input_on /\ queue # << >> ~> queue = << >>

(***************************************************************************)
(* The shell gets every character of somebody who types no faster than it  *)
(* polls: a press that it waited for is taken, or the next one is hasty    *)
(* (main, user-shell.c:613-624).                                           *)
(***************************************************************************)
PressesArrive ==
  ~ hasty /\ taken < latest ~> taken = latest \/ hasty

=============================================================================
