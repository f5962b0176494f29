------------------------------ MODULE Terminal ------------------------------
(***************************************************************************)
(* The terminal: somebody at the keyboard, the keyboard driver, the screen *)
(* and the shell (src/src/user-shell.c), which polls for one character at  *)
(* a time.  A system call runs with interrupts off and is one step; the    *)
(* keyboard handler may run between any two steps once the kernel has      *)
(* turned interrupts on, which is before it has started the shell.         *)
(***************************************************************************)
EXTENDS Keyboard

CONSTANTS
  Prompt,     \* what cetak_prompt prints
  Answers,    \* what a command may print: sequences of calls of puts
  MaxPresses, \* bound: make codes that the keyboard sends
  MaxHasty    \* bound: the same when one of them was not waited for

ASSUME TerminalAssumption ==
  /\ Prompt \in Seq(Glyph \cup {Newline})
  /\ Answers \subseteq Seq(Seq(Glyph \cup {Newline}))
  /\ MaxPresses \in Nat /\ MaxHasty \in Nat

\* Every branch of parseCommand begins with a newline.
ASSUME AnswerAssumption ==
  \A answer \in Answers :
    answer # << >> /\ Head(answer) # << >> /\ Head(Head(answer)) = Newline

VARIABLES
  pc,       \* what kernel_setup or the shell does next
  out,      \* what is still to be printed
  line,     \* input: the characters of the command so far
  taken,    \* history: the press that the shell has taken last
  held,     \* the keys that are down
  presses,  \* how many make codes have been sent
  latest,   \* history: the last press of a key with a character
  early,    \* history: something was typed before the keyboard was on
  hasty     \* history: a key was pressed that the shell did not wait for

shell  == <<pc, out, line, taken>>
typist == <<held, presses, latest, early, hasty>>
vars   == <<screen, controller, driver, shell, typist>>

Init ==
  /\ \E glyph \in Glyph :
       fb = [shown |-> [i \in Cell |-> glyph], stray |-> FALSE]
  /\ cursor = 0 /\ cursor_row = 0 /\ cursor_col = 0 /\ row = 0 /\ col = 0
  /\ wrapped = FALSE
  /\ queue = << >> /\ full = FALSE /\ irq = FALSE
  /\ keyboard_input_on = FALSE /\ keyboard_buffer = NoChar
  /\ key_pressed = FALSE /\ backspace_pressed = FALSE
  /\ pc = "setup" /\ out = << >> /\ line = << >> /\ taken = 0
  /\ held = {} /\ presses = 0 /\ latest = 0 /\ early = FALSE
  /\ hasty = FALSE

----------------------------------------------------------------------------
\* Whoever types.

Quiet == pc = "poll" /\ queue = << >> /\ held = {} /\ keyboard_buffer = NoChar

\* One key at a time, each after the shell has taken the one before, on a line
\* that is not longer than its row.
WaitedFor(k) ==
  /\ Quiet
  /\ k \in Letter \cup {Enter} /\ cursor_col + Len(line) < COLS - 1

Send(c, k, n) ==
  /\ queue' = queue \o Codes(c, k, n)
  /\ presses' = n
  /\ n <= IF hasty' THEN MaxHasty ELSE MaxPresses
  /\ early' = (early \/ ~ keyboard_input_on)
  /\ UNCHANGED <<full, irq, screen, driver, shell>>

Press(k) ==
  /\ k \notin held
  /\ held' = held \cup {k}
  /\ latest' = IF k \in Letter \cup {Enter} THEN presses + 1 ELSE latest
  /\ hasty' = (hasty \/ ~ WaitedFor(k))
  /\ Send("make", k, presses + 1)

\* A key that is held sends its make code again.
Repeat(k) ==
  /\ k \in held
  /\ UNCHANGED <<held, latest, hasty>>
  /\ Send("make", k, presses + 1)

Release(k) ==
  /\ k \in held
  /\ held' = held \ {k}
  /\ UNCHANGED <<latest, hasty>>
  /\ Send("break", k, presses)

----------------------------------------------------------------------------
\* kernel_setup after interrupts are on, and the shell.

SetUp ==
  /\ pc = "setup"
  /\ FramebufferClear /\ FramebufferSetCursor(0, 0)
  /\ pc' = "start"
  /\ UNCHANGED <<cursor_row, cursor_col, row, col, wrapped, controller,
                 driver, out, line, taken, typist>>

StartShell ==
  /\ pc = "start"
  /\ out' = <<Prompt>>
  /\ pc' = "greet"
  /\ UNCHANGED <<screen, controller, driver, line, taken, typist>>

\* System call 6.
WriteOut ==
  /\ pc \in {"greet", "answer"} /\ out # << >>
  /\ Puts(Head(out))
  /\ out' = Tail(out)
  /\ UNCHANGED <<controller, driver, pc, line, taken, typist>>

\* System call 7.
KeyboardStateActivate ==
  /\ pc = "greet" /\ out = << >>
  /\ keyboard_input_on' = TRUE
  /\ pc' = "poll"
  /\ UNCHANGED <<keyboard_buffer, key_pressed, backspace_pressed, screen,
                 controller, out, line, taken, typist>>

\* System call 4, and what main does with the character it gets.
PollNothing ==
  /\ pc = "poll" /\ keyboard_buffer = NoChar
  /\ GetKeyboardBuffer
  /\ UNCHANGED <<keyboard_input_on, key_pressed, backspace_pressed, screen,
                 controller, shell, typist>>

PollCharacter ==
  /\ pc = "poll" /\ keyboard_buffer.ch \in Letter
  /\ GetKeyboardBuffer
  /\ line' = Append(line, keyboard_buffer.ch)
  /\ taken' = keyboard_buffer.at
  /\ UNCHANGED <<keyboard_input_on, key_pressed, backspace_pressed, screen,
                 controller, pc, out, typist>>

\* parseCommand: whatever the command prints, then the prompt.
PollEnter ==
  /\ pc = "poll" /\ keyboard_buffer.ch = Newline
  /\ GetKeyboardBuffer
  /\ \E answer \in Answers : out' = Append(answer, Prompt)
  /\ taken' = keyboard_buffer.at
  /\ pc' = "answer"
  /\ UNCHANGED <<keyboard_input_on, key_pressed, backspace_pressed, screen,
                 controller, line, typist>>

EndOfCommand ==
  /\ pc = "answer" /\ out = << >>
  /\ line' = << >>
  /\ pc' = "poll"
  /\ UNCHANGED <<screen, controller, driver, out, taken, typist>>

Shell == \/ SetUp \/ StartShell \/ WriteOut \/ KeyboardStateActivate
         \/ PollNothing \/ PollCharacter \/ PollEnter \/ EndOfCommand

Isr == KeyboardIsr /\ UNCHANGED <<shell, typist>>

Controller == Announce /\ UNCHANGED <<driver, screen, shell, typist>>

Machine == Shell \/ Isr \/ Controller

----------------------------------------------------------------------------

Type(k) == Press(k) \/ Repeat(k) \/ Release(k)

\* Any keys at any time, in any order and rhythm.
Next == Machine \/ \E k \in Key : Type(k)

\* The processor and the keyboard controller keep running; nobody has to type.
Fairness == WF_vars(Shell) /\ WF_vars(Isr) /\ WF_vars(Controller)

Spec     == Init /\ [][Next]_vars
FairSpec == Spec /\ Fairness

=============================================================================
