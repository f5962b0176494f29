--------------------------- MODULE TerminalProofs ---------------------------
(***************************************************************************)
(* What the keyboard driver and puts keep true, proved for every screen,   *)
(* every set of keys and any number of presses.                            *)
(***************************************************************************)
EXTENDS TerminalSafety, SequenceTheorems, FiniteSetTheorems, TLAPS

\* Nothing that stands for "no character" is a character.
LEMMA NoCharIsNone == NoChar \notin Char
BY KeyAssumption, ScreenAssumption DEF NoChar, Char

\* Every code that waits has the number of a press.
LEMMA QueueAt ==
  ASSUME NEW q \in Seq(Scancode), NEW i \in 1 .. Len(q)
  PROVE  q[i] \in Scancode /\ q[i].at \in Nat
<1>1. q[i] \in Scancode
  OBVIOUS
<1> QED BY <1>1 DEF Scancode

\* A key sends one code, or a prefix and then the code, all of one press.
LEMMA CodesShape ==
  ASSUME NEW c \in {"make", "break"}, NEW k \in Key, NEW n \in Nat
  PROVE  /\ Codes(c, k, n) \in Seq(Scancode)
         /\ Codes(c, k, n) # << >>
         /\ \A i \in 1 .. Len(Codes(c, k, n)) :
              /\ Codes(c, k, n)[i].at = n
              /\ Codes(c, k, n)[i].code = "make" =>
                   c = "make" /\ i = Len(Codes(c, k, n))
<1> DEFINE code   == [code |-> c, key |-> k, at |-> n]
           prefix == [code |-> "prefix", key |-> k, at |-> n]
<1>1. code \in Scancode /\ prefix \in Scancode
  BY DEF Scancode
<1>2. CASE k \in Extended
  <2>1. Codes(c, k, n) = <<prefix>> \o <<code>>
    BY <1>2 DEF Codes
  <2>2. /\ <<prefix>> \in Seq(Scancode) /\ <<code>> \in Seq(Scancode)
        /\ Len(<<prefix>>) = 1 /\ Len(<<code>>) = 1
        /\ <<prefix>>[1] = prefix /\ <<code>>[1] = code
    BY <1>1
  <2>3. /\ Codes(c, k, n) \in Seq(Scancode) /\ Len(Codes(c, k, n)) = 2
        /\ Codes(c, k, n)[1] = prefix /\ Codes(c, k, n)[2] = code
    <3> DEFINE p == <<prefix>>
               q == <<code>>
    <3>1. /\ p \in Seq(Scancode) /\ q \in Seq(Scancode)
          /\ Len(p) = 1 /\ Len(q) = 1 /\ p[1] = prefix /\ q[1] = code
          /\ Codes(c, k, n) = p \o q
      BY <2>1, <2>2
    <3> HIDE DEF p, q, prefix, code
    <3>2. /\ p \o q \in Seq(Scancode) /\ Len(p \o q) = Len(p) + Len(q)
          /\ \A i \in 1 .. Len(p) + Len(q) :
               (p \o q)[i] = IF i <= Len(p) THEN p[i] ELSE q[i - Len(p)]
      BY <3>1, ConcatProperties
    <3>3. 1 \in 1 .. Len(p) + Len(q) /\ 2 \in 1 .. Len(p) + Len(q) /\ 2 - Len(p) = 1
      BY <3>1
    <3> QED BY <3>1, <3>2, <3>3
  <2>4. /\ prefix.at = n /\ prefix.code = "prefix"
        /\ code.at = n /\ code.code = c
    OBVIOUS
  <2>5. ASSUME NEW i \in 1 .. Len(Codes(c, k, n))
        PROVE  \/ i = 1 /\ Codes(c, k, n)[i] = prefix
               \/ i = Len(Codes(c, k, n)) /\ Codes(c, k, n)[i] = code
    BY <2>3
  <2>6. Codes(c, k, n) # << >>
    BY <2>3
  <2> HIDE DEF prefix, code
  <2> QED BY <2>3, <2>4, <2>5, <2>6
<1>3. CASE k \notin Extended
  <2>1. Codes(c, k, n) = << >> \o <<code>>
    BY <1>3 DEF Codes
  <2>2. Codes(c, k, n) = <<code>>
    BY <1>1, <2>1, ConcatEmptySeq
  <2> QED BY <1>1, <2>2
<1> QED BY <1>2, <1>3

\* What is sent comes behind everything that waits.
LEMMA SendOrder ==
  ASSUME OrderInv,
         NEW c \in {"make", "break"}, NEW k \in Key, NEW n \in Nat,
         queue' = queue \o Codes(c, k, n),
         presses' = n, n >= presses, c = "make" => n = presses + 1,
         UNCHANGED <<full, irq, keyboard_buffer, taken>>
  PROVE  OrderInv'
<1> DEFINE sent == Codes(c, k, n)
<1> HIDE DEF sent
<1>1. /\ sent \in Seq(Scancode) /\ sent # << >>
      /\ \A i \in 1 .. Len(sent) :
           /\ sent[i].at = n
           /\ sent[i].code = "make" => c = "make" /\ i = Len(sent)
  <2>1. ASSUME NEW s, s = Codes(c, k, n)
        PROVE  /\ s \in Seq(Scancode) /\ s # << >>
               /\ \A i \in 1 .. Len(s) :
                    /\ s[i].at = n
                    /\ s[i].code = "make" => c = "make" /\ i = Len(s)
    BY <2>1, CodesShape, SMTT(30)
  <2> QED BY <2>1 DEF sent
<1>2. queue \in Seq(Scancode) /\ queue' = queue \o sent
  BY DEF OrderInv, sent
<1>3. /\ queue' \in Seq(Scancode)
      /\ Len(queue') = Len(queue) + Len(sent)
      /\ \A i \in 1 .. Len(queue) + Len(sent) :
           queue'[i] = IF i <= Len(queue) THEN queue[i] ELSE sent[i - Len(queue)]
  BY <1>1, <1>2, ConcatProperties
<1>4. Len(queue) \in Nat /\ Len(sent) \in Nat
  BY <1>1, <1>2
<1>5. ASSUME NEW i \in 1 .. Len(queue')
      PROVE  \/ i \in 1 .. Len(queue) /\ queue'[i] = queue[i]
             \/ /\ i > Len(queue) /\ queue'[i].at = n
                /\ queue'[i].code = "make" => c = "make" /\ i = Len(queue')
  <2>1. CASE i <= Len(queue)
    BY <1>3, <1>4, <2>1
  <2>2. CASE i > Len(queue)
    <3>1. i - Len(queue) \in 1 .. Len(sent) /\ queue'[i] = sent[i - Len(queue)]
      BY <1>3, <1>4, <2>2
    <3> QED BY <1>1, <1>3, <1>4, <2>2, <3>1
  <2> QED BY <1>3, <1>4, <2>1, <2>2
<1>6. /\ taken \in Nat /\ presses \in Nat /\ keyboard_buffer.at <= presses
      /\ taken <= presses /\ keyboard_buffer \in Char \cup {NoChar}
  BY DEF OrderInv
<1>7. keyboard_buffer.at \in Nat
  BY <1>6 DEF Char, NoChar
<1>8. ASSUME NEW i \in 1 .. Len(queue'), queue'[i].code = "make"
      PROVE  /\ taken < queue'[i].at /\ keyboard_buffer.at < queue'[i].at
             /\ queue'[i].at <= n
  <2>1. CASE i \in 1 .. Len(queue) /\ queue'[i] = queue[i]
    <3>1. queue[i].at \in Nat
      BY <1>2, <2>1, QueueAt
    <3> QED BY <1>6, <1>8, <2>1, <3>1 DEF OrderInv
  <2>2. CASE queue'[i].at = n /\ c = "make"
    BY <1>6, <1>7, <2>2
  <2> QED BY <1>5, <1>8, <2>1, <2>2
<1>9. ASSUME NEW i \in 1 .. Len(queue'), NEW j \in 1 .. Len(queue'), i < j,
             queue'[i].code = "make", queue'[j].code = "make"
      PROVE  queue'[i].at < queue'[j].at
  <2>1. i \in 1 .. Len(queue) /\ queue'[i] = queue[i]
    BY <1>3, <1>4, <1>5, <1>9
  <2>2. CASE j \in 1 .. Len(queue) /\ queue'[j] = queue[j]
    BY <1>9, <2>1, <2>2 DEF OrderInv
  <2>3. CASE queue'[j].at = n /\ c = "make"
    <3>1. queue[i].at \in Nat /\ queue[i].at <= presses
      BY <1>2, <1>9, <2>1, QueueAt DEF OrderInv
    <3> QED BY <1>6, <2>1, <2>3, <3>1
  <2> QED BY <1>5, <1>9, <2>2, <2>3
<1>10. queue' # << >>
  BY <1>1, <1>3, <1>4
<1> QED
  BY <1>3, <1>6, <1>7, <1>8, <1>9, <1>10 DEF OrderInv, OnceInOrder

\* A branch of the handler that reads its scan code leaves the character in
\* the buffer, empties the buffer, or keeps the character of that very code.
LEMMA TakeOrder ==
  ASSUME OrderInv, TakeScancode, UNCHANGED <<taken, presses>>,
         \/ keyboard_buffer' = keyboard_buffer
         \/ keyboard_buffer' = NoChar
         \/ /\ scancode.code = "make" /\ keyboard_buffer' \in Char
            /\ keyboard_buffer'.at = scancode.at
  PROVE  OrderInv'
<1>1. /\ queue \in Seq(Scancode) /\ queue # << >>
      /\ taken \in Nat /\ presses \in Nat
      /\ keyboard_buffer \in Char \cup {NoChar}
      /\ taken <= presses /\ keyboard_buffer.at <= presses
  BY DEF OrderInv, TakeScancode
<1>2. /\ queue' \in Seq(Scancode) /\ Len(queue') = Len(queue) - 1
      /\ \A i \in 1 .. Len(queue') : queue'[i] = queue[i + 1]
  BY <1>1, HeadTailProperties DEF TakeScancode
<1>3. Len(queue) \in Nat \ {0} /\ scancode = queue[1]
  BY <1>1 DEF scancode
<1>4. \A i \in 1 .. Len(queue) : queue[i] \in Scancode /\ queue[i].at \in Nat
  BY <1>1, QueueAt
<1>5. ASSUME NEW i \in 1 .. Len(queue')
      PROVE  i + 1 \in 2 .. Len(queue) /\ queue'[i] = queue[i + 1]
  BY <1>2, <1>3
<1>6. keyboard_buffer.at \in Nat
  BY <1>1 DEF Char, NoChar
<1>7. /\ keyboard_buffer' \in Char \cup {NoChar}
      /\ keyboard_buffer'.at \in Nat /\ keyboard_buffer'.at <= presses
      /\ keyboard_buffer' # NoChar => keyboard_buffer'.at > taken
  <2>1. CASE keyboard_buffer' = keyboard_buffer
    BY <1>1, <1>6, <2>1 DEF OrderInv, OnceInOrder
  <2>2. CASE keyboard_buffer' = NoChar
    BY <1>1, <2>2 DEF NoChar
  <2>3. CASE /\ scancode.code = "make" /\ keyboard_buffer' \in Char
             /\ keyboard_buffer'.at = scancode.at
    BY <1>1, <1>3, <1>4, <2>3 DEF OrderInv
  <2> QED BY <2>1, <2>2, <2>3
<1>8. ASSUME NEW i \in 1 .. Len(queue'), queue'[i].code = "make"
      PROVE  /\ taken < queue'[i].at /\ queue'[i].at <= presses
             /\ keyboard_buffer'.at < queue'[i].at
  <2>1. /\ i + 1 \in 1 .. Len(queue) /\ 1 \in 1 .. Len(queue) /\ 1 < i + 1
        /\ queue[i + 1].code = "make" /\ queue'[i].at = queue[i + 1].at
    BY <1>3, <1>5, <1>8
  <2>2. /\ taken < queue[i + 1].at /\ queue[i + 1].at <= presses
        /\ keyboard_buffer.at < queue[i + 1].at
    BY <2>1 DEF OrderInv
  <2>3. scancode.code = "make" => scancode.at < queue[i + 1].at
    BY <1>3, <2>1 DEF OrderInv
  <2>4. NoChar.at < queue[i + 1].at
    BY <1>1, <1>4, <2>1, <2>2 DEF NoChar
  <2> QED BY <2>1, <2>2, <2>3, <2>4
<1>9. ASSUME NEW i \in 1 .. Len(queue'), NEW j \in 1 .. Len(queue'), i < j,
             queue'[i].code = "make", queue'[j].code = "make"
      PROVE  queue'[i].at < queue'[j].at
  <2>1. /\ i + 1 \in 1 .. Len(queue) /\ queue'[i] = queue[i + 1]
        /\ j + 1 \in 1 .. Len(queue) /\ queue'[j] = queue[j + 1]
        /\ i + 1 < j + 1
    BY <1>3, <1>5, <1>9
  <2> QED BY <1>9, <2>1 DEF OrderInv
<1>10. ~ irq' /\ ~ full'
  BY DEF TakeScancode
<1> QED
  BY <1>1, <1>2, <1>7, <1>8, <1>9, <1>10 DEF OrderInv, OnceInOrder

\* Emptying the buffer makes its character the last one taken.
LEMMA PollOrder ==
  ASSUME OrderInv, keyboard_buffer # NoChar, keyboard_buffer' = NoChar,
         taken' = keyboard_buffer.at, UNCHANGED <<controller, presses>>
  PROVE  OrderInv'
<1>1. UNCHANGED <<queue, full, irq, presses>>
  BY DEF controller
<1>2. keyboard_buffer.at \in Nat /\ NoChar.at = 0
  BY DEF OrderInv, Char, NoChar
<1>3. ASSUME NEW i \in 1 .. Len(queue), queue[i].code = "make"
      PROVE  keyboard_buffer.at < queue[i].at /\ NoChar.at < queue[i].at
  <2>1. queue[i].at \in Nat
    BY <1>3, QueueAt DEF OrderInv
  <2> QED BY <1>2, <1>3, <2>1 DEF OrderInv
<1> QED
  BY <1>1, <1>2, <1>3 DEF OrderInv, OnceInOrder

\* Every branch of keyboard_isr keeps the order.
LEMMA IsrOrder ==
  ASSUME OrderInv, Isr
  PROVE  OrderInv'
<1>1. UNCHANGED <<taken, presses>>
  BY DEF Isr, shell, typist
<1>2. CASE IsrOff
  <2>1. keyboard_buffer' = NoChar /\ ~ irq' /\ UNCHANGED <<queue, full>>
    BY <1>2 DEF IsrOff
  <2>2. ASSUME NEW i \in 1 .. Len(queue), queue[i].code = "make"
        PROVE  NoChar.at < queue[i].at
    <3>1. queue[i].at \in Nat
      BY QueueAt DEF OrderInv
    <3> QED BY <2>2, <3>1 DEF OrderInv, NoChar
  <2>3. NoChar.at <= presses
    BY DEF OrderInv, NoChar
  <2> QED
    BY <1>1, <2>1, <2>2, <2>3 DEF OrderInv, OnceInOrder
<1>3. CASE TakeScancode /\ UNCHANGED keyboard_buffer
  BY <1>1, <1>3, TakeOrder
<1>4. CASE TakeScancode /\ keyboard_buffer' = NoChar
  BY <1>1, <1>4, TakeOrder
<1>5. CASE IsrBackspace
  <2>1. keyboard_buffer' = NoChar \/ UNCHANGED keyboard_buffer
    BY <1>5 DEF IsrBackspace
  <2> QED BY <1>3, <1>4, <1>5, <2>1 DEF IsrBackspace
<1>6. scancode.at \in Nat \/ ~ TakeScancode
  <2> SUFFICES ASSUME TakeScancode PROVE scancode.at \in Nat
    OBVIOUS
  <2>1. queue \in Seq(Scancode) /\ queue # << >>
    BY DEF OrderInv, TakeScancode
  <2>2. 1 \in 1 .. Len(queue) /\ scancode = queue[1]
    BY <2>1 DEF scancode
  <2> QED BY <2>1, <2>2, QueueAt
<1>7. CASE IsrEnter
  <2>1. /\ TakeScancode /\ scancode.code = "make"
        /\ keyboard_buffer' = [ch |-> Newline, at |-> scancode.at]
    BY <1>7 DEF IsrEnter
  <2>2. keyboard_buffer' \in Char /\ keyboard_buffer'.at = scancode.at
    BY <1>6, <2>1 DEF Char
  <2> QED BY <1>1, <2>1, <2>2, TakeOrder
<1>8. CASE IsrCharacter
  <2>1. /\ TakeScancode /\ scancode.code = "make"
        /\ keyboard_buffer' = MappedChar
    BY <1>8 DEF IsrCharacter
  <2>2. CASE scancode.key \in Letter
    <3>1. keyboard_buffer' = [ch |-> scancode.key, at |-> scancode.at]
      BY <2>1, <2>2 DEF MappedChar
    <3>2. keyboard_buffer' \in Char /\ keyboard_buffer'.at = scancode.at
      BY <1>6, <2>1, <2>2, <3>1 DEF Char
    <3> QED BY <1>1, <2>1, <3>2, TakeOrder
  <2>3. CASE scancode.key \notin Letter
    BY <1>4, <2>1, <2>3 DEF MappedChar
  <2> QED BY <2>2, <2>3
<1>9. CASE IsrAfterBackspace
  BY <1>4, <1>9 DEF IsrAfterBackspace
<1>10. CASE IsrRelease
  BY <1>3, <1>10 DEF IsrRelease
<1>11. CASE IsrEnterRelease
  BY <1>3, <1>11 DEF IsrEnterRelease
<1>12. CASE IsrPrefix
  BY <1>3, <1>12 DEF IsrPrefix, driver
<1>13. CASE IsrPassOver
  BY <1>3, <1>13 DEF IsrPassOver, driver
<1> QED
  BY <1>2, <1>5, <1>7, <1>8, <1>9, <1>10, <1>11, <1>12, <1>13
  DEF Isr, KeyboardIsr

\* Steps of the shell, and everything else that touches no character.
LEMMA ShellOrder ==
  ASSUME OrderInv, Shell
  PROVE  OrderInv'
<1>1. CASE UNCHANGED <<controller, keyboard_buffer, taken, presses>>
  BY <1>1 DEF OrderInv, OnceInOrder, controller
<1>2. CASE SetUp
  BY <1>1, <1>2 DEF SetUp, driver, typist
<1>3. CASE StartShell
  BY <1>1, <1>3 DEF StartShell, driver, typist
<1>4. CASE WriteOut
  BY <1>1, <1>4 DEF WriteOut, driver, typist
<1>5. CASE KeyboardStateActivate
  BY <1>1, <1>5 DEF KeyboardStateActivate, typist
<1>6. CASE PollNothing
  BY <1>1, <1>6 DEF PollNothing, GetKeyboardBuffer, shell, typist
<1>7. NoChar.ch \notin Letter \cup {Newline}
  BY KeyAssumption, ScreenAssumption DEF NoChar
<1>8. CASE PollCharacter
  BY <1>7, <1>8, PollOrder DEF PollCharacter, GetKeyboardBuffer, typist
<1>9. CASE PollEnter
  BY <1>7, <1>9, PollOrder DEF PollEnter, GetKeyboardBuffer, typist
<1>10. CASE EndOfCommand
  BY <1>1, <1>10 DEF EndOfCommand, driver, typist
<1> QED
  BY <1>2, <1>3, <1>4, <1>5, <1>6, <1>8, <1>9, <1>10 DEF Shell

\* What a key sends keeps the order.
LEMMA TypeOrder ==
  ASSUME OrderInv, NEW k \in Key, Type(k)
  PROVE  OrderInv'
<1>1. presses \in Nat
  BY DEF OrderInv
<1>2. CASE Press(k) \/ Repeat(k)
  <2>1. /\ queue' = queue \o Codes("make", k, presses + 1)
        /\ presses' = presses + 1
        /\ UNCHANGED <<full, irq, keyboard_buffer, taken>>
    BY <1>2 DEF Press, Repeat, Send, driver, shell
  <2> QED BY <1>1, <2>1, SendOrder
<1>3. CASE Release(k)
  <2>1. /\ queue' = queue \o Codes("break", k, presses)
        /\ presses' = presses
        /\ UNCHANGED <<full, irq, keyboard_buffer, taken>>
    BY <1>3 DEF Release, Send, driver, shell
  <2> QED BY <1>1, <2>1, SendOrder
<1> QED BY <1>2, <1>3 DEF Type

\* Nothing is on its way at the start.
LEMMA InitOrder == Init => OrderInv
<1> SUFFICES ASSUME Init PROVE OrderInv
  OBVIOUS
<1>1. Len(<< >>) = 0 /\ << >> \in Seq(Scancode)
  OBVIOUS
<1> QED
  BY <1>1 DEF Init, OrderInv, OnceInOrder, NoChar

\* Any step of the terminal keeps the order.
LEMMA NextOrder ==
  ASSUME OrderInv, [Next]_vars
  PROVE  OrderInv'
<1>1. CASE Controller
  BY <1>1 DEF Controller, Announce, OrderInv, OnceInOrder, driver, shell, typist
<1>2. CASE UNCHANGED vars
  BY <1>2 DEF OrderInv, OnceInOrder, vars, controller, driver, shell, typist
<1> QED
  BY <1>1, <1>2, IsrOrder, ShellOrder, TypeOrder DEF Next, Machine

(***************************************************************************)
(* However the keyboard handler and the shell interleave, and whatever is  *)
(* typed: the shell never takes a press twice, nor one from before the     *)
(* press it took last (keyboard_isr and get_keyboard_buffer).              *)
(***************************************************************************)
THEOREM OrderSafe == Spec => [](OrderInv /\ OnceInOrder)
<1>1. Init => OrderInv
  BY InitOrder
<1>2. OrderInv /\ [Next]_vars => OrderInv'
  BY NextOrder
<1>3. OrderInv => OnceInOrder
  BY DEF OrderInv
<1> QED BY <1>1, <1>2, <1>3, PTL DEF Spec

----------------------------------------------------------------------------

\* A branch that reads its scan code leaves no interrupt and no byte behind.
LEMMA TakeListening ==
  ASSUME ListeningInv, TakeScancode, UNCHANGED <<keyboard_input_on, early>>
  PROVE  ListeningInv'
BY DEF ListeningInv, TakeScancode

\* Every branch of keyboard_isr keeps the keyboard listening.
LEMMA IsrListening ==
  ASSUME ListeningInv, Isr
  PROVE  ListeningInv'
<1>0. UNCHANGED early
  BY DEF Isr, typist
<1>1. CASE IsrOff
  BY <1>0, <1>1 DEF IsrOff, ListeningInv
<1>2. CASE IsrBackspace
  BY <1>0, <1>2, TakeListening DEF IsrBackspace
<1>3. CASE IsrEnter
  BY <1>0, <1>3, TakeListening DEF IsrEnter
<1>4. CASE IsrCharacter
  BY <1>0, <1>4, TakeListening DEF IsrCharacter
<1>5. CASE IsrAfterBackspace
  BY <1>0, <1>5, TakeListening DEF IsrAfterBackspace
<1>6. CASE IsrRelease
  BY <1>0, <1>6, TakeListening DEF IsrRelease
<1>7. CASE IsrEnterRelease
  BY <1>0, <1>7, TakeListening DEF IsrEnterRelease
<1>8. CASE IsrPrefix
  BY <1>0, <1>8, TakeListening DEF IsrPrefix, driver
<1>9. CASE IsrPassOver
  BY <1>0, <1>9, TakeListening DEF IsrPassOver, driver
<1> QED
  BY <1>1, <1>2, <1>3, <1>4, <1>5, <1>6, <1>7, <1>8, <1>9 DEF Isr, KeyboardIsr

\* The shell turns the keyboard on, and never off.
LEMMA ShellListening ==
  ASSUME ListeningInv, Shell
  PROVE  ListeningInv'
<1>1. CASE KeyboardStateActivate
  BY <1>1 DEF KeyboardStateActivate, ListeningInv, controller, typist
<1>2. CASE UNCHANGED <<controller, keyboard_input_on, early>>
  BY <1>2 DEF ListeningInv, controller
<1> QED
  BY <1>1, <1>2
  DEF Shell, SetUp, StartShell, WriteOut, PollNothing, PollCharacter, PollEnter,
      EndOfCommand, driver, typist

\* What is typed finds the keyboard on, or is early; it sends a code at least.
LEMMA TypeListening ==
  ASSUME ListeningInv, OrderInv, NEW k \in Key, Type(k)
  PROVE  ListeningInv'
<1>1. /\ UNCHANGED <<full, irq, keyboard_input_on>>
      /\ early' = (early \/ ~ keyboard_input_on)
  BY DEF Type, Press, Repeat, Release, Send, driver
<1>2. ASSUME full, ~ early PROVE queue' # << >>
  <2>1. \E c \in {"make", "break"}, n \in Nat : queue' = queue \o Codes(c, k, n)
    <3>1. presses \in Nat /\ presses + 1 \in Nat
      BY DEF OrderInv
    <3>2. CASE Press(k) \/ Repeat(k)
      BY <3>1, <3>2 DEF Press, Repeat, Send
    <3>3. CASE Release(k)
      BY <3>1, <3>3 DEF Release, Send
    <3> QED BY <3>2, <3>3 DEF Type
  <2>2. queue \in Seq(Scancode) /\ queue # << >>
    BY <1>2 DEF ListeningInv, OrderInv
  <2> QED BY <2>1, <2>2, CodesShape, ConcatEqualIffEmpty
<1> QED BY <1>1, <1>2 DEF ListeningInv

(***************************************************************************)
(* If nobody types before the shell has turned the keyboard on, a scan     *)
(* code in the output buffer always has an interrupt that is still to be   *)
(* taken, whatever is typed from then on (keyboard_isr and pic_ack).       *)
(***************************************************************************)
THEOREM NeverDeaf == Spec => [](ListeningInv /\ NoDeafKeyboard)
<1> DEFINE Inv == ListeningInv /\ OrderInv
<1>1. Init => Inv
  BY InitOrder DEF Init, ListeningInv
<1>2. Inv /\ [Next]_vars => Inv'
  <2> SUFFICES ASSUME Inv, [Next]_vars PROVE Inv'
    OBVIOUS
  <2>1. OrderInv'
    BY NextOrder
  <2>2. CASE Controller
    BY <2>1, <2>2 DEF Controller, Announce, ListeningInv, driver, typist
  <2>3. CASE UNCHANGED vars
    BY <2>1, <2>3 DEF ListeningInv, vars, controller, driver, typist
  <2> QED
    BY <2>1, <2>2, <2>3, IsrListening, ShellListening, TypeListening
    DEF Next, Machine
<1>3. Inv => ListeningInv /\ NoDeafKeyboard
  BY DEF ListeningInv, NoDeafKeyboard
<1> QED BY <1>1, <1>2, <1>3, PTL DEF Spec

----------------------------------------------------------------------------
(* puts, which writes one character after the other. *)

\* A set of natural numbers has a least one.
LEMMA LeastNat ==
  ASSUME NEW S \in SUBSET Nat, S # {}
  PROVE  \E m \in S : \A x \in S : m <= x
<1> DEFINE Below(y) == {x \in S : x <= y}
           T == {Below(y) : y \in S}
<1>1. IsWellFoundedOn(StrictSubsetOrdering(Nat), FiniteSubsetsOf(Nat))
  BY FS_StrictSubsetOrderingWellFounded
<1>2. T \subseteq FiniteSubsetsOf(Nat) /\ T # {}
  <2>1. \A y \in S : Below(y) \in SUBSET Nat /\ IsFiniteSet(Below(y))
    BY FS_BoundedSetOfNaturals
  <2> QED BY <2>1 DEF FiniteSubsetsOf
<1>3. PICK t \in T : \A u \in T : ~ (<<u, t>> \in StrictSubsetOrdering(Nat))
  <2> HIDE DEF T
  <2> QED BY <1>1, <1>2, WFMin
<1>4. PICK m \in S : t = Below(m)
  OBVIOUS
<1>5. ASSUME NEW x \in S, x < m PROVE FALSE
  <2>1. Below(x) \in T /\ Below(x) \in SUBSET Nat /\ Below(m) \in SUBSET Nat
    OBVIOUS
  <2>2. m \in Below(m) /\ m \notin Below(x) /\ Below(x) \subseteq Below(m)
    <3>1. x \in Nat /\ m \in Nat /\ m <= m /\ ~ (m <= x)
      BY <1>5
    <3>2. \A z \in Nat : z <= x => z <= m
      BY <1>5, <3>1
    <3> QED BY <3>1, <3>2
  <2>3. <<Below(x), t>> \in StrictSubsetOrdering(Nat)
    <3> HIDE DEF Below
    <3> QED BY <1>4, <2>1, <2>2 DEF StrictSubsetOrdering
  <2> QED BY <1>3, <2>1, <2>3
<1> QED BY <1>5

\* The recursion in Puts has a solution, however long the string is.
LEMMA PensExist ==
  ASSUME NEW n \in Nat, NEW pen, NEW str
  PROVE  \E w : w = [i \in 0 .. n |->
                       IF i = 0 THEN pen ELSE PutChar(w[i - 1], str[i])]
<1> DEFINE Solves(w, k) ==
             w = [i \in 0 .. k |->
                    IF i = 0 THEN pen ELSE PutChar(w[i - 1], str[i])]
           S == {k \in Nat : ~ \E w : Solves(w, k)}
<1> SUFFICES S = {}
  OBVIOUS
<1> SUFFICES ASSUME S # {} PROVE FALSE
  OBVIOUS
<1>1. PICK m \in S : \A x \in S : m <= x
  BY LeastNat
<1>2. m \in Nat /\ ~ \E w : Solves(w, m)
  OBVIOUS
<1>3. m # 0
  <2>1. Solves([i \in 0 .. 0 |-> pen], 0)
    OBVIOUS
  <2> HIDE DEF Solves
  <2> QED BY <1>2, <2>1
<1>4. PICK w : Solves(w, m - 1)
  <2>1. m - 1 \in Nat /\ m - 1 \notin S
    BY <1>1, <1>2, <1>3
  <2> QED BY <2>1
<1> DEFINE v == [i \in 0 .. m |->
                   IF i = m THEN PutChar(w[m - 1], str[m]) ELSE w[i]]
<1>5. ASSUME NEW i \in 0 .. m
      PROVE  v[i] = IF i = 0 THEN pen ELSE PutChar(v[i - 1], str[i])
  <2>1. CASE i = 0
    BY <1>2, <1>3, <1>4, <2>1
  <2>2. CASE i # 0
    <3>1. i - 1 \in 0 .. m /\ i - 1 # m /\ v[i - 1] = w[i - 1]
      BY <1>2, <2>2
    <3>2. CASE i = m
      BY <2>2, <3>1, <3>2
    <3>3. CASE i # m
      <4>1. i \in 0 .. m - 1
        BY <1>2, <3>3
      <4>2. w[i] = PutChar(w[i - 1], str[i])
        BY <1>4, <2>2, <4>1
      <4> QED BY <2>2, <3>1, <3>3, <4>2
    <3> QED BY <3>2, <3>3
  <2> QED BY <2>1, <2>2
<1>6. Solves(v, m)
  <2> HIDE DEF v
  <2>1. v = [i \in 0 .. m |-> v[i]]
    BY DEF v
  <2> QED BY <1>5, <2>1
<1> QED BY <1>2, <1>6

\* puts takes the pen through one state for each character.
Drawn(w, str) ==
  /\ w[0] = Pen
  /\ \A i \in 1 .. Len(str) : w[i] = PutChar(w[i - 1], str[i])
  /\ LET s == w[Len(str)] IN
     /\ fb' = s.fb
     /\ cursor_row' = s.cursor_row /\ cursor_col' = s.cursor_col
     /\ row' = s.row /\ col' = s.col /\ wrapped' = s.wrapped
     /\ cursor' = Index(s.cursor_row, s.cursor_col)

LEMMA PutsDraws ==
  ASSUME NEW str \in Seq(Glyph \cup {Newline}), Puts(str)
  PROVE  \E w : Drawn(w, str)
<1> DEFINE w == CHOOSE w : w = [i \in 0 .. Len(str) |->
                   IF i = 0 THEN Pen ELSE PutChar(w[i - 1], str[i])]
<1>1. Len(str) \in Nat
  OBVIOUS
<1>2. w = [i \in 0 .. Len(str) |->
             IF i = 0 THEN Pen ELSE PutChar(w[i - 1], str[i])]
  BY <1>1, PensExist
<1>3. LET s == w[Len(str)] IN
      /\ fb' = s.fb
      /\ cursor_row' = s.cursor_row /\ cursor_col' = s.cursor_col
      /\ row' = s.row /\ col' = s.col /\ wrapped' = s.wrapped
      /\ cursor' = Index(s.cursor_row, s.cursor_col)
  BY DEF Puts, FramebufferSetCursor
<1> HIDE DEF w
<1>4. w[0] = Pen /\ \A i \in 1 .. Len(str) : w[i] = PutChar(w[i - 1], str[i])
  BY <1>1, <1>2
<1> QED BY <1>3, <1>4 DEF Drawn

\* A set of pens that every character stays in holds the last one too.
LEMMA DrawnIn ==
  ASSUME NEW str \in Seq(Glyph \cup {Newline}), NEW w, Drawn(w, str),
         NEW P, NEW a \in 0 .. Len(str), w[a] \in P,
         \A s \in P, glyph \in Glyph \cup {Newline} : PutChar(s, glyph) \in P
  PROVE  w[Len(str)] \in P
<1> DEFINE S == {i \in a .. Len(str) : w[i] \notin P}
<1> SUFFICES ASSUME S # {} PROVE FALSE
  OBVIOUS
<1>1. Len(str) \in Nat /\ S \in SUBSET Nat
  OBVIOUS
<1>2. PICK m \in S : \A x \in S : m <= x
  BY <1>1, LeastNat
<1>3. m # a /\ m \in a .. Len(str) /\ w[m] \notin P
  OBVIOUS
<1>4. m - 1 \in a .. Len(str) /\ m - 1 \notin S /\ m \in 1 .. Len(str)
  BY <1>1, <1>2, <1>3
<1>5. w[m - 1] \in P /\ str[m] \in Glyph \cup {Newline}
  BY <1>4
<1> QED BY <1>3, <1>4, <1>5 DEF Drawn

----------------------------------------------------------------------------
(* The two pens: what one character does to them. *)

Picture == [shown : [Cell -> Glyph \cup {Nul}], stray : BOOLEAN]

PenType == [fb : Picture, cursor_row : Nat, cursor_col : Nat, row : Nat,
            col : Int, wrapped : BOOLEAN]

\* A cell has a row and a column of the screen.
LEMMA CellOf ==
  ASSUME NEW r \in 0 .. ROWS - 1, NEW c \in 0 .. COLS - 1
  PROVE  Index(r, c) = r * COLS + c /\ Index(r, c) \in Cell
<1>1. Byte(r) = r /\ Byte(c) = c
  BY ScreenAssumption DEF Byte
<1>2. ROWS \in Nat /\ COLS \in Nat
  BY ScreenAssumption
<1>3. r * COLS >= 0 /\ r * COLS + COLS <= ROWS * COLS
  <2>1. PICK d \in Nat : ROWS = r + 1 + d
    <3>1. ROWS - (r + 1) \in Nat /\ ROWS = r + 1 + (ROWS - (r + 1))
      BY <1>2
    <3> QED BY <3>1
  <2>2. ROWS * COLS = r * COLS + COLS + d * COLS
    BY <1>2, <2>1
  <2>3. d * COLS \in Nat /\ r * COLS \in Nat
    BY <1>2, <2>1
  <2> QED BY <1>2, <2>2, <2>3
<1>4. r * COLS \in Int /\ ROWS * COLS \in Int
  BY <1>2
<1> QED BY <1>1, <1>2, <1>3, <1>4 DEF Index, Cell

\* A place is a number, whatever row and column it is of.
LEMMA IndexType ==
  ASSUME NEW r \in Int, NEW c \in Int
  PROVE  Index(r, c) \in Nat
<1>1. BYTE_RANGE \in Nat \ {0} /\ COLS \in Nat
  BY ScreenAssumption
<1>2. r % BYTE_RANGE \in Nat /\ c % BYTE_RANGE \in Nat
  BY <1>1
<1>3. ASSUME NEW a \in Nat, NEW b \in Nat PROVE a * COLS + b \in Nat
  BY <1>1
<1> QED BY <1>2, <1>3 DEF Index, Byte

\* Writing a character keeps the type of what is shown.
LEMMA WriteType ==
  ASSUME NEW b \in Picture,
         NEW r, NEW c, NEW glyph \in Glyph \cup {Nul}
  PROVE  FramebufferWrite(b, r, c, glyph) \in Picture
BY DEF FramebufferWrite, Picture

\* In the screen it changes one cell, and leaves the mark of the stray alone.
LEMMA NotStray ==
  ASSUME NEW b \in Picture,
         NEW r \in 0 .. ROWS - 1, NEW c \in 0 .. COLS - 1, NEW glyph
  PROVE  FramebufferWrite(b, r, c, glyph).stray = b.stray
BY CellOf DEF FramebufferWrite, Picture

LEMMA WriteInside ==
  ASSUME NEW b \in Picture,
         NEW r \in 0 .. ROWS - 1, NEW c \in 0 .. COLS - 1, NEW glyph
  PROVE  FramebufferWrite(b, r, c, glyph).shown
           = [b.shown EXCEPT ![r * COLS + c] = glyph]
BY CellOf DEF FramebufferWrite, Picture

\* What has the fields of a pen, each of its type, is one.
LEMMA PenIs ==
  ASSUME NEW s \in PenType, NEW t, t = [x \in DOMAIN s |-> t[x]],
         t.fb \in Picture, t.cursor_row \in Nat, t.cursor_col \in Nat,
         t.row \in Nat, t.col \in Int, t.wrapped \in BOOLEAN
  PROVE  t \in PenType
<1>1. DOMAIN s = {"fb", "cursor_row", "cursor_col", "row", "col", "wrapped"}
  BY DEF PenType
<1> QED BY <1>1 DEF PenType

\* The columns and rows that puts counts, and what it tells the driver.
LEMMA AdvanceIs ==
  ASSUME NEW s \in PenType, NEW glyph \in Glyph
  PROVE  /\ Advance(s, glyph) \in PenType
         /\ Advance(s, glyph).fb
              = FramebufferWrite(s.fb, s.cursor_row, s.cursor_col, glyph)
         /\ Advance(s, glyph).cursor_row = s.cursor_row
         /\ Advance(s, glyph).cursor_col = s.cursor_col + 1
         /\ Advance(s, glyph).row = s.row
         /\ Advance(s, glyph).col = s.cursor_col + 1
         /\ Advance(s, glyph).wrapped = s.wrapped
<1>1. FramebufferWrite(s.fb, s.cursor_row, s.cursor_col, glyph) \in Picture
  BY WriteType DEF PenType
<1>2. /\ Advance(s, glyph).fb
           = FramebufferWrite(s.fb, s.cursor_row, s.cursor_col, glyph)
      /\ Advance(s, glyph).cursor_row = s.cursor_row
      /\ Advance(s, glyph).cursor_col = s.cursor_col + 1
      /\ Advance(s, glyph).row = s.row
      /\ Advance(s, glyph).col = s.cursor_col + 1
      /\ Advance(s, glyph).wrapped = s.wrapped
  BY DEF Advance, PenType
<1>3. Advance(s, glyph) = [x \in DOMAIN s |-> Advance(s, glyph)[x]]
  BY DEF Advance
<1>4. /\ s.cursor_row \in Nat /\ s.cursor_col + 1 \in Nat /\ s.row \in Nat
      /\ s.cursor_col + 1 \in Int /\ s.wrapped \in BOOLEAN
  BY DEF PenType
<1> QED BY <1>1, <1>2, <1>3, <1>4, PenIs

LEMMA NextLineIs ==
  ASSUME NEW s \in PenType
  PROVE  /\ NextLine(s) \in PenType
         /\ NextLine(s).fb = s.fb
         /\ NextLine(s).cursor_row = s.cursor_row + 1 /\ NextLine(s).cursor_col = 0
         /\ NextLine(s).row = s.cursor_row + 1 /\ NextLine(s).col = 0
         /\ NextLine(s).wrapped = s.wrapped
<1>1. /\ NextLine(s).fb = s.fb
      /\ NextLine(s).cursor_row = s.cursor_row + 1 /\ NextLine(s).cursor_col = 0
      /\ NextLine(s).row = s.cursor_row + 1 /\ NextLine(s).col = 0
      /\ NextLine(s).wrapped = s.wrapped
  BY DEF NextLine, PenType
<1>2. NextLine(s) = [x \in DOMAIN s |-> NextLine(s)[x]]
  BY DEF NextLine
<1>3. s.fb \in Picture /\ s.cursor_row + 1 \in Nat /\ s.wrapped \in BOOLEAN
  BY DEF PenType
<1> QED BY <1>1, <1>2, <1>3, PenIs

LEMMA AtBottomIs ==
  ASSUME NEW s \in PenType
  PROVE  /\ AtBottom(s) \in PenType
         /\ s.cursor_row < ROWS => AtBottom(s) = s
         /\ s.cursor_row >= ROWS =>
              /\ AtBottom(s).cursor_row = 0
              /\ AtBottom(s).cursor_col = s.cursor_col
              /\ AtBottom(s).wrapped
<1>1. ROWS \in Nat /\ s.cursor_row \in Nat
  BY ScreenAssumption DEF PenType
<1>2. CASE s.cursor_row < ROWS
  BY <1>1, <1>2 DEF AtBottom
<1>3. CASE s.cursor_row >= ROWS
  <2> DEFINE t == [s EXCEPT !.cursor_row = 0, !.col = s.cursor_col,
                            !.wrapped = TRUE]
  <2>1. AtBottom(s) = t
    BY <1>3 DEF AtBottom
  <2>2. /\ t.fb = s.fb /\ t.cursor_row = 0 /\ t.cursor_col = s.cursor_col
        /\ t.row = s.row /\ t.col = s.cursor_col /\ t.wrapped = TRUE
    BY DEF PenType
  <2>3. t = [x \in DOMAIN s |-> t[x]]
    OBVIOUS
  <2>4. /\ s.fb \in Picture /\ s.cursor_col \in Nat /\ s.cursor_col \in Int
        /\ s.row \in Nat /\ 0 \in Nat
    BY DEF PenType
  <2> HIDE DEF t
  <2>5. t \in PenType
    BY <2>2, <2>3, <2>4, PenIs
  <2> QED BY <1>1, <1>3, <2>1, <2>2, <2>5
<1> QED BY <1>1, <1>2, <1>3

\* Every character leaves a pen.
LEMMA PutCharType ==
  ASSUME NEW s \in PenType, NEW glyph \in Glyph \cup {Newline}
  PROVE  PutChar(s, glyph) \in PenType
<1>1. CASE glyph = Newline
  BY <1>1, NextLineIs, AtBottomIs DEF PutChar
<1>2. CASE glyph # Newline
  <2>1. Advance(s, glyph) \in PenType /\ NextLine(Advance(s, glyph)) \in PenType
    BY <1>2, AdvanceIs, NextLineIs
  <2> QED BY <1>2, <2>1, AtBottomIs DEF PutChar
<1> QED BY <1>1, <1>2

\* The pens of puts that are on the screen and have not left it ...
OnScreen == {s \in PenType : /\ s.cursor_row < ROWS /\ s.cursor_col < COLS
                             /\ ~ s.wrapped => ~ s.fb.stray}

\* ... and those where the driver's row and column are the ones of puts.
Together == {s \in OnScreen : ~ s.wrapped => /\ s.row = s.cursor_row
                                             /\ s.col = s.cursor_col}

LEMMA BottomTogether ==
  ASSUME NEW s \in PenType, s.cursor_col < COLS, ~ s.wrapped => ~ s.fb.stray
  PROVE  /\ AtBottom(s) \in OnScreen
         /\ (~ s.wrapped => s.row = s.cursor_row /\ s.col = s.cursor_col)
              => AtBottom(s) \in Together
<1>1. ROWS \in Nat \ {0} /\ s.cursor_row \in Nat
  BY ScreenAssumption DEF PenType
<1>2. CASE s.cursor_row < ROWS
  <2>1. AtBottom(s) = s
    BY <1>2, AtBottomIs
  <2> QED BY <1>2, <2>1 DEF OnScreen, Together
<1>3. CASE s.cursor_row >= ROWS
  <2>1. /\ AtBottom(s) \in PenType /\ AtBottom(s).cursor_row = 0
        /\ AtBottom(s).cursor_col = s.cursor_col /\ AtBottom(s).wrapped
    BY <1>3, AtBottomIs
  <2>2. 0 < ROWS
    BY <1>1
  <2> HIDE DEF PenType
  <2> QED BY <2>1, <2>2 DEF OnScreen, Together
<1> QED BY <1>1, <1>2, <1>3

\* A character keeps the pens together, and a newline brings them together.
LEMMA PutCharTogether ==
  ASSUME NEW s \in OnScreen, NEW glyph \in Glyph \cup {Newline}
  PROVE  /\ PutChar(s, glyph) \in OnScreen
         /\ glyph = Newline \/ s \in Together => PutChar(s, glyph) \in Together
<1>1. /\ s \in PenType /\ s.fb \in Picture
      /\ s.cursor_row \in 0 .. ROWS - 1 /\ s.cursor_col \in 0 .. COLS - 1
      /\ ~ s.wrapped => ~ s.fb.stray
  <2>1. s.cursor_row \in Nat /\ s.cursor_col \in Nat /\ s.fb \in Picture
    BY DEF OnScreen, PenType
  <2>2. ROWS \in Nat /\ COLS \in Nat
    BY ScreenAssumption
  <2> QED BY <2>1, <2>2 DEF OnScreen
<1>2. COLS \in Nat \ {0} /\ 0 < COLS
  BY ScreenAssumption
<1>3. CASE glyph = Newline
  <2>1. PutChar(s, glyph) = AtBottom(NextLine(s))
    BY <1>3 DEF PutChar
  <2>2. /\ NextLine(s) \in PenType /\ NextLine(s).cursor_col < COLS
        /\ ~ NextLine(s).wrapped => ~ NextLine(s).fb.stray
        /\ NextLine(s).row = NextLine(s).cursor_row
        /\ NextLine(s).col = NextLine(s).cursor_col
    BY <1>1, <1>2, NextLineIs
  <2> QED BY <2>1, <2>2, BottomTogether
<1>4. CASE glyph # Newline
  <2> DEFINE a == Advance(s, glyph)
  <2>1. /\ a \in PenType
        /\ a.fb = FramebufferWrite(s.fb, s.cursor_row, s.cursor_col, glyph)
        /\ a.cursor_row = s.cursor_row /\ a.cursor_col = s.cursor_col + 1
        /\ a.row = s.row /\ a.col = s.cursor_col + 1 /\ a.wrapped = s.wrapped
    BY <1>1, <1>4, AdvanceIs
  <2>2. a.fb.stray = s.fb.stray
    <3>1. FramebufferWrite(s.fb, s.cursor_row, s.cursor_col, glyph).stray
            = s.fb.stray
      BY <1>1, NotStray
    <3> HIDE DEF a
    <3> QED BY <2>1, <3>1
  <2>3. PutChar(s, glyph) = AtBottom(IF a.cursor_col >= COLS THEN NextLine(a) ELSE a)
    BY <1>4 DEF PutChar
  <2> HIDE DEF a
  <2>4. CASE a.cursor_col >= COLS
    <3>1. /\ NextLine(a) \in PenType /\ NextLine(a).cursor_col < COLS
          /\ ~ NextLine(a).wrapped => ~ NextLine(a).fb.stray
          /\ NextLine(a).row = NextLine(a).cursor_row
          /\ NextLine(a).col = NextLine(a).cursor_col
      BY <1>1, <1>2, <2>1, <2>2, NextLineIs
    <3> QED BY <2>3, <2>4, <3>1, BottomTogether
  <2>5. CASE ~ (a.cursor_col >= COLS)
    <3>1. a.cursor_col < COLS /\ (~ a.wrapped => ~ a.fb.stray)
      BY <1>1, <1>2, <2>1, <2>2, <2>5
    <3>2. s \in Together /\ ~ a.wrapped => a.row = a.cursor_row /\ a.col = a.cursor_col
      BY <2>1 DEF Together
    <3> QED BY <1>4, <2>1, <2>3, <2>5, <3>1, <3>2, BottomTogether
  <2> QED BY <2>4, <2>5
<1> QED BY <1>3, <1>4

\* What puts leaves: pens on the screen, together if they were, and also if
\* the string begins with a newline.
LEMMA PutsTogether ==
  ASSUME Pen \in OnScreen, NEW str \in Seq(Glyph \cup {Newline}), Puts(str)
  PROVE  /\ Pen' \in OnScreen
         /\ \/ Pen \in Together
            \/ str # << >> /\ Head(str) = Newline
            => Pen' \in Together
<1>1. PICK w : Drawn(w, str)
  BY PutsDraws
<1>2. Len(str) \in Nat /\ w[0] = Pen
  BY <1>1 DEF Drawn
<1> DEFINE s == w[Len(str)]
<1>4. /\ \A t \in OnScreen, glyph \in Glyph \cup {Newline} :
           PutChar(t, glyph) \in OnScreen
      /\ \A t \in Together, glyph \in Glyph \cup {Newline} :
           PutChar(t, glyph) \in Together
  BY PutCharTogether DEF Together
<1>5. s \in OnScreen
  BY <1>1, <1>2, <1>4, DrawnIn
<1>6. ASSUME Pen \in Together PROVE s \in Together
  BY <1>1, <1>2, <1>4, <1>6, DrawnIn
<1>7. ASSUME str # << >>, Head(str) = Newline PROVE s \in Together
  <2>1. 1 \in 1 .. Len(str) /\ str[1] = Newline
    BY <1>7
  <2>2. w[1] = PutChar(Pen, Newline)
    BY <1>1, <2>1 DEF Drawn
  <2>3. w[1] \in Together /\ 1 \in 0 .. Len(str)
    BY <1>2, <2>1, <2>2, PutCharTogether
  <2> QED BY <1>1, <1>4, <2>3, DrawnIn
<1>8. Pen' = s
  <2>1. /\ fb' = s.fb /\ cursor_row' = s.cursor_row /\ cursor_col' = s.cursor_col
        /\ row' = s.row /\ col' = s.col /\ wrapped' = s.wrapped
    BY <1>1 DEF Drawn
  <2>2. s \in PenType
    BY <1>5 DEF OnScreen
  <2> HIDE DEF s
  <2> QED BY <2>1, <2>2 DEF Pen, PenType
<1> HIDE DEF s
<1> QED BY <1>5, <1>6, <1>7, <1>8

----------------------------------------------------------------------------
(* The values that each variable can take. *)

ScreenOK ==
  /\ fb \in Picture
  /\ cursor \in Nat /\ cursor_row \in Nat /\ cursor_col \in Nat
  /\ row \in Nat /\ col \in Int /\ wrapped \in BOOLEAN

DriverOK ==
  /\ queue \in Seq(Scancode) /\ full \in BOOLEAN /\ irq \in BOOLEAN
  /\ keyboard_input_on \in BOOLEAN
  /\ keyboard_buffer \in Char \cup {NoChar}
  /\ key_pressed \in BOOLEAN /\ backspace_pressed \in BOOLEAN

ShellOK ==
  /\ pc \in {"setup", "start", "greet", "poll", "answer"}
  /\ out \in Seq(Seq(Glyph \cup {Newline})) /\ line \in Seq(Letter)
  /\ taken \in Nat

TypistOK ==
  /\ held \subseteq Key
  /\ presses \in Nat /\ latest \in Nat /\ early \in BOOLEAN
  /\ hasty \in BOOLEAN

LEMMA TypeParts ==
  /\ TypeOK <=> ScreenOK /\ DriverOK /\ ShellOK /\ TypistOK
  /\ TypeOK' <=> ScreenOK' /\ DriverOK' /\ ShellOK' /\ TypistOK'
BY DEF TypeOK, ScreenOK, DriverOK, ShellOK, TypistOK, Picture

LEMMA InitType == Init => TypeOK
<1> SUFFICES ASSUME Init PROVE TypeOK
  OBVIOUS
<1>1. fb \in Picture
  <2>1. PICK glyph \in Glyph : fb = [shown |-> [i \in Cell |-> glyph], stray |-> FALSE]
    BY DEF Init
  <2> QED BY <2>1 DEF Picture
<1>2. ScreenOK
  <2>1. /\ cursor = 0 /\ cursor_row = 0 /\ cursor_col = 0 /\ row = 0 /\ col = 0
    BY DEF Init
  <2>2. wrapped \in BOOLEAN
    BY DEF Init
  <2> QED BY <1>1, <2>1, <2>2 DEF ScreenOK
<1>3. DriverOK
  <2>1. queue = << >> /\ << >> \in Seq(Scancode)
    BY DEF Init
  <2> QED BY <2>1 DEF Init, DriverOK
<1>4. ShellOK
  <2>1. /\ out = << >> /\ << >> \in Seq(Seq(Glyph \cup {Newline}))
        /\ line = << >> /\ << >> \in Seq(Letter)
    BY DEF Init
  <2> QED BY <2>1 DEF Init, ShellOK
<1>5. TypistOK
  BY DEF Init, TypistOK
<1> QED BY <1>2, <1>3, <1>4, <1>5, TypeParts

\* puts keeps the type of the screen, whatever it prints.
LEMMA PutsType ==
  ASSUME ScreenOK, NEW str \in Seq(Glyph \cup {Newline}), Puts(str)
  PROVE  ScreenOK'
<1>1. PICK w : Drawn(w, str)
  BY PutsDraws
<1>2. Len(str) \in Nat /\ w[0] = Pen
  BY <1>1 DEF Drawn
<1>3. Pen \in PenType
  BY DEF Pen, PenType, ScreenOK
<1>4. w[Len(str)] \in PenType
  <2>1. 0 \in 0 .. Len(str) /\ w[0] \in PenType
    BY <1>2, <1>3
  <2> QED BY <1>1, <2>1, PutCharType, DrawnIn
<1> DEFINE s == w[Len(str)]
<1>5. /\ s.fb \in Picture /\ s.cursor_row \in Nat /\ s.cursor_col \in Nat
      /\ s.row \in Nat /\ s.col \in Int /\ s.wrapped \in BOOLEAN
      /\ Index(s.cursor_row, s.cursor_col) \in Nat
  <2>1. s \in PenType
    BY <1>4
  <2> HIDE DEF s
  <2>2. /\ s.fb \in Picture /\ s.cursor_row \in Nat /\ s.cursor_col \in Nat
        /\ s.row \in Nat /\ s.col \in Int /\ s.wrapped \in BOOLEAN
    BY <2>1 DEF PenType
  <2>3. Index(s.cursor_row, s.cursor_col) \in Nat
    <3>1. s.cursor_row \in Int /\ s.cursor_col \in Int
      BY <2>2
    <3> QED BY <3>1, IndexType
  <2> QED BY <2>2, <2>3
<1>6. /\ fb' = s.fb /\ cursor_row' = s.cursor_row /\ cursor_col' = s.cursor_col
      /\ row' = s.row /\ col' = s.col /\ wrapped' = s.wrapped
      /\ cursor' = Index(s.cursor_row, s.cursor_col)
  BY <1>1 DEF Drawn
<1> HIDE DEF s
<1> QED BY <1>5, <1>6 DEF ScreenOK

\* Every step of the shell keeps the types.
LEMMA ShellType ==
  ASSUME TypeOK, Shell
  PROVE  TypeOK'
<1>1. ScreenOK /\ DriverOK /\ ShellOK /\ TypistOK
  BY TypeParts
<1>2. UNCHANGED screen => ScreenOK'
  BY <1>1 DEF screen, ScreenOK
<1>3. UNCHANGED typist => TypistOK'
  BY <1>1 DEF typist, TypistOK
<1>4. UNCHANGED <<controller, driver>> => DriverOK'
  BY <1>1 DEF controller, driver, DriverOK
<1>5. ASSUME UNCHANGED <<controller, keyboard_input_on, key_pressed,
                         backspace_pressed>>, GetKeyboardBuffer
      PROVE  DriverOK'
  BY <1>1, <1>5 DEF controller, DriverOK, GetKeyboardBuffer
<1>6. CASE SetUp
  <2>1. fb' \in Picture
    BY <1>6 DEF SetUp, FramebufferClear, Picture
  <2>2. cursor' \in Nat
    BY <1>6, IndexType DEF SetUp, FramebufferSetCursor
  <2>3. ScreenOK'
    BY <1>1, <1>6, <2>1, <2>2 DEF SetUp, ScreenOK
  <2>4. ShellOK'
    BY <1>1, <1>6 DEF SetUp, ShellOK
  <2>5. UNCHANGED <<controller, driver, typist>>
    BY <1>6 DEF SetUp
  <2> QED BY <1>3, <1>4, <2>3, <2>4, <2>5, TypeParts
<1>7. CASE StartShell
  <2>1. ShellOK'
    BY <1>1, <1>7, TerminalAssumption DEF StartShell, ShellOK
  <2> QED BY <1>2, <1>3, <1>4, <1>7, <2>1, TypeParts DEF StartShell
<1>8. CASE WriteOut
  <2>1. /\ Head(out) \in Seq(Glyph \cup {Newline})
        /\ Tail(out) \in Seq(Seq(Glyph \cup {Newline}))
    BY <1>1, <1>8, HeadTailProperties DEF WriteOut, ShellOK
  <2>2. ScreenOK'
    BY <1>1, <1>8, <2>1, PutsType DEF WriteOut
  <2>3. ShellOK'
    BY <1>1, <1>8, <2>1 DEF WriteOut, ShellOK
  <2>4. UNCHANGED <<controller, driver, typist>>
    BY <1>8 DEF WriteOut
  <2> QED BY <1>3, <1>4, <2>2, <2>3, <2>4, TypeParts
<1>9. CASE KeyboardStateActivate
  <2>1. DriverOK' /\ ShellOK'
    BY <1>1, <1>9 DEF KeyboardStateActivate, controller, DriverOK, ShellOK
  <2> QED BY <1>2, <1>3, <1>9, <2>1, TypeParts DEF KeyboardStateActivate
<1>10. CASE PollNothing
  <2>1. ShellOK'
    BY <1>1, <1>10 DEF PollNothing, shell, ShellOK
  <2> QED BY <1>2, <1>3, <1>5, <1>10, <2>1, TypeParts DEF PollNothing
<1>11. keyboard_buffer.at \in Nat
  BY <1>1 DEF DriverOK, Char, NoChar
<1>12. CASE PollCharacter
  <2>1. ShellOK'
    BY <1>1, <1>11, <1>12 DEF PollCharacter, ShellOK
  <2> QED BY <1>2, <1>3, <1>5, <1>12, <2>1, TypeParts DEF PollCharacter
<1>13. CASE PollEnter
  <2>1. out' \in Seq(Seq(Glyph \cup {Newline}))
    <3>1. PICK answer \in Answers : out' = Append(answer, Prompt)
      BY <1>13 DEF PollEnter
    <3>2. answer \in Seq(Seq(Glyph \cup {Newline}))
      BY TerminalAssumption
    <3> QED BY <3>1, <3>2, TerminalAssumption, AppendProperties
  <2>2. ShellOK'
    BY <1>1, <1>11, <1>13, <2>1 DEF PollEnter, ShellOK
  <2> QED BY <1>2, <1>3, <1>5, <1>13, <2>2, TypeParts DEF PollEnter
<1>14. CASE EndOfCommand
  <2>1. ShellOK'
    BY <1>1, <1>14 DEF EndOfCommand, ShellOK
  <2> QED BY <1>2, <1>3, <1>4, <1>14, <2>1, TypeParts DEF EndOfCommand
<1> QED
  BY <1>6, <1>7, <1>8, <1>9, <1>10, <1>12, <1>13, <1>14 DEF Shell

\* Every branch of keyboard_isr keeps the types.
LEMMA IsrType ==
  ASSUME TypeOK, OrderInv, Isr
  PROVE  TypeOK'
<1>1. ScreenOK /\ DriverOK /\ ShellOK /\ TypistOK
  BY TypeParts
<1>2. ShellOK' /\ TypistOK'
  BY <1>1 DEF Isr, shell, typist, ShellOK, TypistOK
<1> SUFFICES ScreenOK' /\ DriverOK'
  BY <1>2, TypeParts
<1>3. ASSUME TakeScancode
      PROVE  /\ scancode \in Scancode /\ scancode.at \in Nat
             /\ queue' \in Seq(Scancode) /\ full' \in BOOLEAN /\ irq' \in BOOLEAN
             /\ keyboard_input_on
  <2>1. queue \in Seq(Scancode) /\ queue # << >>
    BY <1>1, <1>3 DEF OrderInv, TakeScancode, DriverOK
  <2>2. 1 \in 1 .. Len(queue) /\ scancode = queue[1]
    BY <2>1 DEF scancode
  <2>3. queue' \in Seq(Scancode)
    BY <1>3, <2>1, HeadTailProperties DEF TakeScancode
  <2> QED BY <1>3, <2>1, <2>2, <2>3, QueueAt DEF TakeScancode
<1>4. UNCHANGED screen => ScreenOK'
  BY <1>1 DEF screen, ScreenOK
<1>5. ASSUME TakeScancode, keyboard_input_on' \in BOOLEAN,
             keyboard_buffer' \in Char \cup {NoChar},
             key_pressed' \in BOOLEAN, backspace_pressed' \in BOOLEAN
      PROVE  DriverOK'
  BY <1>3, <1>5 DEF DriverOK
<1>6. /\ keyboard_input_on \in BOOLEAN /\ key_pressed \in BOOLEAN
      /\ backspace_pressed \in BOOLEAN
      /\ keyboard_buffer \in Char \cup {NoChar}
      /\ NoChar \in Char \cup {NoChar}
  BY <1>1 DEF DriverOK
<1>7. /\ fb \in Picture /\ cursor \in Nat /\ cursor_row \in Nat
      /\ cursor_col \in Nat /\ row \in Nat /\ col \in Int /\ wrapped \in BOOLEAN
  BY <1>1 DEF ScreenOK
<1>8. /\ row \in Int /\ row + 1 \in Nat /\ row + 1 \in Int
      /\ col - 1 \in Int /\ col + 1 \in Int /\ 0 \in Int
  BY <1>7
<1>9. /\ Index(row, col - 1) \in Nat /\ Index(row, col + 1) \in Nat
      /\ Index(row + 1, 0) \in Nat
  BY <1>8, IndexType
<1>10. CASE IsrOff
  <2>1. DriverOK'
    BY <1>1, <1>10 DEF IsrOff, DriverOK
  <2> QED BY <1>4, <1>10, <2>1 DEF IsrOff
<1>11. CASE IsrBackspace
  <2>1. FramebufferWrite(fb, row, col - 1, Nul) \in Picture
    BY <1>7, WriteType
  <2>2. /\ backspace_pressed' \in BOOLEAN
        /\ keyboard_buffer' \in Char \cup {NoChar}
        /\ UNCHANGED <<keyboard_input_on, key_pressed>>
    BY <1>6, <1>11 DEF IsrBackspace
  <2>3. DriverOK'
    BY <1>5, <1>6, <1>11, <2>2 DEF IsrBackspace
  <2>4. ScreenOK'
    BY <1>7, <1>8, <1>9, <1>11, <2>1
    DEF IsrBackspace, FramebufferSetCursor, ScreenOK
  <2> QED BY <2>3, <2>4
<1>12. CASE IsrEnter
  <2>1. keyboard_buffer' \in Char
    BY <1>3, <1>12 DEF IsrEnter, Char
  <2>2. DriverOK'
    BY <1>5, <1>6, <1>12, <2>1 DEF IsrEnter
  <2>3. ScreenOK'
    BY <1>7, <1>8, <1>9, <1>12 DEF IsrEnter, FramebufferSetCursor, ScreenOK
  <2> QED BY <2>2, <2>3
<1>13. CASE IsrCharacter
  <2>1. /\ MappedChar \in Char \cup {NoChar}
        /\ MappedChar.ch \in Glyph \cup {Nul}
    BY <1>3, <1>13, KeyAssumption DEF IsrCharacter, MappedChar, Char, NoChar
  <2>2. FramebufferWrite(fb, row, col, MappedChar.ch) \in Picture
    BY <1>7, <2>1, WriteType
  <2>3. DriverOK'
    BY <1>5, <1>6, <1>13, <2>1 DEF IsrCharacter
  <2>4. ScreenOK'
    BY <1>7, <1>9, <1>13, <2>2 DEF IsrCharacter, FramebufferSetCursor, ScreenOK
  <2> QED BY <2>3, <2>4
<1>14. CASE IsrAfterBackspace
  <2>1. DriverOK'
    BY <1>5, <1>6, <1>14 DEF IsrAfterBackspace
  <2>2. ScreenOK'
    BY <1>7, <1>8, <1>14 DEF IsrAfterBackspace, ScreenOK
  <2> QED BY <2>1, <2>2
<1>15. CASE IsrRelease
  <2>1. DriverOK'
    BY <1>5, <1>6, <1>15 DEF IsrRelease
  <2>2. ScreenOK'
    BY <1>7, <1>8, <1>15 DEF IsrRelease, ScreenOK
  <2> QED BY <2>1, <2>2
<1>16. CASE IsrEnterRelease
  BY <1>4, <1>5, <1>6, <1>16 DEF IsrEnterRelease
<1>17. CASE IsrPrefix
  <2>1. DriverOK'
    BY <1>5, <1>6, <1>17 DEF IsrPrefix, driver
  <2>2. ScreenOK'
    BY <1>7, <1>8, <1>9, <1>17 DEF IsrPrefix, FramebufferSetCursor, ScreenOK
  <2> QED BY <2>1, <2>2
<1>18. CASE IsrPassOver
  BY <1>4, <1>5, <1>6, <1>18 DEF IsrPassOver, driver
<1> QED
  BY <1>10, <1>11, <1>12, <1>13, <1>14, <1>15, <1>16, <1>17, <1>18
  DEF Isr, KeyboardIsr

\* Typing keeps the types.
LEMMA TypingType ==
  ASSUME TypeOK, NEW k \in Key, Type(k)
  PROVE  TypeOK'
<1>1. ScreenOK /\ DriverOK /\ ShellOK /\ TypistOK
  BY TypeParts
<1>2. UNCHANGED <<full, irq, screen, driver, shell>>
  BY DEF Type, Press, Repeat, Release, Send
<1>3. ScreenOK' /\ ShellOK'
  BY <1>1, <1>2 DEF screen, ScreenOK, shell, ShellOK
<1>4. queue \in Seq(Scancode) /\ presses \in Nat /\ presses + 1 \in Nat
  BY <1>1 DEF DriverOK, TypistOK
<1>5. TypistOK'
  <2>1. early' \in BOOLEAN
    BY <1>1 DEF Type, Press, Repeat, Release, Send, TypistOK, DriverOK
  <2>2. presses' \in Nat
    BY <1>4 DEF Type, Press, Repeat, Release, Send
  <2>3. held' \subseteq Key /\ latest' \in Nat
    BY <1>1, <1>4 DEF Type, Press, Repeat, Release, TypistOK
  <2>4. hasty' \in BOOLEAN
    BY <1>1 DEF Type, Press, Repeat, Release, TypistOK
  <2> QED BY <2>1, <2>2, <2>3, <2>4 DEF TypistOK
<1>6. queue' \in Seq(Scancode)
  <2>1. \E c \in {"make", "break"}, n \in Nat : queue' = queue \o Codes(c, k, n)
    <3>1. CASE Press(k) \/ Repeat(k)
      BY <1>4, <3>1 DEF Press, Repeat, Send
    <3>2. CASE Release(k)
      BY <1>4, <3>2 DEF Release, Send
    <3> QED BY <3>1, <3>2 DEF Type
  <2> QED BY <1>4, <2>1, CodesShape, ConcatProperties
<1>7. DriverOK'
  BY <1>1, <1>2, <1>6 DEF driver, DriverOK
<1> QED BY <1>3, <1>5, <1>7, TypeParts

LEMMA NextType ==
  ASSUME TypeOK, OrderInv, [Next]_vars
  PROVE  TypeOK'
<1>1. ScreenOK /\ DriverOK /\ ShellOK /\ TypistOK
  BY TypeParts
<1>2. CASE Controller \/ UNCHANGED vars
  <2>1. ScreenOK' /\ ShellOK' /\ TypistOK'
    BY <1>1, <1>2
    DEF Controller, vars, screen, shell, typist, ScreenOK, ShellOK, TypistOK
  <2>2. DriverOK'
    BY <1>1, <1>2
    DEF Controller, Announce, vars, controller, driver, DriverOK
  <2> QED BY <2>1, <2>2, TypeParts
<1> QED
  BY <1>2, IsrType, ShellType, TypingType DEF Next, Machine

(***************************************************************************)
(* Whatever is typed and printed, each variable keeps its type: the driver *)
(* keeps no character but a letter, a newline or none, and the handler     *)
(* reads a scan code only when there is one.                               *)
(***************************************************************************)
THEOREM TerminalTypeOK == Spec => []TypeOK
<1>1. Init => TypeOK /\ OrderInv
  BY InitType, InitOrder
<1>2. TypeOK /\ OrderInv /\ [Next]_vars => TypeOK' /\ OrderInv'
  BY NextType, NextOrder
<1> QED BY <1>1, <1>2, PTL DEF Spec

----------------------------------------------------------------------------
(* Somebody careful at the keyboard: the two pens and the shell's line. *)

USE DEF InStep

\* What the proofs below use of the constants.
LEMMA TypedKeys ==
  ASSUME NEW k \in Letter \cup {Enter}
  PROVE  /\ k \in Key /\ k # Backspace /\ k \notin Silent \cup Deaf
         /\ k \notin Extended
         /\ k # Enter => k \in Letter /\ k \in Glyph /\ k # Newline
         /\ NoChar.ch # Newline /\ NoChar.ch \notin Letter
BY KeyAssumption, ScreenAssumption DEF Key, NoChar

\* A code that is sent is the last one that waits.
LEMMA SendOne ==
  ASSUME queue \in Seq(Scancode), NEW c \in {"make", "break"},
         NEW k \in Letter \cup {Enter}, NEW n \in Nat,
         queue' = queue \o Codes(c, k, n)
  PROVE  /\ Len(queue') = Len(queue) + 1 /\ queue' # << >>
         /\ \A i \in 1 .. Len(queue) : queue'[i] = queue[i]
         /\ queue'[Len(queue) + 1].key = k
         /\ queue'[Len(queue) + 1].code = c
<1> DEFINE z == [code |-> c, key |-> k, at |-> n]
<1>1. z \in Scancode /\ z.key = k /\ z.code = c
  BY TypedKeys DEF Scancode
<1> HIDE DEF z
<1>2. Codes(c, k, n) = << >> \o <<z>>
  BY TypedKeys DEF Codes, z
<1>3. Codes(c, k, n) = <<z>>
  BY <1>1, <1>2, ConcatEmptySeq
<1>4. queue' = Append(queue, z)
  BY <1>1, <1>3, AppendIsConcat
<1> QED BY <1>1, <1>4, AppendProperties

\* The pens do not depend on what the keyboard holds.
LEMMA PensFrame ==
  ASSUME NEW k, PensInv(k),
         UNCHANGED <<screen, pc, out, line, keyboard_buffer, key_pressed>>
  PROVE  PensInv(k)'
BY DEF PensInv, EchoInv, Echoed, screen

LEMMA PressLine ==
  ASSUME TypeOK, LineInv, NEW k, Press(k), ~ hasty'
  PROVE  LineInv'
<1>0. /\ Quiet /\ k \in Letter \cup {Enter}
      /\ cursor_col + Len(line) < COLS - 1
  BY DEF Press, WaitedFor
<1>1. PICK j \in Letter \cup {Enter} : OneKeyInv(j) /\ PensInv(j)
  BY DEF LineInv
<1>2. /\ queue = << >> /\ held = {} /\ pc = "poll" /\ keyboard_buffer = NoChar
      /\ ~ key_pressed
  BY <1>0, <1>1 DEF Quiet, OneKeyInv
<1>3. /\ queue' = queue \o Codes("make", k, presses + 1) /\ held' = held \cup {k}
      /\ UNCHANGED <<screen, driver, shell>>
  BY DEF Press, Send
<1>4. UNCHANGED <<screen, pc, out, line, keyboard_buffer, key_pressed,
                  keyboard_input_on, backspace_pressed, cursor_col>>
  BY <1>3 DEF screen, shell, driver
<1>5. queue \in Seq(Scancode) /\ presses + 1 \in Nat /\ Len(queue) = 0
  BY <1>2 DEF TypeOK
<1>6. /\ Len(queue') = 1 /\ queue' # << >>
      /\ queue'[1].key = k /\ queue'[1].code = "make"
  <2>1. /\ Len(queue') = Len(queue) + 1 /\ queue' # << >>
        /\ queue'[Len(queue) + 1].key = k /\ queue'[Len(queue) + 1].code = "make"
    BY <1>0, <1>3, <1>5, SendOne
  <2> QED BY <1>5, <2>1
<1>7. OneKeyInv(k)'
  <2>1. held' = {k} /\ held' # {}
    BY <1>2, <1>3
  <2>2. \A i \in 1 .. Len(queue') : i = 1
    BY <1>6
  <2>3. /\ ~ backspace_pressed /\ (keyboard_input_on <=> pc \in {"poll", "answer"})
    BY <1>1 DEF OneKeyInv
  <2> QED BY <1>0, <1>2, <1>4, <1>6, <2>1, <2>2, <2>3 DEF OneKeyInv
<1>8. PensInv(k)'
  <2>1. PensInv(k)
    BY <1>1, <1>2 DEF PensInv, EchoInv
  <2> QED BY <1>4, <2>1, PensFrame
<1> QED BY <1>0, <1>7, <1>8 DEF LineInv

\* A key that is down is the one whose codes wait.
LEMMA HeldLine ==
  ASSUME TypeOK, LineInv, NEW k, Repeat(k) \/ Release(k)
  PROVE  LineInv'
<1>1. k \in held
  BY DEF Repeat, Release
<1>2. k \in Letter \cup {Enter} /\ OneKeyInv(k) /\ PensInv(k)
  <2>1. PICK j \in Letter \cup {Enter} : OneKeyInv(j) /\ PensInv(j)
    BY DEF LineInv
  <2>2. j = k
    BY <1>1, <2>1 DEF OneKeyInv
  <2> QED BY <2>1, <2>2
<1>3. PICK c \in {"make", "break"}, n \in Nat :
        /\ queue' = queue \o Codes(c, k, n)
        /\ c = "make" => held' = held
        /\ c = "break" => held' = held \ {k}
  <2>1. presses \in Nat /\ presses + 1 \in Nat
    BY DEF TypeOK
  <2>2. CASE Repeat(k)
    BY <2>1, <2>2 DEF Repeat, Send
  <2>3. CASE Release(k)
    BY <2>1, <2>3 DEF Release, Send
  <2> QED BY <2>2, <2>3
<1>4. UNCHANGED <<screen, pc, out, line, keyboard_buffer, key_pressed,
                  keyboard_input_on, backspace_pressed, cursor_col>>
  BY DEF Repeat, Release, Send, screen, shell, driver
<1>5. PensInv(k)'
  BY <1>2, <1>4, PensFrame
<1>6. queue \in Seq(Scancode) /\ Len(queue) \in Nat
  BY DEF TypeOK
<1>7. /\ Len(queue') = Len(queue) + 1 /\ queue' # << >>
      /\ \A i \in 1 .. Len(queue) : queue'[i] = queue[i]
      /\ queue'[Len(queue) + 1].key = k /\ queue'[Len(queue) + 1].code = c
  BY <1>2, <1>3, <1>6, SendOne
<1>8. /\ held = {k} /\ held' \subseteq {k}
      /\ c = "break" <=> held' = {}
  BY <1>1, <1>2, <1>3 DEF OneKeyInv
<1>9. ASSUME NEW i \in 1 .. Len(queue')
      PROVE  /\ queue'[i].key = k
             /\ queue'[i].code = IF held' = {} /\ i = Len(queue') THEN "break"
                                                                 ELSE "make"
  <2>1. CASE i \in 1 .. Len(queue)
    <3>1. i # Len(queue')
      BY <1>6, <1>7, <2>1
    <3>2. queue[i].key = k /\ queue[i].code = "make"
      BY <1>2, <1>8, <2>1 DEF OneKeyInv
    <3> QED BY <1>7, <2>1, <3>1, <3>2
  <2>2. CASE i = Len(queue) + 1
    BY <1>7, <1>8, <2>2
  <2> QED BY <1>6, <1>7, <2>1, <2>2
<1>10. ASSUME ~ key_pressed
       PROVE  /\ queue'[1].code = "make" /\ pc = "poll"
              /\ keyboard_buffer = NoChar
              /\ cursor_col + Len(line) < COLS - 1
  <2>1. queue # << >>
    BY <1>2, <1>8, <1>10 DEF OneKeyInv
  <2>2. /\ queue[1].code = "make" /\ pc = "poll" /\ keyboard_buffer = NoChar
        /\ cursor_col + Len(line) < COLS - 1
    BY <1>2, <1>10, <2>1 DEF OneKeyInv
  <2>3. 1 \in 1 .. Len(queue)
    BY <1>6, <2>1
  <2> QED BY <1>7, <2>2, <2>3
<1>11. /\ key_pressed /\ keyboard_buffer # NoChar =>
            keyboard_buffer.ch = IF k = Enter THEN Newline ELSE k
       /\ key_pressed /\ pc = "answer" => k = Enter
       /\ ~ backspace_pressed
       /\ keyboard_input_on <=> pc \in {"poll", "answer"}
       /\ pc # "poll" => keyboard_buffer = NoChar
       /\ pc \in {"poll", "answer"}
  BY <1>2, <1>8 DEF OneKeyInv
<1>12. OneKeyInv(k)'
  BY <1>4, <1>7, <1>8, <1>9, <1>10, <1>11 DEF OneKeyInv
<1> QED BY <1>2, <1>5, <1>12 DEF LineInv

\* What the handler reads is the key's: its make code while more is to come,
\* and its break code when it has been let go and nothing else waits.
LEMMA TakeOne ==
  ASSUME NEW k, OneKeyInv(k), queue \in Seq(Scancode), queue # << >>,
         TakeScancode, UNCHANGED held
  PROVE  /\ scancode.key = k
         /\ scancode.code = IF held = {} /\ queue' = << >> THEN "break" ELSE "make"
         /\ scancode = queue[1]
         /\ \A i \in 1 .. Len(queue') :
              /\ queue'[i].key = k
              /\ queue'[i].code = IF held' = {} /\ i = Len(queue') THEN "break"
                                                                  ELSE "make"
<1>1. /\ queue' \in Seq(Scancode) /\ Len(queue') = Len(queue) - 1
      /\ \A i \in 1 .. Len(queue') : queue'[i] = queue[i + 1]
  BY HeadTailProperties DEF TakeScancode
<1>2. /\ Len(queue) \in Nat \ {0} /\ 1 \in 1 .. Len(queue) /\ scancode = queue[1]
      /\ queue' = << >> <=> Len(queue) = 1
  BY <1>1 DEF scancode
<1>3. ASSUME NEW i \in 1 .. Len(queue')
      PROVE  /\ queue'[i].key = k
             /\ queue'[i].code = IF held' = {} /\ i = Len(queue') THEN "break"
                                                                 ELSE "make"
  <2>1. /\ i + 1 \in 1 .. Len(queue) /\ queue'[i] = queue[i + 1]
        /\ i = Len(queue') <=> i + 1 = Len(queue)
    BY <1>1, <1>2
  <2> QED BY <2>1 DEF OneKeyInv
<1> QED BY <1>2, <1>3 DEF OneKeyInv

\* Writing behind the line leaves the line, and adds to it.
LEMMA ShowNext ==
  ASSUME fb \in Picture, line \in Seq(Letter), NEW k \in Letter,
         cursor_row \in Nat, cursor_col \in Nat, cursor_row < ROWS,
         cursor_col + Len(line) < COLS - 1,
         \A i \in 1 .. Len(line) :
           fb.shown[cursor_row * COLS + cursor_col + i - 1] = line[i],
         fb' = FramebufferWrite(fb, cursor_row, cursor_col + Len(line), k)
  PROVE  /\ fb'.stray = fb.stray
         /\ \A i \in 1 .. Len(Append(line, k)) :
              fb'.shown[cursor_row * COLS + cursor_col + i - 1]
                = Append(line, k)[i]
<1>1. /\ ROWS \in Nat /\ COLS \in Nat /\ Len(line) \in Nat
      /\ cursor_row \in 0 .. ROWS - 1
      /\ cursor_col + Len(line) \in 0 .. COLS - 1
  BY ScreenAssumption
<1> DEFINE base == cursor_row * COLS
           place == base + (cursor_col + Len(line))
<1>2. base \in Int
  BY <1>1
<1>3. /\ fb'.stray = fb.stray
      /\ fb'.shown = [fb.shown EXCEPT ![place] = k]
  BY <1>1, NotStray, WriteInside
<1>4. ASSUME NEW c \in 0 .. COLS - 1 PROVE base + c \in Cell
  BY <1>1, <1>4, CellOf
<1> HIDE DEF base
<1>5. fb.shown \in [Cell -> Glyph \cup {Nul}]
  BY DEF Picture
<1>6. /\ Len(Append(line, k)) = Len(line) + 1
      /\ \A i \in 1 .. Len(line) : Append(line, k)[i] = line[i]
      /\ Append(line, k)[Len(line) + 1] = k
  BY AppendProperties
<1>7. ASSUME NEW i \in 1 .. Len(line)
      PROVE  fb'.shown[base + cursor_col + i - 1] = line[i]
  <2>1. cursor_col + i - 1 \in 0 .. COLS - 1
    BY <1>1
  <2>2. /\ base + cursor_col + i - 1 = base + (cursor_col + i - 1)
        /\ base + cursor_col + i - 1 # place
    BY <1>1, <1>2
  <2>3. base + cursor_col + i - 1 \in Cell
    BY <1>4, <2>1, <2>2
  <2>4. fb.shown[base + cursor_col + i - 1] = line[i]
    BY DEF base
  <2> QED BY <1>3, <1>5, <2>2, <2>3, <2>4
<1>8. fb'.shown[base + cursor_col + (Len(line) + 1) - 1] = k
  <2>1. base + cursor_col + (Len(line) + 1) - 1 = place
    BY <1>1, <1>2
  <2>2. place \in Cell
    BY <1>1, <1>4
  <2> QED BY <1>3, <1>5, <2>1, <2>2
<1>9. ASSUME NEW i \in 1 .. Len(line) + 1
      PROVE  fb'.shown[base + cursor_col + i - 1] = Append(line, k)[i]
  <2>1. CASE i \in 1 .. Len(line)
    BY <1>6, <1>7, <2>1
  <2>2. CASE i = Len(line) + 1
    BY <1>6, <1>8, <2>2
  <2> QED BY <1>1, <2>1, <2>2
<1> QED BY <1>3, <1>6, <1>9 DEF base

\* The make code that starts a press: the shell waits, and has polled.
LEMMA FreshLine ==
  ASSUME TypeOK, NEW k \in Letter \cup {Enter}, OneKeyInv(k), PensInv(k),
         queue # << >>, ~ key_pressed, UNCHANGED <<shell, typist>>,
         IsrEnter \/ IsrCharacter
  PROVE  LineInv'
<1>1. TakeScancode /\ scancode.code = "make" /\ key_pressed' = TRUE
  BY DEF IsrEnter, IsrCharacter
<1>2. /\ UNCHANGED <<pc, line, out, held, cursor_row, cursor_col, wrapped,
                     backspace_pressed, keyboard_input_on>>
  BY DEF shell, typist, IsrEnter, IsrCharacter
<1>3. /\ scancode.key = k
      /\ \A i \in 1 .. Len(queue') :
           /\ queue'[i].key = k
           /\ queue'[i].code = IF held' = {} /\ i = Len(queue') THEN "break"
                                                               ELSE "make"
      /\ ~ (held = {} /\ queue' = << >>)
  <2>1. queue \in Seq(Scancode)
    BY DEF TypeOK
  <2> QED BY <1>1, <1>2, <2>1, TakeOne
<1>4. /\ pc = "poll" /\ keyboard_buffer = NoChar
      /\ cursor_col + Len(line) < COLS - 1
      /\ held \subseteq {k} /\ ~ backspace_pressed
      /\ keyboard_input_on <=> pc \in {"poll", "answer"}
  BY DEF OneKeyInv
<1>5. ASSUME keyboard_buffer'.ch = IF k = Enter THEN Newline ELSE k
      PROVE  OneKeyInv(k)'
  BY <1>1, <1>2, <1>3, <1>4, <1>5 DEF OneKeyInv
<1>6. /\ fb \in Picture /\ line \in Seq(Letter) /\ cursor_row \in Nat
      /\ cursor_col \in Nat /\ Len(line) \in Nat
      /\ cursor_row < ROWS /\ cursor_col < COLS
  BY DEF TypeOK, Picture, PensInv
<1>7. /\ NoChar.ch # Newline
      /\ ~ wrapped => ~ fb.stray /\ EchoInv(k)
  BY <1>4, TypedKeys DEF PensInv
<1>8. CASE IsrEnter
  <2>1. k = Enter /\ keyboard_buffer' = [ch |-> Newline, at |-> scancode.at]
        /\ UNCHANGED fb
    BY <1>3, <1>8 DEF IsrEnter
  <2>2. PensInv(k)'
    BY <1>2, <1>4, <1>6, <1>7, <2>1 DEF PensInv
  <2> QED BY <1>5, <2>1, <2>2 DEF LineInv
<1>9. CASE IsrCharacter
  <2>1. k \in Letter /\ k # Enter /\ k # Newline
    BY <1>3, <1>9, TypedKeys, KeyAssumption DEF IsrCharacter
  <2>2. /\ keyboard_buffer' = [ch |-> k, at |-> scancode.at]
        /\ fb' = FramebufferWrite(fb, row, col, k)
        /\ UNCHANGED <<row, col>>
    BY <1>3, <1>9, <2>1 DEF IsrCharacter, MappedChar
  <2>3. keyboard_buffer'.ch = k /\ keyboard_buffer' # NoChar
    BY <2>1, <2>2, TypedKeys
  <2>4. Echoed = line /\ Echoed' = Append(line, k)
    BY <1>2, <1>4, <2>2, <2>3 DEF Echoed
  <2>5. ASSUME ~ wrapped PROVE ~ fb'.stray /\ EchoInv(k)'
    <3>1. /\ row = cursor_row /\ col = cursor_col + Len(line)
          /\ \A i \in 1 .. Len(line) :
               fb.shown[cursor_row * COLS + cursor_col + i - 1] = line[i]
          /\ ~ fb.stray
      BY <1>6, <1>7, <2>4, <2>5 DEF EchoInv
    <3>2. /\ fb'.stray = fb.stray
          /\ \A i \in 1 .. Len(Append(line, k)) :
               fb'.shown[cursor_row * COLS + cursor_col + i - 1]
                 = Append(line, k)[i]
      BY <1>4, <1>6, <2>1, <2>2, <3>1, ShowNext
    <3>3. Len(Append(line, k)) = Len(line) + 1
      BY <1>6, <2>1, AppendProperties
    <3>4. col = cursor_col + (Len(line) + 1) - 1
          /\ cursor_col + (Len(line) + 1) < COLS
      BY <1>4, <1>6, <3>1, ScreenAssumption
    <3> QED BY <1>1, <1>2, <2>1, <2>2, <2>4, <3>1, <3>2, <3>3, <3>4 DEF EchoInv
  <2>6. PensInv(k)'
    BY <1>2, <1>4, <1>6, <2>5 DEF PensInv
  <2> QED BY <1>5, <2>1, <2>3, <2>6 DEF LineInv
<1> QED BY <1>8, <1>9

\* The break code that ends a press moves the driver's pen behind a letter.
LEMMA ReleaseLine ==
  ASSUME TypeOK, NEW k \in Letter \cup {Enter}, OneKeyInv(k), PensInv(k),
         queue # << >>, key_pressed, UNCHANGED <<shell, typist>>,
         IsrRelease \/ IsrEnterRelease
  PROVE  LineInv'
<1>1. TakeScancode /\ Above80 /\ key_pressed' = FALSE
  BY DEF IsrRelease, IsrEnterRelease, EnterBreak, Above80
<1>2. UNCHANGED <<pc, line, out, held, keyboard_buffer, fb, row, cursor_row,
                  cursor_col, wrapped, backspace_pressed, keyboard_input_on>>
  BY DEF shell, typist, screen, IsrRelease, IsrEnterRelease
<1>3. scancode.key = k /\ scancode.code = "break" /\ held = {} /\ queue' = << >>
  <2>1. queue \in Seq(Scancode)
    BY DEF TypeOK
  <2>2. /\ scancode.key = k
        /\ scancode.code = IF held = {} /\ queue' = << >> THEN "break" ELSE "make"
    BY <1>1, <1>2, <2>1, TakeOne
  <2> QED BY <1>1, <2>2 DEF Above80
<1>4. OneKeyInv(k)'
  <2>1. Len(queue') = 0
    BY <1>3
  <2>2. /\ ~ backspace_pressed
        /\ keyboard_input_on <=> pc \in {"poll", "answer"}
        /\ pc # "poll" => keyboard_buffer = NoChar
        /\ pc \in {"poll", "answer"}
    BY DEF OneKeyInv
  <2> QED BY <1>1, <1>2, <1>3, <2>1, <2>2 DEF OneKeyInv
<1>5. PensInv(k)'
  <2>1. CASE k = Enter
    <3>1. UNCHANGED col
      BY <1>3, <2>1 DEF IsrRelease, IsrEnterRelease, EnterBreak, screen
    <3> QED BY <1>2, <2>1, <3>1 DEF PensInv, EchoInv, Echoed
  <2>2. CASE k # Enter
    <3>1. pc = "poll"
      BY <2>2 DEF OneKeyInv
    <3>2. col' = col + 1
      BY <1>3, <2>2 DEF IsrRelease, IsrEnterRelease, EnterBreak
    <3>3. EchoInv(k) => EchoInv(k)'
      <4>1. Echoed' = Echoed
        BY <1>2 DEF Echoed
      <4>2. Len(Echoed) \in Nat
        <5>1. Echoed \in Seq(Letter \cup {Newline})
          <6>1. line \in Seq(Letter \cup {Newline})
            BY DEF TypeOK
          <6>2. CASE keyboard_buffer = NoChar
            BY <6>1, <6>2 DEF Echoed
          <6>3. CASE keyboard_buffer # NoChar
            <7>1. keyboard_buffer.ch \in Letter \cup {Newline}
              BY <6>3 DEF TypeOK, Char
            <7> QED BY <6>1, <6>3, <7>1, AppendProperties DEF Echoed
          <6> QED BY <6>2, <6>3
        <5> QED BY <5>1
      <4>3. cursor_col \in Nat
        BY DEF TypeOK
      <4> QED BY <1>1, <1>2, <2>2, <3>2, <4>1, <4>2, <4>3 DEF EchoInv
    <3> QED BY <1>2, <3>1, <3>3 DEF PensInv
  <2> QED BY <2>1, <2>2
<1> QED BY <1>4, <1>5 DEF LineInv

\* Every branch of keyboard_isr keeps what is shown.
LEMMA IsrLine ==
  ASSUME TypeOK, OrderInv, LineInv, Isr
  PROVE  LineInv'
<1>1. PICK k \in Letter \cup {Enter} : OneKeyInv(k) /\ PensInv(k)
  BY DEF LineInv
<1>2. UNCHANGED <<shell, typist>> /\ KeyboardIsr /\ irq
  BY DEF Isr, KeyboardIsr, IsrOff, IsrBackspace, IsrEnter, IsrCharacter,
         IsrAfterBackspace, IsrRelease, IsrEnterRelease, IsrPrefix, IsrPassOver,
         TakeScancode
<1>3. queue # << >> /\ queue \in Seq(Scancode) /\ ~ backspace_pressed
  BY <1>1, <1>2 DEF OrderInv, OneKeyInv
<1>4. keyboard_input_on /\ pc \in {"poll", "answer"}
  BY <1>1, <1>3 DEF OneKeyInv
<1>5. TakeScancode
  BY <1>2, <1>4 DEF KeyboardIsr, IsrOff, IsrBackspace, IsrEnter, IsrCharacter,
         IsrAfterBackspace, IsrRelease, IsrEnterRelease, IsrPrefix, IsrPassOver
<1>6. /\ scancode.key = k /\ scancode = queue[1]
      /\ scancode.code = IF held = {} /\ queue' = << >> THEN "break" ELSE "make"
      /\ \A i \in 1 .. Len(queue') :
           /\ queue'[i].key = k
           /\ queue'[i].code = IF held' = {} /\ i = Len(queue') THEN "break"
                                                               ELSE "make"
  BY <1>1, <1>2, <1>3, <1>5, TakeOne DEF typist
<1>7. ~ key_pressed => scancode.code = "make"
  BY <1>1, <1>3, <1>6 DEF OneKeyInv
<1>8. ~ IsrOff /\ ~ IsrBackspace /\ ~ IsrAfterBackspace /\ ~ IsrPrefix
  BY <1>3, <1>4, <1>6, TypedKeys
  DEF IsrOff, IsrBackspace, IsrAfterBackspace, IsrPrefix
<1>9. CASE IsrEnter \/ IsrCharacter
  <2>1. ~ key_pressed
    BY <1>9 DEF IsrEnter, IsrCharacter
  <2> QED BY <1>1, <1>2, <1>3, <1>9, <2>1, FreshLine
<1>10. CASE IsrRelease \/ IsrEnterRelease
  <2>1. key_pressed
    BY <1>7, <1>10 DEF IsrRelease, IsrEnterRelease, EnterBreak
  <2> QED BY <1>1, <1>2, <1>3, <1>10, <2>1, ReleaseLine
<1>11. CASE IsrPassOver
  <2>1. key_pressed /\ scancode.code = "make"
    BY <1>6, <1>7, <1>11, TypedKeys DEF IsrPassOver
  <2>2. UNCHANGED <<pc, line, out, held, keyboard_buffer, key_pressed,
                    backspace_pressed, keyboard_input_on, cursor_col, screen>>
    BY <1>2, <1>11 DEF IsrPassOver, shell, typist, driver, screen
  <2>3. ~ (held = {} /\ queue' = << >>)
    BY <1>6, <2>1
  <2>4. OneKeyInv(k)'
    BY <1>1, <1>4, <1>6, <2>1, <2>2, <2>3 DEF OneKeyInv
  <2>5. PensInv(k)'
    BY <1>1, <2>2, PensFrame
  <2> QED BY <2>4, <2>5 DEF LineInv
<1> QED BY <1>2, <1>8, <1>9, <1>10, <1>11 DEF KeyboardIsr

\* What the shell prints: the newline of an answer brings the pens together.
LEMMA WriteOutLine ==
  ASSUME TypeOK, NEW k \in Letter \cup {Enter}, OneKeyInv(k), PensInv(k), WriteOut
  PROVE  LineInv'
<1>1. /\ pc \in {"greet", "answer"} /\ out # << >> /\ Puts(Head(out))
      /\ UNCHANGED <<controller, driver, pc, line, typist>>
  BY DEF WriteOut
<1>2. UNCHANGED <<queue, keyboard_input_on, keyboard_buffer, key_pressed,
                  backspace_pressed, pc, line, held>>
  BY <1>1 DEF controller, driver, typist
<1>3. OneKeyInv(k)'
  <2>1. ~ (queue # << >> /\ ~ key_pressed)
    BY <1>1 DEF OneKeyInv
  <2> QED BY <1>1, <1>2, <2>1 DEF OneKeyInv
<1>4. Head(out) \in Seq(Glyph \cup {Newline})
  BY <1>1, HeadTailProperties DEF TypeOK
<1>5. /\ fb \in Picture /\ cursor_row \in Nat /\ cursor_col \in Nat
      /\ row \in Nat /\ col \in Int /\ wrapped \in BOOLEAN
  BY DEF TypeOK, Picture
<1>6. Pen \in OnScreen
  BY <1>5 DEF PensInv, Pen, OnScreen, PenType
<1>7. Pen \in Together \/ (Head(out) # << >> /\ Head(Head(out)) = Newline)
  <2>1. wrapped \/ InStep \/ (Head(out) # << >> /\ Head(Head(out)) = Newline)
    BY <1>1 DEF PensInv
  <2> QED BY <1>6, <2>1 DEF Together, Pen
<1>8. Pen' \in Together
  BY <1>1, <1>4, <1>6, <1>7, PutsTogether
<1>9. /\ cursor_row' < ROWS /\ cursor_col' < COLS
      /\ ~ wrapped' => ~ fb'.stray /\ row' = cursor_row' /\ col' = cursor_col'
  BY <1>8 DEF Together, OnScreen, Pen
<1>10. PensInv(k)'
  BY <1>1, <1>2, <1>9 DEF PensInv
<1> QED BY <1>3, <1>10 DEF LineInv

\* Every step of the shell keeps what is shown.
LEMMA ShellLine ==
  ASSUME TypeOK, LineInv, Shell
  PROVE  LineInv'
<1>1. PICK k \in Letter \cup {Enter} : OneKeyInv(k) /\ PensInv(k)
  BY DEF LineInv
<1>2. /\ cursor_col \in Nat /\ cursor_row \in Nat /\ row \in Nat /\ col \in Int
      /\ line \in Seq(Letter)
  BY DEF TypeOK
<1>3. CASE SetUp
  <2>1. /\ UNCHANGED <<queue, keyboard_input_on, keyboard_buffer, key_pressed,
                       backspace_pressed, line, held, out, row, col, cursor_row,
                       cursor_col, wrapped>>
        /\ pc = "setup" /\ pc' = "start" /\ ~ fb'.stray
    BY <1>3 DEF SetUp, FramebufferClear, controller, driver, typist
  <2>2. OneKeyInv(k)'
    BY <1>1, <2>1 DEF OneKeyInv
  <2>3. PensInv(k)'
    BY <1>1, <2>1 DEF PensInv
  <2> QED BY <2>2, <2>3 DEF LineInv
<1>4. CASE StartShell
  <2>1. /\ UNCHANGED <<queue, keyboard_input_on, keyboard_buffer, key_pressed,
                       backspace_pressed, line, held, fb, row, col, cursor_row,
                       cursor_col, wrapped>>
        /\ pc = "start" /\ pc' = "greet"
    BY <1>4 DEF StartShell, controller, driver, typist, screen
  <2>2. OneKeyInv(k)'
    BY <1>1, <2>1 DEF OneKeyInv
  <2>3. PensInv(k)'
    BY <1>1, <2>1 DEF PensInv
  <2> QED BY <2>2, <2>3 DEF LineInv
<1>5. CASE WriteOut
  BY <1>1, <1>5, WriteOutLine
<1>6. CASE KeyboardStateActivate
  <2>1. /\ UNCHANGED <<queue, keyboard_buffer, key_pressed, backspace_pressed,
                       line, held, fb, row, col, cursor_row, cursor_col, wrapped>>
        /\ pc = "greet" /\ pc' = "poll" /\ keyboard_input_on' = TRUE
    BY <1>6 DEF KeyboardStateActivate, controller, typist, screen
  <2>2. queue = << >> /\ held = {} /\ ~ key_pressed /\ line = << >>
        /\ keyboard_buffer = NoChar
    BY <1>1, <2>1 DEF OneKeyInv
  <2>3. OneKeyInv(k)'
    BY <1>1, <2>1, <2>2 DEF OneKeyInv
  <2>4. Echoed' = << >> /\ Len(Echoed') = 0
    BY <2>1, <2>2 DEF Echoed
  <2>5. ~ wrapped => EchoInv(k)'
    BY <1>1, <1>2, <2>1, <2>2, <2>4 DEF EchoInv, PensInv
  <2>6. PensInv(k)'
    BY <1>1, <2>1, <2>5 DEF PensInv
  <2> QED BY <2>3, <2>6 DEF LineInv
<1>7. CASE PollNothing
  <2>1. /\ UNCHANGED <<queue, keyboard_input_on, keyboard_buffer, key_pressed,
                       backspace_pressed, line, held, pc, out, screen, cursor_col>>
    BY <1>7
    DEF PollNothing, GetKeyboardBuffer, controller, typist, shell, screen
  <2>2. OneKeyInv(k)'
    BY <1>1, <2>1 DEF OneKeyInv
  <2>3. PensInv(k)'
    BY <1>1, <2>1, PensFrame
  <2> QED BY <2>2, <2>3 DEF LineInv
<1>8. CASE PollCharacter
  <2>1. /\ UNCHANGED <<queue, keyboard_input_on, key_pressed, backspace_pressed,
                       held, pc, out, fb, row, col, cursor_row, cursor_col, wrapped>>
        /\ pc = "poll" /\ keyboard_buffer.ch \in Letter
        /\ keyboard_buffer' = NoChar /\ line' = Append(line, keyboard_buffer.ch)
    BY <1>8 DEF PollCharacter, GetKeyboardBuffer, controller, typist, screen
  <2>2. keyboard_buffer # NoChar /\ keyboard_buffer.ch # Newline
    BY <2>1, KeyAssumption, ScreenAssumption DEF NoChar
  <2>3. OneKeyInv(k)'
    <3>1. ~ (queue # << >> /\ ~ key_pressed)
      BY <1>1, <2>2 DEF OneKeyInv
    <3> QED BY <1>1, <2>1, <3>1 DEF OneKeyInv
  <2>4. Echoed' = Echoed
    BY <2>1, <2>2 DEF Echoed
  <2>5. PensInv(k)'
    BY <1>1, <2>1, <2>2, <2>4 DEF PensInv, EchoInv
  <2> QED BY <2>3, <2>5 DEF LineInv
<1>9. CASE PollEnter
  <2>1. /\ UNCHANGED <<queue, keyboard_input_on, key_pressed, backspace_pressed,
                       held, line, fb, row, col, cursor_row, cursor_col, wrapped>>
        /\ pc = "poll" /\ pc' = "answer" /\ keyboard_buffer.ch = Newline
        /\ keyboard_buffer' = NoChar
    BY <1>9 DEF PollEnter, GetKeyboardBuffer, controller, typist, screen
  <2>2. keyboard_buffer # NoChar
    BY <2>1, TypedKeys
  <2>3. OneKeyInv(k)'
    <3>1. ~ (queue # << >> /\ ~ key_pressed)
      BY <1>1, <2>2 DEF OneKeyInv
    <3>2. key_pressed => k = Enter
      BY <1>1, <2>1, <2>2, TypedKeys DEF OneKeyInv
    <3> QED BY <1>1, <2>1, <3>1, <3>2 DEF OneKeyInv
  <2>4. out' # << >> /\ Head(out') # << >> /\ Head(Head(out')) = Newline
    <3>1. PICK answer \in Answers : out' = Append(answer, Prompt)
      BY <1>9 DEF PollEnter
    <3>2. /\ answer \in Seq(Seq(Glyph \cup {Newline})) /\ answer # << >>
          /\ Head(answer) # << >> /\ Head(Head(answer)) = Newline
          /\ Prompt \in Seq(Glyph \cup {Newline})
      BY TerminalAssumption, AnswerAssumption
    <3>3. out' # << >> /\ Head(out') = Head(answer)
      BY <3>1, <3>2, AppendProperties, HeadTailAppend
    <3> QED BY <3>2, <3>3
  <2>5. PensInv(k)'
    BY <1>1, <2>1, <2>4 DEF PensInv
  <2> QED BY <2>3, <2>5 DEF LineInv
<1>10. CASE EndOfCommand
  <2>1. /\ UNCHANGED <<queue, keyboard_input_on, keyboard_buffer, key_pressed,
                       backspace_pressed, held, fb, row, col, cursor_row,
                       cursor_col, wrapped>>
        /\ pc = "answer" /\ pc' = "poll" /\ out = << >> /\ line' = << >>
    BY <1>10 DEF EndOfCommand, controller, driver, typist, screen
  <2>2. keyboard_buffer = NoChar /\ (key_pressed => k = Enter)
    BY <1>1, <2>1 DEF OneKeyInv
  <2>3. OneKeyInv(k)'
    <3>1. ~ (queue # << >> /\ ~ key_pressed)
      BY <1>1, <2>1 DEF OneKeyInv
    <3> QED BY <1>1, <2>1, <2>2, <3>1 DEF OneKeyInv
  <2>4. Echoed' = << >> /\ Len(Echoed') = 0
    BY <2>1, <2>2 DEF Echoed
  <2>5. ~ wrapped => EchoInv(k)'
    BY <1>1, <1>2, <2>1, <2>2, <2>4 DEF EchoInv, PensInv
  <2>6. PensInv(k)'
    BY <1>1, <2>1, <2>5 DEF PensInv
  <2> QED BY <2>3, <2>6 DEF LineInv
<1> QED
  BY <1>3, <1>4, <1>5, <1>6, <1>7, <1>8, <1>9, <1>10 DEF Shell

LEMMA InitLine == Init => LineInv
<1> SUFFICES ASSUME Init PROVE LineInv
  OBVIOUS
<1>1. Len(queue) = 0
  BY DEF Init
<1>2. OneKeyInv(Enter)
  BY <1>1 DEF Init, OneKeyInv
<1>3. PensInv(Enter)
  <2>1. ~ fb.stray
    BY DEF Init
  <2>2. 0 < ROWS /\ 0 < COLS
    BY ScreenAssumption
  <2>3. /\ cursor_row = 0 /\ cursor_col = 0 /\ row = 0 /\ col = 0 /\ pc = "setup"
    BY DEF Init
  <2> QED BY <2>1, <2>2, <2>3 DEF PensInv
<1> QED BY <1>2, <1>3 DEF LineInv

LEMMA NextLineInv ==
  ASSUME TypeOK, OrderInv, LineInv, [Next]_vars, ~ hasty'
  PROVE  LineInv'
<1>1. CASE Controller \/ UNCHANGED vars
  <2>1. PICK k \in Letter \cup {Enter} : OneKeyInv(k) /\ PensInv(k)
    BY DEF LineInv
  <2>2. UNCHANGED <<queue, keyboard_input_on, keyboard_buffer, key_pressed,
                    backspace_pressed, line, held, pc, out, screen, cursor_col>>
    BY <1>1 DEF Controller, Announce, vars, controller, driver, screen, shell,
                typist
  <2>3. OneKeyInv(k)'
    BY <2>1, <2>2 DEF OneKeyInv
  <2>4. PensInv(k)'
    BY <2>1, <2>2, PensFrame
  <2> QED BY <2>3, <2>4 DEF LineInv
<1> QED
  BY <1>1, IsrLine, ShellLine, PressLine, HeldLine DEF Next, Machine, Type

\* Nobody becomes patient again.
LEMMA HasteStays == [Next]_vars /\ hasty => hasty'
<1> SUFFICES ASSUME [Next]_vars, hasty PROVE hasty'
  OBVIOUS
<1>1. CASE \E k \in Key : Type(k)
  BY <1>1 DEF Type, Press, Repeat, Release
<1>2. CASE Shell
  BY <1>2 DEF Shell, SetUp, StartShell, WriteOut, KeyboardStateActivate,
      PollNothing, PollCharacter, PollEnter, EndOfCommand, typist
<1>3. CASE Isr \/ Controller \/ UNCHANGED vars
  BY <1>3 DEF Isr, Controller, vars, typist
<1> QED BY <1>1, <1>2, <1>3 DEF Next, Machine

(***************************************************************************)
(* Until puts first comes back to the top: when somebody who presses a key *)
(* at a time waits for the shell, the screen shows the shell's line behind *)
(* its prompt and the driver echoes the next key there, whatever the       *)
(* commands print and however the handler, the shell and the key's codes   *)
(* interleave (keyboard_isr, puts and main).                               *)
(***************************************************************************)
THEOREM LineShown == Spec => []ScreenShowsLine
<1> DEFINE Inv == TypeOK /\ OrderInv /\ (~ hasty => LineInv)
<1>1. Init => Inv
  BY InitType, InitOrder, InitLine
<1>2. Inv /\ [Next]_vars => Inv'
  BY NextType, NextOrder, NextLineInv, HasteStays
<1>3. Inv => ScreenShowsLine
  <2> SUFFICES ASSUME Inv, Quiet, ~ wrapped, ~ hasty
               PROVE  /\ ~ fb.stray
                      /\ row = cursor_row /\ col = cursor_col + Len(line)
                      /\ \A i \in 1 .. Len(line) :
                           fb.shown[cursor_row * COLS + cursor_col + i - 1]
                             = line[i]
    BY DEF ScreenShowsLine
  <2>1. PICK k \in Letter \cup {Enter} : OneKeyInv(k) /\ PensInv(k)
    BY DEF LineInv
  <2>2. ~ key_pressed /\ keyboard_buffer = NoChar /\ pc = "poll"
    BY <2>1 DEF Quiet, OneKeyInv
  <2>3. Echoed = line
    BY <2>2 DEF Echoed
  <2>4. ~ fb.stray /\ EchoInv(k)
    BY <2>1, <2>2, TypedKeys DEF PensInv
  <2>5. line \in Seq(Letter) /\ cursor_col \in Nat
    BY DEF TypeOK
  <2> QED BY <2>2, <2>3, <2>4, <2>5 DEF EchoInv
<1> QED BY <1>1, <1>2, <1>3, PTL DEF Spec

=============================================================================
