--------------------------- MODULE StartupProofs ---------------------------
(***************************************************************************)
(* What the order of kernel_setup is for, proved for every set of lines on *)
(* which devices may ask.                                                  *)
(***************************************************************************)
EXTENDS StartupSafety, TLAPS

\* The mask pic_remap ends with holds every line back.
LEMMA AllMasked == Bits(PIC_DISABLE_ALL_MASK) = 0 .. 7
<1>1. ASSUME NEW i \in 0 .. 7
      PROVE  (255 \div Weight[i + 1]) % 2 = 1
  <2>1. \/ i = 0 \/ i = 1 \/ i = 2 \/ i = 3 \/ i = 4 \/ i = 5 \/ i = 6 \/ i = 7
    OBVIOUS
  <2>2. /\ Weight[1] = 1 /\ Weight[2] = 2 /\ Weight[3] = 4 /\ Weight[4] = 8
        /\ Weight[5] = 16 /\ Weight[6] = 32 /\ Weight[7] = 64
        /\ Weight[8] = 128
    BY DEF Weight
  <2> QED BY <2>1, <2>2
<1> QED
  BY <1>1 DEF Bits, PIC_DISABLE_ALL_MASK

\* Whatever was asked, the only line the processor is told of is the
\* keyboard's, once interrupts are on.
LEMMA OnlyKeyboardAsks ==
  ASSUME StartupInv, Due, NEW v \in Vector
  PROVE  /\ at \notin Early /\ handling = NoVector
         /\ v = PIC1_OFFSET + IRQ_KEYBOARD
<1>1. at \notin Early /\ handling = NoVector
  BY DEF StartupInv, FlagOff, Due
<1>2. /\ base[1] = PIC1_OFFSET
      /\ (0 .. 7) \ {IRQ_KEYBOARD} \subseteq mask[1]
      /\ requested[1] \subseteq 0 .. 7
  BY <1>1 DEF StartupInv, KeyboardOnly, Early, RegisterTypes, Chip
<1>3. Master \subseteq {IRQ_KEYBOARD}
  BY <1>2 DEF Master, Waiting, IRQ_CASCADE, IRQ_KEYBOARD
<1>4. Chosen[1] \subseteq {IRQ_KEYBOARD} /\ Chosen[2] = {}
  <2>1. First(Master) \subseteq {IRQ_KEYBOARD}
    BY <1>3 DEF First
  <2>2. IRQ_CASCADE \notin First(Master)
    BY <2>1 DEF IRQ_CASCADE, IRQ_KEYBOARD
  <2> QED BY <2>1, <2>2 DEF Chosen, Chip
<1>5. v \in {base[1] + i : i \in Chosen[1]}
  BY <1>4 DEF Vector
<1> QED BY <1>1, <1>2, <1>4, <1>5

\* The entry of a vector that has a gate and, from the shell, a stack.
LEMMA EntryIsPrepared ==
  ASSUME StartupInv, at \notin Early, NEW v \in {33, SYSCALL}, Enter(v)
  PROVE  /\ handling' = v /\ at' = at
         /\ ~ interrupt_flag'
<1>1. idtr /\ v \in present
  BY DEF StartupInv, Gates, ISR_STUB_TABLE_LIMIT, SYSCALL
<1>2. at = "user" => KernelStack
  BY DEF StartupInv, Stack, KernelStack
<1>3. INTERRUPT_GATE_R_BIT_2 % 2 # 1
  BY DEF INTERRUPT_GATE_R_BIT_2
<1> QED BY <1>1, <1>2, <1>3 DEF Enter

LEMMA StartupInit ==
  ASSUME Init
  PROVE  StartupInv
<1>1. RegisterTypes
  BY DEF Init, RegisterTypes, Chip
<1>2. FlagOff /\ OnlyHandledVectors
  BY DEF Init, FlagOff, OnlyHandledVectors
<1>3. Remapping /\ KeyboardOnly /\ Gates /\ Stack /\ at \in Programs
  BY DEF Init, Remapping, KeyboardOnly, Gates, Stack, Early, Programs
<1> QED BY <1>1, <1>2, <1>3 DEF StartupInv

----------------------------------------------------------------------------
(* The steps of kernel_setup. *)

LEMMA LoadGdtStep ==
  ASSUME StartupInv, LoadGdt
  PROVE  StartupInv'
<1>1. /\ at = "load_gdt" /\ at' = "pic_remap" /\ index' = 0
      /\ ~ interrupt_flag' /\ handling' = handling /\ UNCHANGED chips
  BY DEF LoadGdt, Then
<1>2. RegisterTypes'
  BY <1>1 DEF StartupInv, RegisterTypes, chips
<1>3. FlagOff' /\ OnlyHandledVectors'
  BY <1>1 DEF StartupInv, FlagOff, OnlyHandledVectors, Early
<1>4. Remapping' /\ KeyboardOnly' /\ Gates' /\ Stack' /\ at' \in Programs
  BY <1>1 DEF Remapping, KeyboardOnly, Gates, Stack, Early, Programs
<1> QED BY <1>2, <1>3, <1>4 DEF StartupInv

\* One word more has been sent to a controller; what it does to the master
\* depends on how many came before.
LEMMA PicRemapStep ==
  ASSUME StartupInv, PicRemap
  PROVE  StartupInv'
<1> DEFINE word == RemapWords[index + 1]
<1>1. /\ at = "pic_remap" /\ index \in 0 .. 9
      /\ handling = NoVector /\ ~ interrupt_flag
  BY DEF StartupInv, Remapping, FlagOff, Early, PicRemap, Then, Again
<1>2. \/ index < 9 /\ at' = "pic_remap" /\ index' = index + 1
      \/ index = 9 /\ at' = "initialize_idt" /\ index' = 0
  BY DEF PicRemap, Then, Again
<1>3. UNCHANGED <<processor, tables>>
  BY DEF PicRemap
<1>4. /\ index = 0 => word = <<1, ICW1>>
      /\ index = 1 => word = <<2, ICW1>>
      /\ index = 2 => word = <<1, PIC1_OFFSET>>
      /\ index = 3 => word = <<2, PIC2_OFFSET>>
      /\ index = 4 => word = <<1, 4>>
      /\ index = 5 => word = <<2, 2>>
      /\ index = 6 => word = <<1, ICW4_8086>>
      /\ index = 7 => word = <<2, ICW4_8086>>
      /\ index = 8 => word = <<1, PIC_DISABLE_ALL_MASK>>
      /\ index = 9 => word = <<2, PIC_DISABLE_ALL_MASK>>
  BY <1>1 DEF RemapWords
<1>5. word[1] \in Chip /\ word[2] \in Int
  BY <1>1, <1>4 DEF Chip, ICW1, PIC1_OFFSET, PIC2_OFFSET, ICW4_8086,
     PIC_DISABLE_ALL_MASK
<1>6. index < 2 => OutCommand(word[1], word[2]) /\ word[2] = ICW1
  BY <1>1, <1>4 DEF PicRemap
<1>7. 2 =< index => OutData(word[1], word[2])
  BY <1>1 DEF PicRemap
<1>8. \A value : Bits(value) \subseteq 0 .. 7
  BY DEF Bits
<1>9. RegisterTypes'
  <2>1. CASE index < 2
    BY <2>1, <1>5, <1>6 DEF StartupInv, RegisterTypes, OutCommand, ICW1,
       PIC_ACK
  <2>2. CASE 2 =< index
    BY <2>2, <1>5, <1>7, <1>8 DEF StartupInv, RegisterTypes, OutData
  <2> QED BY <2>1, <2>2, <1>1
<1>10. /\ index = 0 => icw'[1] = 2
       /\ index = 1 => icw'[1] = icw[1]
  BY <1>4, <1>6, <1>1 DEF StartupInv, RegisterTypes, OutCommand, ICW1, PIC_ACK,
     Chip
<1>11. index \in {3, 5, 7, 9} =>
         icw'[1] = icw[1] /\ base'[1] = base[1] /\ mask'[1] = mask[1]
  BY <1>4, <1>7 DEF StartupInv, RegisterTypes, OutData, Chip
<1>12. index \in {2, 4, 6, 8} =>
         /\ icw'[1] = IF icw[1] \in {2, 3} THEN icw[1] + 1 ELSE 0
         /\ base'[1] = IF icw[1] = 2 THEN word[2] ELSE base[1]
         /\ mask'[1] = IF icw[1] = 0 THEN Bits(word[2]) ELSE mask[1]
  BY <1>4, <1>7 DEF StartupInv, RegisterTypes, OutData, Chip
<1>13. Remapping' /\ (index = 9 => icw'[1] = 0 /\ base'[1] = PIC1_OFFSET
                                     /\ mask'[1] = 0 .. 7)
  BY <1>1, <1>2, <1>4, <1>10, <1>11, <1>12, AllMasked
     DEF StartupInv, Remapping
<1>14. KeyboardOnly'
  BY <1>2, <1>13 DEF KeyboardOnly
<1>15. Gates' /\ Stack' /\ FlagOff' /\ OnlyHandledVectors' /\ at' \in Programs
  BY <1>1, <1>2, <1>3 DEF StartupInv, Gates, Stack, FlagOff,
     OnlyHandledVectors, Early, Programs, processor, tables,
     ISR_STUB_TABLE_LIMIT
<1> QED BY <1>9, <1>13, <1>14, <1>15 DEF StartupInv

\* One gate more, or the last one, lidt and sti.
LEMMA InitializeIdtStep ==
  ASSUME StartupInv, InitializeIdt
  PROVE  StartupInv'
<1>1. /\ at = "initialize_idt" /\ index \in 0 .. ISR_STUB_TABLE_LIMIT
      /\ handling = NoVector /\ ~ interrupt_flag
  BY DEF StartupInv, Gates, FlagOff, Early, InitializeIdt, Then, Again
<1>2. UNCHANGED <<tss, handling, handled, chips>>
  BY DEF InitializeIdt
<1>3. RegisterTypes'
  BY <1>2 DEF StartupInv, RegisterTypes, chips
<1>4. OnlyHandledVectors'
  BY <1>2 DEF StartupInv, OnlyHandledVectors
<1>5. CASE index < ISR_STUB_TABLE_LIMIT
  <2>1. /\ at' = "initialize_idt" /\ index' = index + 1
        /\ present' = present \cup {index} /\ UNCHANGED <<idtr, interrupt_flag>>
    BY <1>1, <1>5 DEF InitializeIdt, Again, SetInterruptGate,
       ISR_STUB_TABLE_LIMIT
  <2>2. Gates'
    BY <2>1, <1>1, <1>5 DEF StartupInv, Gates, Early, ISR_STUB_TABLE_LIMIT
  <2>3. KeyboardOnly' /\ Remapping' /\ Stack' /\ at' \in Programs
    BY <2>1, <1>1, <1>2 DEF StartupInv, KeyboardOnly, Remapping, Stack,
       Programs, Early, chips
  <2>4. FlagOff'
    BY <2>1, <1>1, <1>2 DEF FlagOff
  <2> QED BY <2>2, <2>3, <2>4, <1>3, <1>4 DEF StartupInv
<1>6. CASE index = ISR_STUB_TABLE_LIMIT
  <2>1. /\ at' = "activate_keyboard_interrupt"
        /\ present' = present \cup {SYSCALL} /\ open' = open \cup {SYSCALL}
        /\ idtr'
    BY <1>6 DEF InitializeIdt, Then, SetInterruptGate, ISR_STUB_TABLE_LIMIT
  <2>2. Gates'
    BY <2>1, <1>1, <1>6 DEF StartupInv, Gates, Early, ISR_STUB_TABLE_LIMIT
  <2>3. KeyboardOnly' /\ Remapping' /\ Stack' /\ at' \in Programs
    BY <2>1, <1>1, <1>2 DEF StartupInv, KeyboardOnly, Remapping, Stack,
       Programs, Early, chips
  <2>4. at' \notin Early /\ handling' = NoVector
    BY <2>1, <1>1, <1>2 DEF Early
  <2>5. FlagOff'
    BY <2>4 DEF FlagOff
  <2> QED BY <2>2, <2>3, <2>5, <1>3, <1>4 DEF StartupInv
<1> QED BY <1>1, <1>5, <1>6 DEF ISR_STUB_TABLE_LIMIT

\* The keyboard's bit is cleared in the mask.
LEMMA ActivateStep ==
  ASSUME StartupInv, ActivateKeyboardInterrupt
  PROVE  StartupInv'
<1>1. /\ at = "activate_keyboard_interrupt" /\ at' = "gdt_install_tss"
      /\ UNCHANGED <<processor, tables>>
  BY DEF ActivateKeyboardInterrupt, Then
<1>2. PICK value \in 0 .. 255 :
        Bits(value) = mask[1] \ {IRQ_KEYBOARD} /\ OutData(1, value)
  BY DEF ActivateKeyboardInterrupt
<1>3. icw[1] = 0 /\ base[1] = PIC1_OFFSET
      /\ (0 .. 7) \ {IRQ_KEYBOARD} \subseteq mask[1]
  BY <1>1 DEF StartupInv, KeyboardOnly
<1>4. RegisterTypes'
  BY <1>2, <1>3 DEF StartupInv, RegisterTypes, OutData, Chip
<1>5. KeyboardOnly'
  BY <1>2, <1>3 DEF StartupInv, RegisterTypes, KeyboardOnly, OutData, Chip
<1>6. Remapping' /\ Gates' /\ Stack' /\ at' \in Programs
  BY <1>1 DEF StartupInv, Remapping, Gates, Stack, Programs, Early, tables
<1>7. FlagOff' /\ OnlyHandledVectors'
  BY <1>1 DEF StartupInv, FlagOff, OnlyHandledVectors, Early, processor
<1> QED BY <1>4, <1>5, <1>6, <1>7 DEF StartupInv

\* The steps after it leave the controllers and the gates as they are.
LEMMA LaterStep ==
  ASSUME StartupInv,
         \/ GdtInstallTss \/ SetTssRegister \/ SetTssKernelCurrentStack
         \/ KernelExecuteUserProgram
  PROVE  StartupInv'
<1> DEFINE later == {"gdt_install_tss", "set_tss_register",
                     "set_tss_kernel_current_stack",
                     "kernel_execute_user_program", "user"}
<1>1. /\ at \in later /\ at' \in later
      /\ UNCHANGED <<processor, present, open, idtr, chips>>
  BY DEF GdtInstallTss, SetTssRegister, SetTssKernelCurrentStack,
     KernelExecuteUserProgram, Then, tables
<1>2. RegisterTypes'
  BY <1>1 DEF StartupInv, RegisterTypes, chips
<1>3. Remapping' /\ KeyboardOnly' /\ Gates' /\ at' \in Programs
  BY <1>1 DEF StartupInv, Remapping, KeyboardOnly, Gates, Programs, Early,
     chips
<1>4. FlagOff' /\ OnlyHandledVectors'
  BY <1>1 DEF StartupInv, FlagOff, OnlyHandledVectors, Early, processor
<1>5. Stack'
  <2>1. CASE GdtInstallTss
    BY <2>1 DEF GdtInstallTss, Then, Stack
  <2>2. CASE SetTssRegister
    BY <2>2 DEF SetTssRegister, Then, StartupInv, Stack
  <2>3. CASE SetTssKernelCurrentStack
    BY <2>3 DEF SetTssKernelCurrentStack, Then, StartupInv, Stack
  <2>4. CASE KernelExecuteUserProgram
    BY <2>4 DEF KernelExecuteUserProgram, Then, StartupInv, Stack, tables
  <2> QED BY <2>1, <2>2, <2>3, <2>4
<1> QED BY <1>2, <1>3, <1>4, <1>5 DEF StartupInv

----------------------------------------------------------------------------
(* Interrupts and devices. *)

\* What a step that touches no program counter, gate or mask may change.
LEMMA Undisturbed ==
  ASSUME StartupInv, at' = at, UNCHANGED <<index, tables>>,
         UNCHANGED <<icw, base, mask>>,
         requested' \in [Chip -> SUBSET (0 .. 7)],
         FlagOff', OnlyHandledVectors'
  PROVE  StartupInv'
BY DEF StartupInv, RegisterTypes, Remapping, KeyboardOnly, Gates, Stack, tables

LEMMA InterruptStep ==
  ASSUME StartupInv, Interrupt
  PROVE  StartupInv' /\ handling = NoVector
<1>1. PICK v \in Vector : Enter(v)
  BY DEF Interrupt
<1>2. /\ at \notin Early /\ handling = NoVector
      /\ v = PIC1_OFFSET + IRQ_KEYBOARD
  BY OnlyKeyboardAsks DEF Interrupt
<1>3. handling' = v /\ at' = at /\ ~ interrupt_flag'
  BY <1>1, <1>2, EntryIsPrepared DEF PIC1_OFFSET, IRQ_KEYBOARD
<1>4. FlagOff' /\ OnlyHandledVectors'
  BY <1>2, <1>3 DEF FlagOff, OnlyHandledVectors
<1>5. requested' \in [Chip -> SUBSET (0 .. 7)]
  BY DEF StartupInv, RegisterTypes, Interrupt
<1> QED BY <1>2, <1>3, <1>4, <1>5, Undisturbed DEF Interrupt

LEMMA SystemCallStep ==
  ASSUME StartupInv, SystemCall
  PROVE  StartupInv' /\ handling = NoVector
<1>1. at = "user" /\ handling = NoVector /\ at \notin Early
  BY DEF SystemCall, Early
<1>2. Enter(SYSCALL)
  BY <1>1 DEF SystemCall, StartupInv, Gates
<1>3. handling' = SYSCALL /\ at' = at /\ ~ interrupt_flag'
  BY <1>1, <1>2, EntryIsPrepared
<1>4. FlagOff' /\ OnlyHandledVectors'
  BY <1>1, <1>3 DEF FlagOff, OnlyHandledVectors
<1> QED BY <1>1, <1>3, <1>4, Undisturbed
        DEF SystemCall, StartupInv, RegisterTypes, chips

LEMMA HandlerStep ==
  ASSUME StartupInv, MainInterruptHandler
  PROVE  StartupInv' /\ UNCHANGED handling
<1>1. UNCHANGED <<at, index, interrupt_flag, handling, tables, icw, base, mask,
                  requested>>
  BY DEF MainInterruptHandler, OutCommand, ICW1, PIC_ACK, chips
<1> QED BY <1>1, Undisturbed
        DEF StartupInv, RegisterTypes, FlagOff, OnlyHandledVectors

LEMMA ReturnStep ==
  ASSUME StartupInv, ReturnFromInterrupt
  PROVE  StartupInv' /\ handled /\ handling' = NoVector
<1>1. /\ UNCHANGED <<at, index, tables, chips>>
      /\ handling # NoVector /\ handled /\ handling' = NoVector
  BY DEF ReturnFromInterrupt
<1>2. at \notin Early
  BY <1>1 DEF StartupInv, FlagOff
<1>3. FlagOff' /\ OnlyHandledVectors'
  BY <1>1, <1>2 DEF FlagOff, OnlyHandledVectors
<1> QED BY <1>1, <1>3, Undisturbed DEF StartupInv, RegisterTypes, chips

LEMMA DeviceStep ==
  ASSUME StartupInv, Device
  PROVE  StartupInv' /\ UNCHANGED handling
<1>1. PICK line \in Lines :
        requested' = [requested EXCEPT ![1 + line \div 8] = @ \cup {line % 8}]
  BY DEF Device
<1>2. line \in 0 .. 15
  BY LinesAssumption
<1>3. 1 + line \div 8 \in Chip /\ line % 8 \in 0 .. 7
  BY <1>2 DEF Chip
<1>4. requested' \in [Chip -> SUBSET (0 .. 7)]
  BY <1>1, <1>3 DEF StartupInv, RegisterTypes
<1>5. UNCHANGED <<at, index, processor, tables, icw, base, mask>>
  BY DEF Device
<1>6. FlagOff' /\ OnlyHandledVectors'
  BY <1>5 DEF StartupInv, FlagOff, OnlyHandledVectors, processor
<1> QED BY <1>4, <1>5, <1>6, Undisturbed DEF processor

\* A stub is left through its iret only, whatever happens.
LEMMA StartupStep ==
  ASSUME StartupInv, [Next]_vars
  PROVE  /\ StartupInv'
         /\ handling # NoVector /\ handling' # handling =>
              handled /\ handling' = NoVector
<1>1. CASE LoadGdt \/ PicRemap \/ InitializeIdt
  <2>1. at \in Early
    BY <1>1 DEF LoadGdt, PicRemap, InitializeIdt, Then, Again, Early
  <2> QED BY <2>1, <1>1, LoadGdtStep, PicRemapStep, InitializeIdtStep
          DEF StartupInv, FlagOff
<1>2. CASE ActivateKeyboardInterrupt
  BY <1>2, ActivateStep DEF ActivateKeyboardInterrupt, Then
<1>3. CASE \/ GdtInstallTss \/ SetTssRegister \/ SetTssKernelCurrentStack
           \/ KernelExecuteUserProgram
  BY <1>3, LaterStep DEF GdtInstallTss, SetTssRegister,
     SetTssKernelCurrentStack, KernelExecuteUserProgram, Then
<1>4. CASE Interrupt
  BY <1>4, InterruptStep
<1>5. CASE SystemCall
  BY <1>5, SystemCallStep
<1>6. CASE MainInterruptHandler
  BY <1>6, HandlerStep
<1>7. CASE ReturnFromInterrupt
  BY <1>7, ReturnStep
<1>8. CASE Device
  BY <1>8, DeviceStep
<1>9. CASE UNCHANGED vars
  <2>1. UNCHANGED <<at, index, tables, icw, base, mask, requested,
                    interrupt_flag, handling>>
    BY <1>9 DEF vars, processor, chips
  <2> QED BY <2>1, Undisturbed
          DEF StartupInv, RegisterTypes, FlagOff, OnlyHandledVectors
<1> QED BY <1>1, <1>2, <1>3, <1>4, <1>5, <1>6, <1>7, <1>8, <1>9
        DEF Next, KernelSetup, Processor

----------------------------------------------------------------------------
(* The theorems. *)

(***************************************************************************)
(* The order of kernel_setup keeps its invariant, whichever lines devices  *)
(* ask on and whenever they do.                                            *)
(***************************************************************************)
THEOREM StartupSafe == Spec => []StartupInv
<1>1. Init => StartupInv
  BY StartupInit
<1>2. StartupInv /\ [Next]_vars => StartupInv'
  BY StartupStep
<1> QED BY <1>1, <1>2, PTL DEF Spec

(* No interrupt finds the machine without a gate or a stack. *)
THEOREM StartupNeverResets == Spec => []NeverResets
<1>1. StartupInv => NeverResets
  BY DEF StartupInv, NeverResets, Programs, Early
<1> QED BY <1>1, StartupSafe, PTL

(* main_interrupt_handler is entered for the keyboard and for the shell. *)
THEOREM StartupHandlesOnly == Spec => []OnlyHandledVectors
<1>1. StartupInv => OnlyHandledVectors
  BY DEF StartupInv
<1> QED BY <1>1, StartupSafe, PTL

(* One stub at a time runs, because the gates clear the interrupt flag. *)
THEOREM StubsRunAlone == Spec => StubsDoNotNest
<1>1. StartupInv /\ [Next]_vars =>
        [handling # NoVector /\ handling' # handling =>
           handled /\ handling' = NoVector]_vars
  BY StartupStep
<1> QED BY <1>1, StartupSafe, PTL DEF Spec, StubsDoNotNest

=============================================================================
