------------------------------ MODULE Startup ------------------------------
(***************************************************************************)
(* Interrupts while the kernel starts and after (src/src/kernel.c,         *)
(* interrupt.c, idt.c, gdt.c and the stubs of header/cpu/intsetup.s): the  *)
(* two interrupt controllers as pic_remap programs them, the interrupt     *)
(* descriptor table as initialize_idt fills it, and devices that ask for   *)
(* an interrupt whenever they like.                                        *)
(*                                                                         *)
(* The processor and the controllers are external.  An interrupt that      *)
(* finds no gate or no kernel stack resets the machine: at = "reset".      *)
(***************************************************************************)
EXTENDS Integers, Sequences

CONSTANT Lines  \* the lines devices ask on: IRQ 0 to 15

ASSUME LinesAssumption == Lines \subseteq 0 .. 15

PIC1_OFFSET            == 32
PIC2_OFFSET            == 40
PIC_ACK                == 32
PIC_DISABLE_ALL_MASK   == 255
ICW1                   == 17  \* ICW1_INIT | ICW1_ICW4
ICW4_8086              == 1
IRQ_KEYBOARD           == 1
IRQ_CASCADE            == 2
ISR_STUB_TABLE_LIMIT   == 64
SYSCALL                == 48
TRAP_GATE_R_BIT_2      == 7   \* mutant of the next
INTERRUPT_GATE_R_BIT_2 == 6   \* 0b110
NoVector               == -1

VARIABLES
  at,              \* the next function of kernel_setup, "user" or "reset"
  index,           \* how many steps of it are done
  interrupt_flag,  \* the flag cli and sti set in the processor
  present, open,   \* vectors that have a gate, and those the shell may raise
  idtr,            \* the processor has the table
  tss,             \* what of the task state segment is ready
  handling,        \* the vector whose stub is running
  handled,         \* main_interrupt_handler has returned
  icw, base, mask, requested, inservice  \* the controllers' registers

tables    == <<present, open, idtr, tss>>
processor == <<interrupt_flag, handling, handled>>
chips     == <<icw, base, mask, requested, inservice>>
vars      == <<at, index, processor, tables, chips>>

----------------------------------------------------------------------------
(* The controllers: 1 is the master, and 2 asks on its line IRQ_CASCADE.   *)

Chip == {1, 2}

First(S) == {i \in S : \A j \in S : i =< j}

Weight == <<1, 2, 4, 8, 16, 32, 64, 128>>

Bits(value) == {i \in 0 .. 7 : (value \div Weight[i + 1]) % 2 = 1}

\* A write of the command port: the first initialization word, or the end of
\* the interrupt of the highest priority.
OutCommand(c, value) ==
  \/ /\ value = ICW1
     /\ icw' = [icw EXCEPT ![c] = 2]
     /\ mask' = [mask EXCEPT ![c] = {}]
     /\ requested' = [requested EXCEPT ![c] = {}]
     /\ inservice' = [inservice EXCEPT ![c] = {}]
     /\ UNCHANGED base
  \/ /\ value = PIC_ACK
     /\ inservice' = [inservice EXCEPT ![c] = @ \ First(@)]
     /\ UNCHANGED <<icw, base, mask, requested>>

\* A write of the data port: initialization words 2 to 4, then the mask.
OutData(c, value) ==
  /\ icw' = [icw EXCEPT ![c] = IF @ \in {2, 3} THEN @ + 1 ELSE 0]
  /\ base' = IF icw[c] = 2 THEN [base EXCEPT ![c] = value] ELSE base
  /\ mask' = IF icw[c] = 0 THEN [mask EXCEPT ![c] = Bits(value)] ELSE mask
  /\ UNCHANGED <<requested, inservice>>

Waiting(c, asking) ==
  {i \in asking \ mask[c] : \A j \in inservice[c] : i < j}

Slave  == Waiting(2, requested[2])
Master == Waiting(1, requested[1] \cup IF Slave = {} THEN {} ELSE {IRQ_CASCADE})

\* The processor looks at this before every instruction.
Due == interrupt_flag /\ Master # {}

\* A device asks on its line; asked twice is asked once.
Device ==
  /\ \E line \in Lines :
        requested' = [requested EXCEPT ![1 + line \div 8] = @ \cup {line % 8}]
  /\ UNCHANGED <<at, index, processor, tables, icw, base, mask, inservice>>

----------------------------------------------------------------------------
(* kernel_setup, up to the jump into the shell. *)

\* The function f is over, or one more of its steps is done.
Then(f, next) == at = f /\ ~ Due /\ handling = NoVector /\ at' = next /\ index' = 0
Again(f) == at = f /\ ~ Due /\ handling = NoVector /\ at' = f /\ index' = index + 1

\* cli; the flat segments are constants.
LoadGdt ==
  /\ Then("load_gdt", "pic_remap")
  /\ interrupt_flag' = FALSE
  /\ UNCHANGED <<handling, handled, tables, chips>>

\* The words of pic_remap, in the order they are sent.
RemapWords ==
  << <<1, ICW1>>, <<2, ICW1>>, <<1, PIC1_OFFSET>>, <<2, PIC2_OFFSET>>,
     <<1, 4>>, <<2, 2>>, <<1, ICW4_8086>>, <<2, ICW4_8086>>,
     <<1, PIC_DISABLE_ALL_MASK>>, <<2, PIC_DISABLE_ALL_MASK>> >>

\* Mutant of PicRemap: masks nothing.
PicRemapUnmasked ==
  /\ \/ index < 7 /\ Again("pic_remap")
     \/ index = 7 /\ Then("pic_remap", "initialize_idt")
  /\ LET word == RemapWords[index + 1]
     IN  IF index < 2 THEN OutCommand(word[1], word[2])
                      ELSE OutData(word[1], word[2])
  /\ UNCHANGED <<processor, tables>>

PicRemap ==
  /\ \/ index < 9 /\ Again("pic_remap")
     \/ index = 9 /\ Then("pic_remap", "initialize_idt")
  /\ LET word == RemapWords[index + 1]
     IN  IF index < 2 THEN OutCommand(word[1], word[2])
                      ELSE OutData(word[1], word[2])
  /\ UNCHANGED <<processor, tables>>

SetInterruptGate(vector, privilege) ==
  /\ present' = present \cup {vector}
  /\ open' = IF privilege = 3 THEN open \cup {vector} ELSE open \ {vector}

\* Mutant of InitializeIdt: fills the entries of the exceptions only.
InitializeIdtShort ==
  /\ \/ /\ index < 32
        /\ Again("initialize_idt")
        /\ SetInterruptGate(index, 0)
        /\ UNCHANGED <<idtr, interrupt_flag>>
     \/ /\ index = 32
        /\ Then("initialize_idt", "activate_keyboard_interrupt")
        /\ SetInterruptGate(SYSCALL, 3)
        /\ idtr' = TRUE /\ interrupt_flag' = TRUE
  /\ UNCHANGED <<tss, handling, handled, chips>>

\* The gate of the system calls comes last; then lidt and sti.
InitializeIdt ==
  /\ \/ /\ index < ISR_STUB_TABLE_LIMIT
        /\ Again("initialize_idt")
        /\ SetInterruptGate(index, 0)
        /\ UNCHANGED <<idtr, interrupt_flag>>
     \/ /\ index = ISR_STUB_TABLE_LIMIT
        /\ Then("initialize_idt", "activate_keyboard_interrupt")
        /\ SetInterruptGate(SYSCALL, 3)
        /\ idtr' = TRUE /\ interrupt_flag' = TRUE
  /\ UNCHANGED <<tss, handling, handled, chips>>

ActivateKeyboardInterrupt ==
  /\ Then("activate_keyboard_interrupt", "gdt_install_tss")
  /\ \E value \in 0 .. 255 :
        /\ Bits(value) = mask[1] \ {IRQ_KEYBOARD}
        /\ OutData(1, value)
  /\ UNCHANGED <<processor, tables>>

\* After the screen and the file system, which let interrupts in.
GdtInstallTss ==
  /\ Then("gdt_install_tss", "set_tss_register")
  /\ tss' = tss \cup {"base"}
  /\ UNCHANGED <<processor, present, open, idtr, chips>>

\* The processor takes the address as it stands in the table.
SetTssRegister ==
  /\ Then("set_tss_register", "set_tss_kernel_current_stack")
  /\ tss' = IF "base" \in tss THEN tss \cup {"register"} ELSE tss
  /\ UNCHANGED <<processor, present, open, idtr, chips>>

\* After paging, the read of the shell and the write of ikanaide.
SetTssKernelCurrentStack ==
  /\ Then("set_tss_kernel_current_stack", "kernel_execute_user_program")
  /\ tss' = tss \cup {"esp0"}
  /\ UNCHANGED <<processor, present, open, idtr, chips>>

KernelExecuteUserProgram ==
  /\ Then("kernel_execute_user_program", "user")
  /\ UNCHANGED <<processor, tables, chips>>

----------------------------------------------------------------------------
(* Interrupts. *)

KernelStack == {"register", "esp0"} \subseteq tss

\* An interrupt gate clears the flag, a trap gate does not.
Enter(vector) ==
  IF idtr /\ vector \in present /\ (at = "user" => KernelStack)
  THEN /\ handling' = vector /\ handled' = FALSE
       /\ interrupt_flag' = (interrupt_flag /\ INTERRUPT_GATE_R_BIT_2 % 2 = 1)
       /\ UNCHANGED at
  ELSE at' = "reset" /\ UNCHANGED processor

\* The line of each controller that the processor is told of.
Chosen ==
  LET first == First(Master)
  IN  [c \in Chip |-> IF c = 1 THEN first
                      ELSE IF IRQ_CASCADE \in first THEN First(Slave) ELSE {}]

Vector ==
  IF Chosen[2] = {} THEN {base[1] + i : i \in Chosen[1]}
                    ELSE {base[2] + i : i \in Chosen[2]}

Interrupt ==
  /\ Due
  /\ \E v \in Vector : Enter(v)
  /\ requested' = [c \in Chip |-> requested[c] \ Chosen[c]]
  /\ inservice' = [c \in Chip |-> inservice[c] \cup Chosen[c]]
  /\ UNCHANGED <<index, tables, icw, base, mask>>

\* int 0x30, where the shell may raise it.
SystemCall ==
  /\ at = "user" /\ ~ Due /\ handling = NoVector
  /\ IF SYSCALL \in open THEN Enter(SYSCALL)
     ELSE at' = "reset" /\ UNCHANGED processor
  /\ UNCHANGED <<index, tables, chips>>

\* Mutant of MainInterruptHandler: does not acknowledge.
MainInterruptHandlerSilent ==
  /\ handling # NoVector /\ ~ handled /\ ~ Due
  /\ handled' = TRUE
  /\ UNCHANGED <<at, index, interrupt_flag, handling, tables, chips>>

\* keyboard_isr ends with pic_ack(IRQ_KEYBOARD); other vectors have no case.
MainInterruptHandler ==
  /\ handling # NoVector /\ ~ handled /\ ~ Due
  /\ handled' = TRUE
  /\ IF handling = PIC1_OFFSET + IRQ_KEYBOARD
     THEN OutCommand(1, PIC_ACK) ELSE UNCHANGED chips
  /\ UNCHANGED <<at, index, interrupt_flag, handling, tables>>

\* sti and iret: the flag takes effect behind the iret.
ReturnFromInterrupt ==
  /\ handling # NoVector /\ handled /\ ~ Due
  /\ handling' = NoVector /\ handled' = FALSE
  /\ interrupt_flag' = TRUE
  /\ UNCHANGED <<at, index, tables, chips>>

----------------------------------------------------------------------------

\* The boot loader hands over with interrupts off and its own controllers'
\* settings: the first one at the vectors of the exceptions.
Init ==
  /\ at = "load_gdt" /\ index = 0
  /\ interrupt_flag = FALSE
  /\ present = {} /\ open = {} /\ idtr = FALSE /\ tss = {}
  /\ handling = NoVector /\ handled = FALSE
  /\ icw = [c \in Chip |-> 0]
  /\ base = [c \in Chip |-> IF c = 1 THEN 8 ELSE 112]
  /\ mask = [c \in Chip |-> {}]
  /\ requested = [c \in Chip |-> {}]
  /\ inservice = [c \in Chip |-> {}]

KernelSetup ==
  \/ LoadGdt \/ PicRemap \/ InitializeIdt \/ ActivateKeyboardInterrupt
  \/ GdtInstallTss \/ SetTssRegister \/ SetTssKernelCurrentStack
  \/ KernelExecuteUserProgram

Processor == Interrupt \/ MainInterruptHandler \/ ReturnFromInterrupt

Next == KernelSetup \/ Processor \/ SystemCall \/ Device

\* The processor goes on; no device and no program has to ask for anything.
Spec == Init /\ [][Next]_vars /\ WF_vars(KernelSetup) /\ WF_vars(Processor)

=============================================================================
