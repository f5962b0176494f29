--------------------------- MODULE StartupSafety ---------------------------
(***************************************************************************)
(* What the order of kernel_setup is for.                                  *)
(***************************************************************************)
EXTENDS Startup

(***************************************************************************)
(* No interrupt ever finds the machine unprepared: whatever the devices do *)
(* while the kernel starts, each vector that is raised has a gate in a     *)
(* table the processor knows, and a stack when it comes from the shell     *)
(* (kernel.c:102-140).                                                     *)
(***************************************************************************)
NeverResets == at # "reset"

(***************************************************************************)
(* Only the keyboard and system calls reach main_interrupt_handler: no     *)
(* timer tick is taken for an exception before the controllers are moved,  *)
(* and no line that nobody acknowledges gets through after                 *)
(* (interrupt.c:17-46, :148-157).                                          *)
(***************************************************************************)
OnlyHandledVectors ==
  handling \in {NoVector, PIC1_OFFSET + IRQ_KEYBOARD, SYSCALL}

(***************************************************************************)
(* A stub runs to its iret before another starts: the file system, the     *)
(* screen and the keyboard handler never interrupt each other once the     *)
(* shell runs (idt.h:61, intsetup.s:36-54).                                *)
(***************************************************************************)
StubsDoNotNest ==
  [][handling # NoVector /\ handling' # handling =>
       handled /\ handling' = NoVector]_vars

(***************************************************************************)
(* From activate_keyboard_interrupt on, a keyboard that asks is heard,     *)
(* also while system calls follow upon each other: every interrupt is      *)
(* acknowledged at the controller that holds it back.                      *)
(***************************************************************************)
KeyboardHeard ==
  (/\ at \notin {"load_gdt", "pic_remap", "initialize_idt",
                 "activate_keyboard_interrupt"}
   /\ IRQ_KEYBOARD \in requested[1])
  ~> (handling = PIC1_OFFSET + IRQ_KEYBOARD)

----------------------------------------------------------------------------
(* The inductive invariant behind the first three. *)

\* What of kernel_setup runs before interrupts are on.
Early == {"load_gdt", "pic_remap", "initialize_idt"}

Programs == {"activate_keyboard_interrupt", "gdt_install_tss",
             "set_tss_register", "set_tss_kernel_current_stack",
             "kernel_execute_user_program", "user"} \cup Early

RegisterTypes ==
  /\ icw \in [Chip -> 0 .. 4]
  /\ base \in [Chip -> Int]
  /\ mask \in [Chip -> SUBSET (0 .. 7)]
  /\ requested \in [Chip -> SUBSET (0 .. 7)]

\* How far the words of pic_remap have brought the master.
Remapping ==
  at = "pic_remap" =>
    /\ index \in 0 .. 9
    /\ index \in 1 .. 2 => icw[1] = 2
    /\ index \in 3 .. 4 => icw[1] = 3
    /\ index \in 5 .. 6 => icw[1] = 4
    /\ 7 =< index => icw[1] = 0
    /\ 3 =< index => base[1] = PIC1_OFFSET
    /\ index = 9 => mask[1] = 0 .. 7

\* Afterwards the master lets nothing but the keyboard through, so that what
\* the slave asks never counts.
KeyboardOnly ==
  at \notin {"load_gdt", "pic_remap"} =>
    /\ icw[1] = 0 /\ base[1] = PIC1_OFFSET
    /\ (0 .. 7) \ {IRQ_KEYBOARD} \subseteq mask[1]

Gates ==
  /\ at = "initialize_idt" =>
       /\ index \in 0 .. ISR_STUB_TABLE_LIMIT
       /\ \A v \in 0 .. ISR_STUB_TABLE_LIMIT - 1 : v < index => v \in present
  /\ at \notin Early =>
       /\ idtr /\ SYSCALL \in open
       /\ 0 .. ISR_STUB_TABLE_LIMIT - 1 \subseteq present

Stack ==
  /\ at = "set_tss_register" => "base" \in tss
  /\ at \in {"set_tss_kernel_current_stack", "kernel_execute_user_program",
             "user"} => "register" \in tss
  /\ at \in {"kernel_execute_user_program", "user"} => "esp0" \in tss

\* A stub runs with interrupts off, and so does all that is early.
FlagOff ==
  /\ at \in Early => ~ interrupt_flag /\ handling = NoVector
  /\ handling # NoVector => ~ interrupt_flag

StartupInv ==
  /\ at \in Programs
  /\ RegisterTypes /\ Remapping /\ KeyboardOnly /\ Gates /\ Stack /\ FlagOff
  /\ OnlyHandledVectors

=============================================================================
