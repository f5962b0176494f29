------------------------------- MODULE Paging -------------------------------
(***************************************************************************)
(* The frame allocator and the page directory of src/src/paging.c, with    *)
(* the processor that walks the directory whenever it likes.               *)
(*                                                                         *)
(* An entry of the directory is written field by field, and the processor  *)
(* may keep what it has read of an entry until it is told to flush it: the *)
(* steps of update_page_directory_entry are actions of their own, and      *)
(* Translate may come between any two.  An address stands for its page.    *)
(***************************************************************************)
EXTENDS Integers, FiniteSets

CONSTANTS
  PAGE_FRAME_MAX_COUNT, \* frames of physical memory
  PAGE_ENTRY_COUNT,     \* entries of the page directory
  PAGE_FRAME_SIZE,      \* bytes in a frame
  KernelPage            \* the entry of KERNEL_VIRTUAL_BASE, 0x300 in the code

ASSUME PagingAssumption ==
  /\ PAGE_FRAME_MAX_COUNT \in Nat \ {0}
  /\ PAGE_ENTRY_COUNT \in Nat \ {0}
  /\ PAGE_FRAME_SIZE \in Nat \ {0}
  /\ KernelPage \in 1 .. PAGE_ENTRY_COUNT - 1

Frame == 0 .. PAGE_FRAME_MAX_COUNT - 1
Page  == 0 .. PAGE_ENTRY_COUNT - 1

\* The fields of an entry that some path sets or tests; write_bit and
\* page_size_bit go with present_bit.
Entry == [present : BOOLEAN, user : BOOLEAN,
          lower_address : Frame, higher_address : Frame]

Blank == [present |-> FALSE, user |-> FALSE,
          lower_address |-> 0, higher_address |-> 0]
KernelEntry == [Blank EXCEPT !.present = TRUE]

\* What the processor takes from an entry.  The bits it reads the frame from,
\* 22 to 31, are those of higher_address: lower_address lies at bits 8 to 17.
Translation == [user : BOOLEAN, frame : Frame]
Walked(e)   == [user |-> e.user, frame |-> e.higher_address]
NotCached   == [user |-> FALSE, frame |-> PAGE_FRAME_MAX_COUNT]

NoReply == [op |-> "none"]
Replies == {NoReply} \cup [op : {"check", "allocate", "free"}, ok : BOOLEAN]

VARIABLES
  page_frame_map,        \* TRUE for a frame that is taken
  free_page_frame_count,
  directory,             \* _paging_kernel_page_directory
  tlb,                   \* what the processor keeps of each entry
  pc,                    \* the next store or instruction, or "idle"
  page, frame,           \* virtual_addr and i of the call in progress
  reply,                 \* the last call and its answer
  promised               \* history: frames that a check said there are

manager == <<page_frame_map, free_page_frame_count>>
call    == <<page, frame>>
vars    == <<manager, directory, tlb, pc, call, reply, promised>>

FreeFrames == {f \in Frame : ~ page_frame_map[f]}

\* Mutant of Init: frame 0, the kernel's, is left free.
InitAllFree ==
  /\ page_frame_map = [f \in Frame |-> FALSE]
  /\ free_page_frame_count = PAGE_FRAME_MAX_COUNT
  /\ directory = [p \in Page |->
                    IF p \in {0, KernelPage} THEN KernelEntry ELSE Blank]
  /\ tlb = [p \in Page |-> NotCached]
  /\ pc = "boot" /\ page = 0 /\ frame = 0
  /\ reply = NoReply /\ promised = 0

\* The page directory that the loader turns on maps frame 0 twice.
Init ==
  /\ page_frame_map = [f \in Frame |-> f = 0]
  /\ free_page_frame_count = PAGE_FRAME_MAX_COUNT - 1
  /\ directory = [p \in Page |->
                    IF p \in {0, KernelPage} THEN KernelEntry ELSE Blank]
  /\ tlb = [p \in Page |-> NotCached]
  /\ pc = "boot"
  /\ page = 0 /\ frame = 0
  /\ reply = NoReply
  /\ promised = 0

----------------------------------------------------------------------------
\* The processor.

Translate(p) ==
  /\ directory[p].present /\ tlb[p] = NotCached
  /\ tlb' = [tlb EXCEPT ![p] = Walked(directory[p])]
  /\ UNCHANGED <<manager, directory, pc, call, reply, promised>>

Evict(p) ==
  /\ tlb[p] # NotCached
  /\ tlb' = [tlb EXCEPT ![p] = NotCached]
  /\ UNCHANGED <<manager, directory, pc, call, reply, promised>>

----------------------------------------------------------------------------
\* The loader, once it runs in the higher half: the identity mapping goes.

DeleteIdentity ==
  /\ pc = "boot"
  /\ directory' = [directory EXCEPT ![0] = Blank]
  /\ pc' = "flush"
  /\ UNCHANGED <<manager, tlb, call, reply, promised>>

----------------------------------------------------------------------------
\* The calls of paging.h.

FramesFor(amount) == (amount + PAGE_FRAME_SIZE - 1) \div PAGE_FRAME_SIZE

\* Mutant of AllocateCheck: rounds the memory up to a frame.
AllocateCheckRounded(amount) ==
  LET ok == (free_page_frame_count + 1) * PAGE_FRAME_SIZE > amount IN
  /\ pc = "idle"
  /\ reply' = [op |-> "check", ok |-> ok]
  /\ promised' = IF ok THEN FramesFor(amount) ELSE 0
  /\ UNCHANGED <<manager, directory, tlb, pc, call>>

AllocateCheck(amount) ==
  LET ok == free_page_frame_count * PAGE_FRAME_SIZE >= amount IN
  /\ pc = "idle"
  /\ reply' = [op |-> "check", ok |-> ok]
  /\ promised' = IF ok THEN FramesFor(amount) ELSE 0
  /\ UNCHANGED <<manager, directory, tlb, pc, call>>

FirstFree(f) == f \in FreeFrames /\ \A g \in FreeFrames : f <= g

Allocate(p) ==
  /\ pc = "idle"
  /\ \E f \in Frame :
       /\ FirstFree(f)
       /\ page_frame_map' = [page_frame_map EXCEPT ![f] = TRUE]
       /\ frame' = f
  /\ free_page_frame_count' = free_page_frame_count - 1
  /\ page' = p
  /\ promised' = IF promised > 0 THEN promised - 1 ELSE 0
  /\ reply' = [op |-> "allocate", ok |-> TRUE]
  /\ pc' = "set_flag"
  /\ UNCHANGED <<directory, tlb>>

\* Mutant of AllocateFails: counts a frame before it has found one.
AllocateFailsCounted ==
  /\ pc = "idle" /\ FreeFrames = {}
  /\ free_page_frame_count' = free_page_frame_count - 1
  /\ reply' = [op |-> "allocate", ok |-> FALSE]
  /\ UNCHANGED <<page_frame_map, directory, tlb, pc, call, promised>>

AllocateFails ==
  /\ pc = "idle" /\ FreeFrames = {}
  /\ reply' = [op |-> "allocate", ok |-> FALSE]
  /\ UNCHANGED <<manager, directory, tlb, pc, call, promised>>

\* update_page_directory_entry, store by store.
SetFlag ==
  /\ pc = "set_flag"
  /\ directory' = [directory EXCEPT ![page].present = TRUE,
                                    ![page].user = TRUE]
  /\ pc' = "set_address"
  /\ UNCHANGED <<manager, tlb, call, reply, promised>>

\* Mutant of SetAddress: takes the page number for the frame's.
SetAddressOfPage ==
  /\ pc = "set_address"
  /\ directory' = [directory EXCEPT ![page].lower_address =
                                         page % PAGE_FRAME_MAX_COUNT]
  /\ pc' = "flush"
  /\ UNCHANGED <<manager, tlb, call, reply, promised>>

SetAddress ==
  /\ pc = "set_address"
  /\ directory' = [directory EXCEPT ![page].lower_address = frame]
  /\ pc' = "flush"
  /\ UNCHANGED <<manager, tlb, call, reply, promised>>

\* Mutant of FlushSingleTlb: invalidates nothing.
FlushNothing ==
  /\ pc = "flush"
  /\ pc' = "idle"
  /\ UNCHANGED <<manager, directory, tlb, call, reply, promised>>

FlushSingleTlb ==
  /\ pc = "flush"
  /\ tlb' = [tlb EXCEPT ![page] = NotCached]
  /\ pc' = "idle"
  /\ UNCHANGED <<manager, directory, call, reply, promised>>

\* Mutant of CanFree: does not ask whether the page is mapped.
CanFreeUnmapped(p) == page_frame_map[directory[p].lower_address]

CanFree(p) ==
  directory[p].present /\ page_frame_map[directory[p].lower_address]

\* Mutant of Free: does not count the frame.
FreeUncounted(p) ==
  /\ pc = "idle" /\ CanFree(p)
  /\ page_frame_map' =
       [page_frame_map EXCEPT ![directory[p].lower_address] = FALSE]
  /\ page' = p /\ frame' = directory[p].lower_address
  /\ reply' = [op |-> "free", ok |-> TRUE]
  /\ pc' = "clear"
  /\ UNCHANGED <<free_page_frame_count, directory, tlb, promised>>

Free(p) ==
  /\ pc = "idle" /\ CanFree(p)
  /\ page_frame_map' =
       [page_frame_map EXCEPT ![directory[p].lower_address] = FALSE]
  /\ free_page_frame_count' = free_page_frame_count + 1
  /\ page' = p /\ frame' = directory[p].lower_address
  /\ reply' = [op |-> "free", ok |-> TRUE]
  /\ pc' = "clear"
  /\ UNCHANGED <<directory, tlb, promised>>

ClearEntry ==
  /\ pc = "clear"
  /\ directory' = [directory EXCEPT ![page] = Blank]
  /\ pc' = "flush"
  /\ UNCHANGED <<manager, tlb, call, reply, promised>>

FreeFails(p) ==
  /\ pc = "idle" /\ ~ CanFree(p)
  /\ reply' = [op |-> "free", ok |-> FALSE]
  /\ UNCHANGED <<manager, directory, tlb, pc, call, promised>>

----------------------------------------------------------------------------

\* Assumptions about the caller, which paging.c does not check: it maps a page
\* that is not mapped, and frees the page of a user only.  kernel_setup, the
\* one caller, allocates page 0 and frees nothing.
UserPage(p) == p # KernelPage
Unmapped(p) == UserPage(p) /\ ~ directory[p].present

\* Amounts up to one byte more than there is memory.
Amounts == 0 .. PAGE_FRAME_MAX_COUNT * PAGE_FRAME_SIZE + 1

Next ==
  \/ DeleteIdentity \/ FlushSingleTlb
  \/ SetFlag \/ SetAddress \/ ClearEntry
  \/ \E amount \in Amounts : AllocateCheck(amount)
  \/ AllocateFails
  \/ \E p \in Page :
       \/ Translate(p) \/ Evict(p)
       \/ Unmapped(p) /\ Allocate(p)
       \/ UserPage(p) /\ Free(p)
       \/ UserPage(p) /\ FreeFails(p)

Spec == Init /\ [][Next]_vars

=============================================================================
