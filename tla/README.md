# A verification of the os-2024-istiqomah kernel

The repository is a small 32-bit kernel for one machine: it mounts a FAT32-like
disk, loads one user program (the shell) from it, and serves that program's
system calls. This directory holds TLA+ models of its parts, the TLC runs that
check them on small instances, and proofs, checked by TLAPS, of what matters
most for every size of disk and every set of names.

## The system

| Part | Source | State | Operations |
|---|---|---|---|
| File system driver | `src/src/fat32.c`, `header/filesystem/fat32.h` | the disk; `fat32_driverstate.fat_table`, a copy of cluster 1 | `initialize_filesystem_fat32`, `create_fat32`, `read`, `read_directory`, `write`, `delete` |
| Disk driver | `src/src/disk.c` | the drive's registers and its buffer | `read_blocks`, `write_blocks`, polled |
| System calls | `src/src/interrupt.c` | none of its own | `syscall` 0-4 and 6-8, `main_interrupt_handler` |
| Keyboard driver | `src/src/keyboard.c` | one character, on/off, `key_pressed`, `backspace_pressed`, row and column | `keyboard_isr`, `get_keyboard_buffer`, activate, deactivate |
| Screen | `src/src/framebuffer.c`, `puts` in `interrupt.c` | the frame buffer, the hardware cursor, `cursor_row`, `cursor_col` | `puts`, `framebuffer_write`, `framebuffer_set_cursor` |
| Paging | `src/src/paging.c`, `header/memory/paging.h` | the page directory, `page_frame_map`, `free_page_frame_count` | allocate, free, check, update |
| Shell | `src/src/user-shell.c` | the line typed, `currentDirCluster`, `currentDir` with the stack of parents | the loop of `main`; `cd`, `ls`, `mkdir`, `cat`, `cp`, `rm`, `mv`, `find` |
| Inserter | `src/src/external-inserter.c` | a disk image in memory | one `write`, on the development machine |
| Kernel start | `src/src/kernel.c`, `kernel-entrypoint.s` | page 0 | `kernel_setup`, `kernel_execute_user_program` |
| Interrupts | `src/src/interrupt.c`, `idt.c`, `gdt.c`, `header/cpu/intsetup.s` | the two controllers, the gates, the task state segment, the flag | `pic_remap`, `initialize_idt`, `pic_ack`, the stubs |
| Helpers | `portio.c`, `stdlib/string.c` | none | single instructions and byte loops |

How they interact. The shell is the only program. It enters the kernel through
`int 0x30`, whose gate turns interrupts off, so that every system call runs to
its return without being interrupted: two operations of the file system never
overlap, and the keyboard handler runs only between two system calls, while the
shell is in user mode, or during `kernel_setup`, which runs after `sti`. The
driver keeps the allocation table in memory and writes the whole of it to the
disk for each change; directory tables are read from the disk for every
request. `puts` and the keyboard handler share the row and the column of the
keyboard driver, but `puts` has a cursor of its own.

What is hard. A machine without power-off protection may stop between any two
disk writes of an operation, and inside a write of several blocks; then the
order of the writes decides what the next mount finds. The table is cached, so
a forgotten save shows only after a restart. Clusters are recycled, so that a
mistake in a delete shows in a later write of another file. Counts go through a
`float` and a `uint8_t`. Names are compared without asking whether an entry is
in use. The keyboard handler and the shell share one character and one line. The
shell remembers folders by cluster number in a stack of its own, and `mv` is
three system calls of which each may fail. The kernel starts with interrupts on
for most of `kernel_setup`, and jumps to what it has read without asking whether
the read succeeded.

What makes each part correct. File system: the disk stays a tree, whatever was
interrupted; every file keeps the bytes it was given; every answer is true; the
two copies of the table agree; every loop ends. Keyboard and screen: what the
user typed is what the shell's line holds and what the screen shows; nothing
is written outside the frame buffer. Paging: a frame is in one page, and the
count of free frames is the number of free frames. Shell: the current folder
exists, the stack of parents is the path to it, and no command but `rm` makes a
file disappear. Start: every interrupt finds a gate and a stack, stubs do not
nest, and what the kernel jumps to is the shell.

## The modules

There are six families, each a model, a module of properties and a module of
proofs: `Fat32` (the file system), `Disk` (the driver below it), `Paging` (frames
and pages), `Terminal` (keyboard, screen and the shell's loop), `Shell` (the
programs above the file system, from the inserter to the commands) and `Startup`
(interrupts while the kernel starts and after). `Shell` composes `Kernel` with
`Fat32`, whose actions are its calls; `Disk` is joined to `Fat32` by the abstract
store of blocks that the one implements and the other assumes.

### The file system

`Fat32` models the driver. An operation is split at its disk accesses: one
action up to and including each `write_clusters`, so that the machine can lose
power between any two. `pc` names the next disk access; the locals of the C
functions are variables (`dir_table`, `slot`, `slot_buf`, `todo`, `cur`), and a
return or a power loss clears them. A cluster is seen twice: `table[c]` is what
it means as a directory table, `bytes[c]` as a piece of a file, and every write
sets both views, so that a directory overwritten by data, or the reverse, is
not hidden. The boot sector is the flag `signed`: a write of cluster 0 clears
it. A name stands for the eleven bytes of name and extension; `ZeroName` is what a blank
entry holds, and `RootName` what `create_fat32` calls the root.

| Code | Actions |
|---|---|
| `create_fat32` | `BootFormat`, `FormatFat`, `FormatName`, `FormatRoot` |
| `initialize_filesystem_fat32`, mounted disk | `BootLoad` |
| `write`, folder | `WriteFolder`, `MkdirFat`, `WriteParent` |
| `write`, file | `WriteFile`, then `WriteFat` and `WriteData` once per cluster, `WriteParent` |
| `delete` | `DeleteEntry`, `DeleteWalk` once per cluster, `DeleteFat` |
| `read` | `ReadBegin`, `ReadCluster` once per cluster, `ReadDone` |
| `read_directory` | `ReadDirectory` |
| early returns | `WriteReject`, `DeleteReject`, `ReadReject`, the branches of `ReadDirectory` |
| power loss | `PowerLoss`; `TornFat` inside the last save of `delete` |

The cells of the table abstract the two reserved values: 0x0FFFFFFF is the
number after the last cluster and 0x0FFFFFF0 the one after that, so that
neither is a cluster and both index outside `cluster_map`, as in the code. A
walk that indexes outside goes to the phase `wild`, where nothing is known any
more. A save of the table that adds one cell is one step, because the cell lies
in one disk block; the save at the end of `delete` changes many cells and is
the one that `TornFat` cuts.

The client. `CarefulRequest` is a kernel client that hands the driver only what
it can handle: a parent it found by walking from the root (or any cluster that
the driver's own test of the parent turns down), a name that is not empty, a
size whose count of clusters fits the `uint8_t`, and no `delete` of a folder by
its own entry 0. The four assumptions are not checks of the code, whose system calls
hand any request on: `Shell` shows which
of its users keep them. `Fat32Unvetted` takes away the one on the name, as the
shell's `rm` without an argument does, and has the power loss during the format
that `Fat32!Crash` leaves out; its two runs expect a violation.

`Fat32Safety` states the types and the safety properties. `ChainAt(p)`, the clusters of an entry, is the least set that holds
the entry's cluster and is closed under the cells; stated so, it is defined for
a damaged table too, and needs no recursion.

`FileStore` is the abstract specification: a store with the operations of
`fat32.h` (lines 212-248), folders known by a handle, operations that
take effect at one instant, and a power loss that loses answers only. A failure
code may be given only when what it means is the case, but what it means is taken
from `fat32.c` and not from the header, which lists others for two operations: `read`
answers 2 for a name or a parent it does not find and -1 for a buffer that is too
small (`fat32.c:214`, `:236-237`, `:253`), where `fat32.h:229` says "2 not enough buffer - 3 not
found - -1 unknown"; and `delete` answers 2 for an invalid parent too (`fat32.c:358`),
where `fat32.h:246` says "2 folder is not empty". So the refinement shows that
answers are consistent with the tree and not that they are the documented ones. `Fat32Store` gives the
refinement mapping: the tree is read from the directory tables and the chains
on the disk, and `ImplementsFileStore` is the abstract specification under it.
The step that writes the parent's table is the one that takes effect; the
steps before it, and the clearing of a chain after it, are stuttering steps.
An answer of `delete` comes later than its effect, which is why the store
remembers what it is removing.

`Fat32Inductive` strengthens the safety properties to an inductive invariant in
three layers; `Fat32SafetyProofs`, `Fat32FilesProofs` and `Fat32StoreProofs`, each
on top of the one before, hold the proofs, and `MCFat32` the small sets of the runs.

### The disk

`Disk` models `read_blocks` and `write_blocks`, one step to each access to a port,
and the drive, which is external: its status register, its buffer of one
block, and the medium, as a power loss would find them. The drive works at its own
pace, so it may be slow between any two accesses.

| Code | Actions |
|---|---|
| the call, up to `ATA_busy_wait` | `Call`, `BusyWait` |
| the five registers: device, count, and three bytes of the address | `OutRegister` |
| the command | `OutCommand` |
| `ATA_busy_wait` and `ATA_DRQ_wait` of each block | `BlockBusyWait`, `ATA_DRQ_wait` |
| one word of the inner loop, with the loops around it | `InWord`, `OutWord`, `NextWord` |
| the drive (external) | `SpinUp`, `Fetch`, `AskForData`, `Commit` |
| power loss | `PowerLoss` |

`BlockStore` is the abstract specification, the store that `disk.c` makes of the
drive: blocks are written in order, each as a whole, and a read sees every write
before it; a write may return with its last block still to be written. The header
promises more ("Will blocking until write is completed", `disk.h:40`), which is
`WriteIsCompleted` and fails (`write_returns`). Under the mapping of `DiskStore` the blocks still to be written are
the one in the drive's buffer, when it is complete, and those of the call that
are not wholly sent. A `write_blocks` returns when the drive has its last block
in the buffer and not yet on the medium, so a power loss just after the return
may cost that block; the next call waits for it. In `Fat32` a write that has
returned is on the disk. The difference is in the answers only: losing the last
block after the return leaves the disk that a power loss just before that write
leaves, because what the write changes lies in one block, or is linked from
nowhere yet, or is the save that `TornFat` cuts; but a success that the shell has
already been told may be undone for as long as the drive is busy.

### Paging

`Paging` models the allocator, the page directory and the processor that walks
it. Paging is on while `paging.c` changes the directory, so the processor may
read an entry between any two stores, and may keep what it read (`tlb`) until
the entry is invalidated; that is why each store of
`update_page_directory_entry` and of `paging_free_user_page_frame` is a step.

| Code | Actions |
|---|---|
| the loader's directory and the end of the identity mapping, `kernel-entrypoint.s` | `Init`, `DeleteIdentity`, `FlushSingleTlb` |
| `paging_allocate_check` | `AllocateCheck` |
| `paging_allocate_user_page_frame` | `Allocate`, `SetFlag`, `SetAddress`, `FlushSingleTlb`; `AllocateFails` |
| `paging_free_user_page_frame` | `Free`, `ClearEntry`, `FlushSingleTlb`; `FreeFails` |
| the processor (external) | `Translate`, `Evict` |

The client is the kernel, whose only call is the allocation of page 0 in
`kernel_setup`: `Unmapped` and `UserPage` say that it allocates a page that is
not mapped and does not free the kernel's own page. The functions check
neither, and what they would do then (lose the frame that the old entry named, give
frame 0 away) is outside the model, so that `FramesOwned` says nothing of it. `PagingSafety` holds the properties and the inductive invariant, with
a call in progress, and `PagingProofs` the proofs.

### The terminal

`Screen` is the frame buffer and `puts`, with the cursor that `puts` keeps for
itself; `Keyboard` the controller, which raises an interrupt for a byte that
enters its output buffer and no other until that byte is read, and the branches
of `keyboard_isr`; `Terminal` puts the typist, the kernel's last steps and the
shell's loop around them. A system call is one step, because interrupts are off
in it, and the handler may come between any two.

| Code | Actions |
|---|---|
| `keyboard_isr`, off | `IsrOff` |
| its branches | `IsrBackspace`, `IsrEnter`, `IsrCharacter`, `IsrAfterBackspace`, `IsrRelease`, `IsrEnterRelease`, `IsrPrefix`; `IsrPassOver` for codes no branch is for |
| `kernel_setup` after `sti` | `SetUp`, `StartShell` |
| `syscall` 4, 6, 7 as `main` calls them | `PollNothing`, `PollCharacter`, `PollEnter`; `WriteOut`; `KeyboardStateActivate` |
| the end of `parseCommand` | `EndOfCommand` |
| controller and typist (external) | `Announce`, `Press`, `Repeat`, `Release` |

A scan code is a record of what it does (make, break or the prefix 0xE0), its
key and the number of its press, which no guard of the driver reads and the
properties use. Keys are grouped by what the handler does with them: letters,
Enter, Backspace, keys it takes for a character 0, keys it passes over, and
those of the last two groups that send a prefix. What a command prints is any
of `Answers`, each of which begins with a newline. `wrapped`, `taken` and `latest` are history, too.

The typist presses, holds and releases any keys at any
time, from the start of the kernel on. Two history variables remember what the typist
has done. `early` says that a key came before the keyboard was on, which is when the
two properties about listening promise nothing. `hasty` says that some press was not
one that `WaitedFor` describes: a letter or Enter, alone, once the shell waits
for it, on a line no longer than its row. That is an
assumption about people, without which the driver, which keeps one character,
promises nothing about the line: `ScreenShowsLine` and `PressesArrive` are about a
typist who has not been hasty.

### The shell and the kernel below it

`Kernel` has the two programs that use the file system before the shell:
the inserter and `kernel_setup`. `Shell` has the commands of the shell. A step of
a program makes one call of `Fat32` (`CallRead`, `CallWrite`, `CallDelete`) up to
its first disk access, `DriverStep` runs the driver on, and the next step of the
program waits for `pc = "idle"`. `step` is the place in the program. So a power
loss, a refusal or a full disk may come between any two accesses of any command.

| Code | Actions |
|---|---|
| inserter: mounting, `write` of the shell, of a file that cannot be opened, the end | `InsertBegin`, `InsertShell`, `InsertMissing`, `InsertExit` |
| `kernel_setup`: mounting, `read` of the shell, `write` of `ikanaide`, the jump | `PowerOn`, `LoadShell`, `WriteGreeting`, `Jump` |
| power loss | `Fail`, `SwitchOff` |
| `main` up to the first prompt | `Start` |
| `cetak_prompt` | `Prompt`, part of every action that ends a command |
| `cd`, `cd ..` | `Cd`, `CdUp` |
| `mkdir`, `rm`, `cat` | `Mkdir`, `Rm`, `Cat`, then `Return` |
| `cp` | `Cp`, `CpWrite`, `Return` |
| `mv` with `cdNoPrint` and `rmNoPrint` | `Mv`, `MvWrite`, then `MvRemove` and `Return`, or `MvGiveUp` |

What the code leaves undefined is a choice: the size of a copy, which is the
length of what an uninitialised pointer points to; the buffer of a read that
failed (`Junk`); three bytes of the `retcode` of `mv`, so that its switch may give
up after a successful write; the folder below the bottom of the stack (`Top`).
Only sizes that fit the `uint8_t` of the driver's count are chosen, as the shell's
buffer is ten clusters long.

Two users. `TidyUser` does not type the names of the two dot entries of the
folder it is in, does not remove or move the shell's file, and starts the machine only when
the shell is on the disk (`Installed`; the kernel would start without it, and that
nothing takes it away is `MvKeepsAName`). `RoamingUser` types any name, with three exceptions
that are named above its definition. The properties of `ShellSafety` are about
`TidySpec`; `MovedIsThere` is about `RoamingSpec`, where it fails. `ShellInductive`
has the inductive invariant and `ShellProofs` the proofs.

`CarefulClient` is the refinement that closes the chain: under the identity
mapping the whole machine implements `Fat32!Spec`, so that whatever is checked or
proved of the driver for its careful client holds of the driver under this
inserter, this kernel and this shell.

### The start

`Startup` has `kernel_setup` as the interrupts see it: the ten words of `pic_remap`,
the sixty-five gates of `initialize_idt`, and the steps that give the processor a
kernel stack, in the order of the code. What else `kernel_setup` does there (the
screen, the file system, paging) lets interrupts in and is between two steps.

| Code | Actions |
|---|---|
| `load_gdt` with `cli` | `LoadGdt` |
| `pic_remap`, word by word | `PicRemap` |
| `initialize_idt`, gate by gate, with `lidt` and `sti` | `InitializeIdt` |
| `activate_keyboard_interrupt` | `ActivateKeyboardInterrupt` |
| `gdt_install_tss`, `set_tss_register`, `set_tss_kernel_current_stack` | actions of those names |
| `kernel_execute_user_program` | `KernelExecuteUserProgram` |
| `int 0x30` in the shell | `SystemCall` |
| `main_interrupt_handler` with `pic_ack`, the end of a stub | `MainInterruptHandler`, `ReturnFromInterrupt` |
| controllers, processor, devices (external) | `OutCommand`, `OutData`, `Waiting`, `Enter`, `Interrupt`, `Device` |

The two 8259 controllers are modelled by the registers the code programs: the place in
the initialization sequence, the base vector, the mask, what is requested and
what is in service; the slave asks through line 2 of the master. They come up as
the boot loader leaves them, unmasked, with the master at the vectors of the
exceptions. A vector without a gate, or an interrupt from the shell without a
stack, resets the machine.

## The runs

| Run | Shows |
|---|---|
| `safety` | the twelve invariants of `Fat32Safety` (types, the form of the table, agreement of its two copies, allocation, no shared cluster, no leak, linked folders, dot entries, unique names, sizes, the reader's buffer, no walk outside the table), and that the driver implements `FileStore`, whose failure codes are those of the code |
| `blocks` | the disk driver implements `BlockStore`, in which a write may return before its last block is on the disk, touches the data port only when the drive asks, and returns from every call |
| `paging` | types, the exact count, frames in one page each, frames taken exactly when mapped, a coherent translation cache, kept promises |
| `typing` | any keys from the start of the kernel on: no press taken twice or out of order; once the keyboard is on, a waiting scan code always has its interrupt and every scan code is read; and as long as every key is one the shell waited for, the screen shows the shell's line where the shell goes on, and every character arrives |
| `shell` | the whole machine under `TidyUser`: the stack never underflows and is the path to the current folder, the prompt shows that path, every start runs the shell, no name is lost by `mv` or a power loss, the driver is asked only for what it can handle, and every command and every start comes back to the prompt |
| `startup` | interrupts at any time: none finds the machine unprepared, only the keyboard and system calls are handled, one stub at a time, and a keyboard that asks is heard |
| `rm_nothing`, `torn_format`, `processor_frame`, `early_key`, `write_returns`, `mv_up` | the code contradicts its comments: see the findings below |

The strengthened invariants of the proofs (`IInv`, `FilesInv`, `ContentsInv`, `AnswerInv`,
`PagingInv`, `OrderInv`, `ListeningInv`, `LineInv`, `ProtocolInv`, `TransferInv`, `StartupInv`, `StackInv`,
`ShellInv`) are not listed in the
runs: the proofs establish them for every value of the constants.

Bounds of the file system. Six clusters, of which three are reserved, four slots to a
directory of which two are the dot entries, three names and two contents: enough for a
folder in a folder, two files beside each other, a file of three clusters, a
chain that goes around another file's, a full directory and a full disk. `Sizes`
holds zero (a folder), a whole cluster, and one unit more than one or two of them.
One power loss, which may come at any access of any operation; what the disk
holds afterwards is met by every later operation. `COUNT_RANGE` is 256, as in
the code. A block of the table holds four cells, so that the reserved
cells and a data cell are in the first and the rest in the second; a tail of the
table shorter than a block is never on the disk in `TornFat`, which only
restricts which part of a save may be lost.

Bounds of the shell. Nine clusters and six slots: the shell's file of two clusters,
the kernel's `ikanaide`, and room for two folders or a folder and two files beside
them, after which a write is refused. The user types `a` and `copy` (in `mv_up` the name
of the root as well), so that `cp` meets its own copy and `mv` a destination that has
the name of the file. `MaxDepth` is two folders on the stack, so that a folder
in a folder is entered and left. Two power losses: one may end an
insertion or the first start, the other a command, and the exit of the inserter counts as one. `Sizes` are a folder, one
cluster and two, `BufferSize` one cluster, so that a file may also be too large for `cat`.

Bounds of the start. Devices on lines 0 (the timer), 1 (the keyboard), 7 and 14
(the drive, behind the cascade), and 8: the first and the last of each
priority that matters. Everything else is finite as it is.

Bounds of the disk. Twenty-nine blocks of two words, registers of three values
and two for the last, so that the addresses need all four registers, the last
one of the drive included; a read and a write of two blocks at the same place,
a write of one that overlaps them, and one at the far end. Calls and power
losses are not counted: the state space is finite without it.

Bounds of the others. Three frames of two bytes and four pages: one page more
than frames, so that allocation fails, and two user pages beside the kernel's
and the one that the loader unmaps. A screen of eight rows by four
columns, so that a line wraps at its end and the last row is reached; `MaxPresses`, five
presses, repeats included, of which three when one of them was hasty (`MaxHasty`): enough
for a key held beside another, a prefix before both codes of an arrow, a backspace
between two letters, and a line longer than one character. The
`uint8_t` of rows and columns keeps its 256 values, which matters where the
column is negative.

Names `a` and `b` and the two contents are interchangeable in `safety`, which
uses the symmetry; it checks no liveness. Its `VIEW` leaves out the last answer,
and what a finished read returned, and that of `shell` does so at the prompt: no guard and no property of
the next step reads them there, and TLC evaluates the properties on every step it
generates, before it looks the view up.

Fairness. `FairTidySpec` assumes weak fairness of `System`: the steps of a program that
has been set off and of the driver below it. Interrupts are off during a system
call and nothing else runs, so the processor carries a command to its end
whatever the user does. Nothing is assumed of the user, of power-ons or of power losses.
`Startup!Spec` assumes weak fairness of `KernelSetup` and, apart from it, of
`Processor`: the processor takes an interrupt that is due and runs a stub to its
end. No device and no program has to ask for anything; the shell may raise
system calls without end, and the keyboard is heard all the same.

The specification of the terminal with liveness assumes weak fairness of the
shell, of the handler and of the controller: interrupts are on whenever the
shell is in user mode, and the shell's loop never waits. Nobody has to type.
That of the disk assumes it of the drive, which ends what it has begun, and of
the processor, which nothing interrupts in a call.

Deadlock is checked in every run: an idle driver can always turn down a request,
the shell can always poll or take a command, a device can always ask.

## What the checks found

* `rm` without an argument (`user-shell.c:148-168`) sends eleven zero bytes as
  the name, which matches the first entry that is not in use; `delete` then
  "removes" it, clears cluster 0, which is the boot sector, and frees its cell.
  The next power-on formats the disk. (`rm_nothing`)
* A power loss between the signature and the table leaves a disk that mounts
  without a root, and on which nothing can be created. (`torn_format`)
* `lower_address` lies at bits 8 to 17 of a directory entry, and the processor
  reads the frame from bits 22 to 31: a page allocated with frame n maps frame
  0, the kernel's. (`processor_frame`)
* A key pressed while the keyboard is off leaves its byte in the controller,
  which then raises no interrupt ever again. (`early_key`)
* `write_blocks` waits for the drive before each block and never after the last one,
  so it returns while that block is in the drive's buffer only (`disk.c:40-43`), although
  `disk.h:40` says that it blocks until the write is completed. (`write_returns`)
* `mv` goes back with `cd ..` before it removes the original, which does nothing
  in the root: a file moved to the root is removed from the root, where the copy
  has just been made, and stays where it was. (`mv_up`)

Seen while modelling, without a run of their own.

In the driver: a file of 256 clusters or more gets a chain of the low eight bits
of that count, and its entry the whole size (`fat32.c:288`); `rm d` typed inside `d` matches
entry 0, whose cluster is the folder itself, and frees it while its parent
still links it (`fat32.c:368`), which leaves the shell in a folder that is gone; entry 0 of the root names cluster 0
(`fat32.c:51-86`, called at `:137`), so that `cd root` in the root goes to the boot
sector; `read` and `delete` answer other codes than
their headers list (`fat32.h:229` and `:246`, see `FileStore` above).

On the screen: when `puts` goes back to the top, the row of the keyboard driver
stays below the last one, and the next key is echoed past the screen
(`interrupt.c:92`).

In the shell: `cd d` typed inside `d` pushes `d` upon itself (`user-shell.c:343-348`), after which
`cd ..` reports the parent directory and stays; `cp` and `mv` write as many bytes as
the length of what an uninitialised pointer points to (`:252`, `:466`), whatever the read before
answered; a name of eight characters has no end in `dir_buff` and prints on into
the next row (`:88`); a line and the stack of folders have no bound (`:61`, `:343`).

At the start: a file the inserter cannot open becomes a folder of that name
(`external-inserter.c:55`); after `rm shell` the next start jumps to whatever page 0
holds (`kernel.c:124-140`); an exception, a page fault of the shell for example,
has a gate but no case in the handler, which returns to the instruction that
faults again (`interrupt.c:148-157`).

## The proofs

`Fat32SafetyProofs!TypeCorrect` proves the type invariant, and `Safety`
`Spec => []IInv`, and from it the invariants `FatFormed`,
`CacheCoherent`, `ChainsAllocated`, `NoCrossLinks`, `DirectoriesLinked`,
`DotEntriesSound` and `WalksStayInTable`, for any number of clusters above
three, of slots above two, any sizes, names and contents, any block size and any
number of power losses. The assumptions are the four named ones of `Fat32`; they say no more
than that the constants are what the C definitions make them.

Why the strengthening is needed. None of the properties is inductive: that two
chains are disjoint says nothing of the clusters a write has picked but not
yet linked, or of those a delete has already unlinked. `WriteInv` says that the
picked clusters are in no entry's chain, and that each is either still free or
linked to another of them or to the end; `FolderInv` says that the new folder's
table is right before its parent names it; `DeleteInv` that the clusters of a
deleted chain form a closed set in no entry's chain, empty in memory up to the
place the walk has reached; `ReadInv` that a walk is in an entry's chain.
`UnusedBlank` (an entry that is not in use is all zero) makes name-only matching
safe for a named request, and `RootTable` with `DotEntriesSound` shows that a
`delete` never gets at a dot entry: the parent of a folder holds that folder.

The argument of each step. `ChainFrame` says that a chain depends only on its
own cells, and `DiskFrame` that a step which leaves the folders' tables and the
cells of every chain alone keeps everything that is true of the disk;
`WriteOutside` brings the writes of data, of new folders and of cleared clusters
under it, `SetCell` the cells of a new chain and `SavedTable` the save at the
end of `delete`, whole or cut short. Only `WriteParent` and `DeleteEntry` change the
tree, and have proofs of their own.

`Fat32FilesProofs` puts two layers on `IInv`, for the same constants. `FilesInv` is
about names, sizes and free clusters: the names of a folder are all different
(`NamesApart`), a chain has as many clusters as the size asks for, and while power
was never lost an allocated cluster is in an entry's chain or is one that the
operation under way has taken or is about to give back. Its middle is `slot_buf`,
the clusters a write has picked: each is linked to the next one upwards, so that
they are one chain (`PickedChain`), and the place of each in it is its `Rank`
(`RankFacts`), which is the part of the file that it gets. `ContentsInv` says that every file is filled,
cluster by cluster and in order, with the contents of one write, and that what a
read has returned is the whole of such a file. From the two follow `UniqueNames`,
`SizeMatchesChain`, `NoLeaks` and `ReadFitsBuffer`. `LeastOf` replaces induction
over numbers, which this prover cannot instantiate, by the well-founded order of
finite sets.

`Fat32StoreProofs!DriverIsFileStore` proves `Spec => ImplementsFileStore` under the
mapping of `Fat32Store`. It rests on the three layers together with `AnswerInv`:
while an operation is under way there is no answer, so that its middle steps show
nothing. First, what the store's words mean of the disk: `HasFileIs` and `LinksIs`
say which slot an entry of the tree is, `TitledIs` that the title of a folder is the name
in its entry 0, and `MatchMeans` and `NoMatchFree` that the comparison of names in
the code, which looks at all slots, the dot entries included, finds exactly what
the store calls taken. Then the steps. `TreeUnmoved` says that the tree, which is
read along the chains, is the same when entries, chains and the bytes of files
are; by `TreeMoves` that covers all steps but two, and makes them stutters
(`BootIsNone`, `MiddleIsNone`), the start of a request (`AcceptedBegins`), a refusal,
whose code is then shown to be the truth (`WriteRefused`, `DeleteRefused`,
`ReadRefused`, `ReadDirectoryIsList`), an answer (`ReadDoneIsRead`,
`DeleteFatIsRemoved`) or a power loss (`CrashIsPowerLoss`, `TornFat` included).
`DeleteEntry` is `RemoveFile` or `RemoveFolder` (`LessOneEntry`), `WriteParent` is
`Create` or `MakeFolder` (`MoreOneEntry`). That a file's chunks come in the order of
its bytes is `InOrderAt`: place i in a chain is the cluster of rank i, which exists
by `RankOnto`, again without induction.

`PagingProofs` proves `Spec => []PagingInv`, for any number of frames, pages and
bytes in a frame, and from it `CountExact`, `FramesOwned`, `TlbCoherent` and
`PromiseKept`. The properties speak of the time between two calls; `PagingInv`
extends them to the middle of one: the entry that a call is about to change
counts as naming nothing, the frame that it has taken counts as owned, and
every other entry is coherent. `CountExact` needs that the frame of a free is
taken, which is `CanFree`, and `PromiseKept` follows from it.

`TerminalProofs!OrderSafe` proves `Spec => []OnceInOrder` for any screen, keys and
number of presses. The strengthening, `OrderInv`, is about what is still on its
way: the make codes in the controller are in the order of the presses, later
than the character in the buffer, which is later than the one last taken. The
branches of the handler fall under one lemma, `TakeOrder`, and the typist's
steps under another, `SendOrder`. `TerminalProofs!NeverDeaf` proves
`Spec => []NoDeafKeyboard`, from the invariant that unless a key came early, a
keyboard which is off has nothing waiting. `TerminalTypeOK` proves the types.

`TerminalProofs!LineShown` proves `Spec => []ScreenShowsLine`, for every screen,
prompt and set of answers. Its induction goes on for as long as nobody is hasty, and
`HasteStays` says that nobody becomes patient again. `LineInv` says of the one key that is typed how far its codes
have come (`OneKeyInv`) and, until `puts` first comes back to the top, how the pens of
`puts` and of the driver lie (`PensInv`): together while the shell prints, or with the
newline still to print that brings them together; a line apart while it waits, less the
letter of a key that is still down, with the characters echoed so far in between
(`EchoInv`). The lemmas follow the key: `PressLine`, `HeldLine`, `FreshLine` for its make
code, `ReleaseLine` for its break code, then `WriteOutLine` and `ShellLine`. Beside the
named assumptions on keys and screen it needs `AnswerAssumption`, that the first character
a command prints is a newline, as in every branch of `parseCommand`
(`user-shell.c:538-590`): Enter moves the driver's row and column and not those of `puts`.
What `puts` does to a string is a function of the number of characters written, in
`Screen`; that this function exists for every string (`PensExist`), and that a set of pens
which every character stays in holds the last pen (`DrawnIn`), are proved by the least
number for which it fails. `PutCharTogether` has the case distinction of the code: a
newline, a full row, the last row.

`DiskProofs!StaysInStep` proves `Spec => [](ProtocolInv /\ DataWhenAsked)` for every
size of drive, block and register and every set of calls that lie on the drive.
`DataWhenAsked` speaks of the data port only; `ProtocolInv` says at each access
what the drive may be doing, and that the registers written so far hold the
call's address, which `AddressParts` then puts together again. `Behind` is the
case that makes the inner `ATA_busy_wait` necessary: the drive may still be
writing the block before.

`DiskProofs!DiskIsBlockStore` proves `Spec => ImplementsBlockStore` under the mapping of
`DiskStore`. `ProtocolInv` says where the drive and the driver are in the same
block; `TransferInv` adds what has passed between them: the buffer of the drive
holds the words of the block that a write has sent so far, or the whole block of
the medium that a read fetches from, and memory holds the words that a read has
got. A drive that commits a complete block is `Persist`; `Call`, which takes the request up before any port is touched, is the
abstract `Read` or `Write`; the last word of a call is
`WriteReturns` or `ReadReturns`; `PowerLoss` is itself; every other
access to a port is a stutter. The last word of a block moves it from
what the call has yet to send to the drive's buffer, so that the
blocks still to be written are the same (`RestNext`: `Rest` from a block on is that block and
the `Rest` from the next), and `InWordStored` shows that the words which a
read returns are the blocks of the medium it named.

`StartupProofs!StartupSafe` proves `Spec => []StartupInv`, for any set of lines on
which devices ask, and from it `NeverResets`, `OnlyHandledVectors` and
`StubsDoNotNest`. None of these is inductive: that a vector has a gate depends
on the base the controllers were given, so `Remapping` says how far the words of
`pic_remap` have come, `KeyboardOnly` that afterwards the master lets only the
keyboard through (what the slave asks for then never counts), `Gates` how many
entries are filled, `Stack` which part of the task state segment is ready, and
`FlagOff` that a stub runs with interrupts off. The lemmas `AllMasked`,
`OnlyKeyboardAsks` and `EntryIsPrepared` carry the argument of the interrupt itself.

`ShellProofs!StackHoldsRoot` proves `NoUnderflow` for `TidySpec` and for
`RoamingSpec`, for every disk and every set of names: `StackInv` adds that the
stack is a sequence, and `PushKeepsRoot` and `BackKeepsRoot` are its two ways to change.

`ShellProofs!TidySafety` proves `TidySpec => []TidyInv`, the three invariants of the
driver together with `ShellInv` of `ShellInductive`, for every disk, set of names and
number of power losses, any depth and any contents. It is one induction and not two,
because the driver's invariants need that requests are careful and the shell's
that the driver keeps its promises: `SystemIsCareful` and `TidyUserIsCareful` show
from `TidyInv` that the next step is one of `Fat32!Next`, `DriverInvariants` carries
the driver's part over, and the lemmas `...Shell` the shell's. In `ShellInv`, `Way` says
that the folders of the stack are on the disk, each the parent of the next and
with the name that the prompt kept of it; it stays true of a delete because
the folder above another one is not empty, and the last one is
not removed by its own name (`FoldersKept`). `MoveInv` says that `mv` stands one step
below where it came from, and that once its write found the name free, that is not the
name of the old folder, whose child holds it as its parent's. `ShellFileInv` says
that a file of the root with the shell's name is the shell, whatever else was
written, and `StartInv` that a machine that was powered on has one. From
`TidyInv` follow `ShellTypeOK`, `ParentsArePath`, `PromptShowsPath`,
`KernelRunsShell`, and, with the steps, `CarefulClient` and `MvKeepsAName`; for the
last, `NoFolderAboveItself` shows that the destination is not the folder that was
left. With `CarefulClient` every theorem about `Fat32!Spec` is one about the whole
machine; `MachineIsFileStore` states it of `FileStore`.

Beside the named assumptions of `Fat32` these proofs use those of `Kernel` and `Shell`:
the names, data and sizes of the programs are among those of the driver, and
`RoomAssumption`, that the buffer the kernel reads the shell into (0x100000 bytes,
512 clusters, `kernel.c:122`) has room for it. The inserter cannot store more
than 255 clusters, so the code justifies it.

Every invariant, action property and refinement of a passing run is proved. The liveness
properties are beyond this prover (as is ENABLED) and are model-checked only.

## The plan

All the modules that were planned are there: `Fat32`, `Disk`, `Paging`, `Terminal`,
`Kernel` with `Shell`, and `Startup`, each with its properties, runs and proofs.

Each of the three refinements that a run checks and that need no liveness is also proved:
`FileStore` by the file system, `BlockStore` by the disk, and `Fat32!Spec` by the whole
machine. `FileStore` speaks of the driver under its careful client; with
`CarefulClient` it holds of the driver inside the machine of `Shell` too
(`MachineIsFileStore`).

## What is not modelled

The flat segments of `gdt.c` are constants, and the saving of registers in the stubs
is left out; the string helpers and the port wrappers have no state. Exceptions
and spurious interrupts are not raised by the processor of `Startup`. Errors of the drive
are left out, as the driver never looks at them, and so is a host that fails while
the inserter writes the image back. Names of more than eight bytes, and a
`read_directory` through system call 1 with a cluster number in place of the address of a
request (which finds no such folder), have no action.

Hazards without a property: what Backspace does to the shell's line
(`keyboard.c:82`) and what `key_pressed` means with two keys down (`keyboard.c:97`),
where no comment says what is intended; the length of the line
(`user-shell.c:61`), which `ScreenShowsLine` bounds by a row; the two pens after `puts` has
come back to the top (`keyboard.c:86`, `interrupt.c:92`), of which `ScreenShowsLine`
says nothing; and a drive that gives up (`disk.c:24`), which the driver has no way to
report. Three more are covered in part: 256 clusters and more (`fat32.c:288`), the contents
of what `mv` writes after a read that failed (`user-shell.c:469`), and a second mapping of a
page (`paging.c:39`).

Bit widths other than the `uint8_t` of the
cluster count do not matter to the file system: 512 clusters fit every field.
Colours on the screen are left out. The `undelete`, time and date fields are never read. Padding of names shorter
than eight bytes is part of what a name stands for. The bytes of the shell's
program and the contents of files are opaque values.
