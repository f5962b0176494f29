------------------------------- MODULE Kernel -------------------------------
(***************************************************************************)
(* The programs that put the file system to use before the shell runs: the *)
(* inserter (src/src/external-inserter.c), which stores the shell on the   *)
(* disk image, and the start of the kernel (src/src/kernel.c), which reads *)
(* it into page 0, writes a file of its own and jumps to what it has read. *)
(*                                                                         *)
(* Each is a client of the driver of Fat32: a step makes one call, and the *)
(* next step waits for the call to return (pc = "idle") and may look at    *)
(* its result.                                                             *)
(***************************************************************************)
EXTENDS Fat32

CONSTANTS
  ShellName,     \* "shell"
  Greeting,      \* "ikanaide", the file every start of the kernel writes
  ShellData,     \* the program of the shell
  GreetingData,  \* "HALLO TEMAN TEMANNNNN"
  ShellSize,     \* size of the program
  GreetingSize,  \* 21
  KernelBuffer,  \* 0x100000, what the kernel lets read put in page 0
  OtherFiles     \* names of missing files the inserter may be given

ASSUME KernelAssumption ==
  /\ {ShellName, Greeting} \subseteq Name
  /\ {ShellData, GreetingData} \subseteq Data
  /\ {ShellSize, GreetingSize, KernelBuffer} \subseteq Sizes \ {0}
  /\ Fits(ShellSize) /\ Fits(GreetingSize)
  /\ OtherFiles \subseteq Name

\* The kernel's buffer is as large as the disk.
ASSUME RoomAssumption == KernelBuffer \div CLUSTER_SIZE >= CeilClusters(ShellSize)

VARIABLES
  step,   \* what the program under way does when its call has returned
  loaded  \* what page 0 holds

kernel == <<step, loaded>>

\* The program as it comes out of read, cluster by cluster.
Program ==
  [i \in 1 .. CeilClusters(ShellSize) |-> [data |-> ShellData, part |-> i]]

Inserting == {"insert", "insert_exit"}

----------------------------------------------------------------------------
(* The calls. *)

CallRead(parent, name, size) ==
  ReadReject(parent, name, size) \/ ReadBegin(parent, name, size)

CallWrite(parent, name, size, data) ==
  \/ WriteReject(parent, name, size)
  \/ size = 0 /\ WriteFolder(parent, name)
  \/ WriteFile(parent, name, size, data)

CallDelete(parent, name) == DeleteReject(parent, name) \/ DeleteEntry(parent, name)

\* The driver runs on while the program waits.
DriverStep ==
  /\ FormatFat \/ FormatName \/ FormatRoot \/ Driver
  /\ UNCHANGED kernel

Mount == BootFormat \/ BootLoad

----------------------------------------------------------------------------
(* The inserter.  It works on a copy of the image in its own memory and    *)
(* writes all of it back at the end; its host is taken not to fail.        *)

InsertBegin ==
  /\ step = "off" /\ crashes < MaxCrashes
  /\ Mount
  /\ step' = "insert"
  /\ UNCHANGED loaded

InsertShell ==
  /\ step = "insert" /\ pc = "idle"
  /\ CallWrite(ROOT_CLUSTER_NUMBER, ShellName, ShellSize, ShellData)
  /\ step' = "insert_exit"
  /\ UNCHANGED loaded

\* A file that cannot be opened has size 0.
InsertMissing ==
  /\ step = "insert" /\ pc = "idle"
  /\ \E name \in OtherFiles :
        CallWrite(ROOT_CLUSTER_NUMBER, name, 0, NoData)
  /\ step' = "insert_exit"
  /\ UNCHANGED loaded

\* The driver's memory goes with the process.
InsertExit ==
  /\ step = "insert_exit" /\ pc = "idle"
  /\ PowerLoss
  /\ step' = "off"
  /\ UNCHANGED loaded

----------------------------------------------------------------------------
(* kernel_setup.  The results of the two calls are not looked at.          *)

PowerOn ==
  /\ step = "off"
  /\ Mount
  /\ step' = "load"
  /\ UNCHANGED loaded

LoadShell ==
  /\ step = "load" /\ pc = "idle"
  /\ CallRead(ROOT_CLUSTER_NUMBER, ShellName, KernelBuffer)
  /\ step' = "greet"
  /\ UNCHANGED loaded

\* A read that fails leaves page 0 as the page frame came.
WriteGreeting ==
  /\ step = "greet" /\ pc = "idle"
  /\ loaded' = IF reply.code = 0 THEN out ELSE << >>
  /\ CallWrite(ROOT_CLUSTER_NUMBER, Greeting, GreetingSize, GreetingData)
  /\ step' = "jump"

\* kernel_execute_user_program: the jump is made whatever is there.
Jump ==
  /\ step = "jump" /\ pc = "idle"
  /\ step' = IF loaded = Program THEN "prompt" ELSE "garbage"
  /\ UNCHANGED <<vars, loaded>>

Fail ==
  /\ step \notin Inserting
  /\ Crash \/ TornFat
  /\ step' = "off"
  /\ loaded' = << >>

=============================================================================
