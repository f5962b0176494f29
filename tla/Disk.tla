-------------------------------- MODULE Disk --------------------------------
(***************************************************************************)
(* read_blocks and write_blocks (src/src/disk.c), port access by port      *)
(* access, and the drive at the other end of the ports, which works at its *)
(* own pace: it is busy, or asks for data, or neither.                     *)
(*                                                                         *)
(* The functions run with interrupts off, one at a time.  A loop that      *)
(* waits for the drive is a guard.  A power loss may come between any two  *)
(* accesses, but never cuts a block in two.                                *)
(***************************************************************************)
EXTENDS Integers, Sequences

CONSTANTS
  BLOCK_COUNT,      \* blocks of the drive
  HALF_BLOCK_SIZE,  \* words in a block (256)
  BYTE,             \* values of a register (256)
  NIBBLE,           \* values of the part of one that ends an address (16)
  Word,
  Junk,             \* what is in memory and on the disk at first
  Requests          \* calls that the file system makes

Block  == 0 .. BLOCK_COUNT - 1
Offset == 0 .. HALF_BLOCK_SIZE - 1
Datum  == [Offset -> Word \cup {Junk}]

ASSUME DiskAssumption ==
  /\ HALF_BLOCK_SIZE \in Nat \ {0}
  /\ BYTE \in Nat \ {0, 1} /\ NIBBLE \in Nat \ {0, 1}
  /\ BLOCK_COUNT \in 1 .. BYTE * BYTE * BYTE * NIBBLE
  /\ Junk \notin Word
  /\ \A r \in Requests :
       /\ r.op \in {"read", "write"}
       /\ r.lba \in Block /\ r.count \in 1 .. BYTE - 1
       /\ r.lba + r.count <= BLOCK_COUNT
       /\ r.op = "write" => r.ptr \in [1 .. r.count * HALF_BLOCK_SIZE -> Word]

VARIABLES
  medium,      \* the blocks, as a power loss would find them
  busy, drq,   \* the status register: ATA_STATUS_BSY and ATA_STATUS_DRQ
  command,     \* what the drive is doing: "none", "read" or "write"
  lba, left,   \* of the command: the next block, the blocks to go
  buffer, at,  \* the drive's one block, and how many words of it are done
  register,    \* ports 0x1F2 to 0x1F6
  pc,          \* the next access of the processor, or "idle"
  request,     \* the arguments of the call in progress, or NoRequest
  memory,      \* what read_blocks has put behind its ptr
  i, j         \* the loops: blocks transferred, words of the next one

drive == <<medium, busy, drq, command, lba, left, buffer, at>>
host  == <<pc, request, memory, i, j>>
vars  == <<drive, register, host>>

NoRequest == [op |-> "none"]
Junked(n) == [k \in 1 .. n |-> Junk]

\* The address without its n lowest bytes.
Shifted(n) ==
  CASE n = 0 -> request.lba
    [] n = 1 -> request.lba \div BYTE
    [] n = 2 -> (request.lba \div BYTE) \div BYTE
    [] n = 3 -> ((request.lba \div BYTE) \div BYTE) \div BYTE

\* What is written to each port, and which access comes next.
Value ==
  [device |-> Shifted(3) % NIBBLE,
   count  |-> request.count % BYTE,
   low    |-> Shifted(0) % BYTE,
   mid    |-> Shifted(1) % BYTE,
   high   |-> Shifted(2) % BYTE]
After ==
  [device |-> "count", count |-> "low", low |-> "mid", mid |-> "high",
   high |-> "command"]
Port == DOMAIN After

Init ==
  /\ medium = [b \in Block |-> [o \in Offset |-> Junk]]
  /\ busy = TRUE /\ drq = FALSE /\ command = "none"
  /\ lba = 0 /\ left = 0 /\ buffer = [o \in Offset |-> Junk] /\ at = 0
  /\ register = [p \in Port |-> 0]
  /\ pc = "idle" /\ request = NoRequest /\ memory = << >>
  /\ i = 0 /\ j = 0

----------------------------------------------------------------------------
\* The drive.

SpinUp ==
  /\ busy /\ command = "none"
  /\ busy' = FALSE
  /\ UNCHANGED <<medium, drq, command, lba, left, buffer, at, register, host>>

Fetch ==
  /\ busy /\ command = "read"
  /\ buffer' = medium[lba]
  /\ busy' = FALSE /\ drq' = TRUE /\ at' = 0
  /\ UNCHANGED <<medium, command, lba, left, register, host>>

AskForData ==
  /\ busy /\ command = "write" /\ at = 0
  /\ busy' = FALSE /\ drq' = TRUE
  /\ UNCHANGED <<medium, command, lba, left, buffer, at, register, host>>

Commit ==
  /\ busy /\ command = "write" /\ at = HALF_BLOCK_SIZE
  /\ medium' = [medium EXCEPT ![lba] = buffer]
  /\ lba' = lba + 1 /\ left' = left - 1 /\ at' = 0
  /\ busy' = (left > 1)
  /\ command' = IF left > 1 THEN "write" ELSE "none"
  /\ UNCHANGED <<drq, buffer, register, host>>

Drive == SpinUp \/ Fetch \/ AskForData \/ Commit

----------------------------------------------------------------------------
\* read_blocks and write_blocks.

Call(r) ==
  /\ pc = "idle"
  /\ request' = r
  /\ memory' = IF r.op = "read" THEN Junked(r.count * HALF_BLOCK_SIZE) ELSE << >>
  /\ i' = 0 /\ j' = 0
  /\ pc' = "first_wait"
  /\ UNCHANGED <<drive, register>>

\* Mutant of BusyWait: does not wait.
BusyWaitNot ==
  /\ pc = "first_wait"
  /\ pc' = "device"
  /\ UNCHANGED <<drive, register, request, memory, i, j>>

\* ATA_busy_wait, before anything else.
BusyWait ==
  /\ pc = "first_wait" /\ ~ busy
  /\ pc' = "device"
  /\ UNCHANGED <<drive, register, request, memory, i, j>>

\* A busy drive does not listen.
OutRegister ==
  /\ pc \in Port
  /\ register' = IF busy THEN register
                 ELSE [register EXCEPT ![pc] = Value[pc]]
  /\ pc' = After[pc]
  /\ UNCHANGED <<drive, request, memory, i, j>>

OutCommand ==
  /\ pc = "command"
  /\ pc' = "block_busy"
  /\ IF busy \/ command # "none" THEN UNCHANGED drive
     ELSE /\ busy' = TRUE /\ command' = request.op /\ at' = 0
          /\ lba' = register["low"] + BYTE * (register["mid"]
                      + BYTE * (register["high"] + BYTE * register["device"]))
          /\ left' = register["count"]
          /\ UNCHANGED <<medium, drq, buffer>>
  /\ UNCHANGED <<register, request, memory, i, j>>

BlockBusyWait ==
  /\ pc = "block_busy" /\ ~ busy
  /\ pc' = "block_ready"
  /\ UNCHANGED <<drive, register, request, memory, i, j>>

\* ATA_DRQ_wait, which tests the ready bit: set whenever the drive is not busy.
ATA_DRQ_wait ==
  /\ pc = "block_ready" /\ ~ busy
  /\ pc' = "word" /\ j' = 0
  /\ UNCHANGED <<drive, register, request, memory, i>>

\* Mutant of NextWord: the loop ends one word late.
NextWordLate ==
  IF j < HALF_BLOCK_SIZE
    THEN j' = j + 1 /\ UNCHANGED <<i, pc, request>>
    ELSE /\ j' = 0 /\ i' = i + 1
         /\ IF i + 1 < request.count
              THEN pc' = "block_busy" /\ UNCHANGED request
              ELSE pc' = "idle" /\ request' = NoRequest

\* Mutant of NextWord: waits for the first block only.
NextWordUnwaited ==
  IF j + 1 < HALF_BLOCK_SIZE
    THEN j' = j + 1 /\ UNCHANGED <<i, pc, request>>
    ELSE /\ j' = 0 /\ i' = i + 1
         /\ IF i + 1 < request.count
              THEN UNCHANGED <<pc, request>>
              ELSE pc' = "idle" /\ request' = NoRequest

\* Mutant of NextWord: does not count the blocks.
NextWordUncounted ==
  IF j + 1 < HALF_BLOCK_SIZE
    THEN j' = j + 1 /\ UNCHANGED <<i, pc, request>>
    ELSE /\ j' = 0 /\ UNCHANGED i
         /\ IF i + 1 < request.count
              THEN pc' = "block_busy" /\ UNCHANGED request
              ELSE pc' = "idle" /\ request' = NoRequest

\* After a word: the next word, the next block, or the return.
NextWord ==
  IF j + 1 < HALF_BLOCK_SIZE
    THEN j' = j + 1 /\ UNCHANGED <<i, pc, request>>
    ELSE /\ j' = 0 /\ i' = i + 1
         /\ IF i + 1 < request.count
              THEN pc' = "block_busy" /\ UNCHANGED request
              ELSE pc' = "idle" /\ request' = NoRequest

\* The drive has sent or got a word; with the last of a block it is busy with
\* the next one, or has sent the last of all.
Transferred ==
  /\ at' = at + 1
  /\ drq' = (at + 1 < HALF_BLOCK_SIZE)
  /\ UNCHANGED medium

\* Mutant of InWord: every block goes to the start of the memory.
InWordAtStart ==
  /\ pc = "word" /\ request.op = "read"
  /\ memory' = [memory EXCEPT ![j + 1] = IF drq THEN buffer[at] ELSE Junk]
  /\ IF ~ drq THEN UNCHANGED drive
     ELSE /\ Transferred
          /\ lba' = IF drq' THEN lba ELSE lba + 1
          /\ left' = IF drq' THEN left ELSE left - 1
          /\ busy' = (~ drq' /\ left > 1)
          /\ command' = IF drq' \/ left > 1 THEN command ELSE "none"
          /\ UNCHANGED buffer
  /\ NextWord
  /\ UNCHANGED register

InWord ==
  /\ pc = "word" /\ request.op = "read"
  /\ memory' = [memory EXCEPT ![i * HALF_BLOCK_SIZE + j + 1] =
                                 IF drq THEN buffer[at] ELSE Junk]
  /\ IF ~ drq THEN UNCHANGED drive
     ELSE /\ Transferred
          /\ lba' = IF drq' THEN lba ELSE lba + 1
          /\ left' = IF drq' THEN left ELSE left - 1
          /\ busy' = (~ drq' /\ left > 1)
          /\ command' = IF drq' \/ left > 1 THEN command ELSE "none"
          /\ UNCHANGED buffer
  /\ NextWord
  /\ UNCHANGED register

OutWord ==
  /\ pc = "word" /\ request.op = "write"
  /\ IF ~ drq THEN UNCHANGED drive
     ELSE /\ Transferred
          /\ buffer' = [buffer EXCEPT ![at] =
                          request.ptr[i * HALF_BLOCK_SIZE + j + 1]]
          /\ busy' = ~ drq'
          /\ UNCHANGED <<lba, left, command>>
  /\ NextWord
  /\ UNCHANGED <<register, memory>>

Processor ==
  \/ BusyWait \/ OutRegister \/ OutCommand \/ BlockBusyWait \/ ATA_DRQ_wait
  \/ InWord \/ OutWord

PowerLoss ==
  /\ busy' = TRUE /\ drq' = FALSE /\ command' = "none" /\ at' = 0
  /\ register' = [p \in Port |-> 0]
  /\ pc' = "idle" /\ request' = NoRequest /\ memory' = << >>
  /\ i' = 0 /\ j' = 0
  /\ UNCHANGED <<medium, lba, left, buffer>>

----------------------------------------------------------------------------

Next == Drive \/ Processor \/ PowerLoss \/ \E r \in Requests : Call(r)

Spec == Init /\ [][Next]_vars

\* The drive works, and the processor runs: interrupts are off in a call.
FairSpec == Spec /\ WF_vars(Drive) /\ WF_vars(Processor)

=============================================================================
