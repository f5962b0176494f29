----------------------------- MODULE DiskStore ------------------------------
(***************************************************************************)
(* What the disk driver must keep true, and the block store it implements. *)
(***************************************************************************)
EXTENDS Disk

(* The values that each variable can take. *)
TypeOK ==
  /\ medium \in [Block -> Datum]
  /\ busy \in BOOLEAN /\ drq \in BOOLEAN
  /\ command \in {"none", "read", "write"}
  /\ lba \in Nat /\ left \in Nat /\ buffer \in Datum
  /\ at \in 0 .. HALF_BLOCK_SIZE
  /\ register \in [Port -> Nat]
  /\ pc \in {"idle", "first_wait", "command", "block_busy", "block_ready", "word"}
              \cup Port
  /\ request \in Requests \cup {NoRequest}
  /\ memory \in Seq(Word \cup {Junk})
  /\ i \in Nat /\ j \in Offset

(***************************************************************************)
(* ATA_DRQ_wait tests the ready bit and not the one that says that the     *)
(* drive asks for data: nevertheless the processor touches the data port   *)
(* only while the drive does ask, for the word that the processor means.   *)
(***************************************************************************)
DataWhenAsked ==
  pc = "word" => /\ drq /\ command = request.op /\ at = j
                 /\ lba = request.lba + i /\ left = request.count - i

\* The ports that are written before the access at pc.
Written ==
  [device |-> {}, count |-> {"device"}, low |-> {"device", "count"},
   mid |-> {"device", "count", "low"}, high |-> Port \ {"high"},
   command |-> Port]

\* No call has a command in the drive, which may still be at its last block.
Finishing ==
  /\ ~ drq /\ command # "read"
  /\ command = "write" => /\ busy /\ at = HALF_BLOCK_SIZE /\ left = 1
                          /\ lba \in Block

\* The drive is at the block that the processor is about to transfer.
AtBlock == /\ command = request.op /\ lba = request.lba + i
           /\ left = request.count - i
Working == busy /\ ~ drq /\ (command = "write" => at = 0)
Asking  == ~ busy /\ drq /\ at = 0

\* The drive is still at the block before.
Behind == /\ command = "write" /\ request.op = "write" /\ busy /\ ~ drq
          /\ at = HALF_BLOCK_SIZE /\ i > 0
          /\ lba = request.lba + i - 1 /\ left = request.count - i + 1

(***************************************************************************)
(* DataWhenAsked made inductive: at every access of the processor, what    *)
(* the drive may be doing.                                                 *)
(***************************************************************************)
ProtocolInv ==
  /\ TypeOK
  /\ pc = "idle" <=> request = NoRequest
  /\ pc \in {"idle", "first_wait"} => Finishing
  /\ pc # "word" => j = 0
  /\ pc # "idle" => i < request.count
  /\ pc \in Port \cup {"first_wait", "command"} => i = 0
  /\ pc \in Port \cup {"command"} =>
       /\ ~ busy /\ ~ drq /\ command = "none"
       /\ \A p \in Written[pc] : register[p] = Value[p]
  /\ pc = "block_busy" => (AtBlock /\ (Working \/ Asking)) \/ Behind
  /\ pc = "block_ready" => AtBlock /\ Asking
  /\ pc = "word" => AtBlock /\ ~ busy /\ drq /\ at = j

\* The place of a word in what a call transfers.
At(n, o) == n * HALF_BLOCK_SIZE + o + 1

(***************************************************************************)
(* What has gone through the data port: the drive has the words that the   *)
(* processor has sent of a block, and the memory those that it has read,   *)
(* which nothing has changed on the medium since the call began.           *)
(***************************************************************************)
TransferInv ==
  /\ pc = "word" /\ request.op = "write" =>
       \A o \in 0 .. j - 1 : buffer[o] = request.ptr[At(i, o)]
  /\ pc # "idle" /\ request.op = "write" => memory = << >>
  /\ pc # "idle" /\ request.op = "read" =>
       /\ Len(memory) = request.count * HALF_BLOCK_SIZE
       /\ \A n \in 0 .. i - 1, o \in Offset :
            memory[At(n, o)] = medium[request.lba + n][o]
       /\ \A o \in 0 .. j - 1 : memory[At(i, o)] = medium[lba][o]
       /\ drq => buffer = medium[lba]

(***************************************************************************)
(* read_blocks and write_blocks return, however slow the drive is: its     *)
(* header says that they block until the transfer is completed, and a      *)
(* drive that is left waiting would block them for ever.                   *)
(***************************************************************************)
CallsReturn == request # NoRequest ~> request = NoRequest

----------------------------------------------------------------------------
\* The block store of the medium, the drive's buffer and the memory.

Words(s, n) == [o \in Offset |-> s[At(n, o)]]
Blocks(s)   == [n \in 1 .. Len(s) \div HALF_BLOCK_SIZE |-> Words(s, n - 1)]

\* Got from the processor, and not on the medium.
Buffered ==
  IF busy /\ command = "write" /\ at = HALF_BLOCK_SIZE
  THEN <<[lba |-> lba, datum |-> buffer]>> ELSE << >>

\* The blocks of a write from the k-th on, and those not yet wholly sent.
Rest(r, k) ==
  IF r.op # "write" THEN << >>
  ELSE [n \in 1 .. r.count - k |->
          [lba |-> r.lba + k + n - 1, datum |-> Words(r.ptr, k + n - 1)]]

Unsent == Rest(request, i)

Task ==
  CASE request.op = "none"  -> [op |-> "none"]
    [] request.op = "write" -> [op |-> "write"]
    [] request.op = "read"  -> [op |-> "read", lba |-> request.lba,
                                count |-> request.count]

Store ==
  INSTANCE BlockStore
    WITH Reads    <- {r \in Requests : r.op = "read"},
         Writes   <- {[lba |-> r.lba, data |-> Blocks(r.ptr)] :
                        r \in {q \in Requests : q.op = "write"}},
         InitDisk <- [b \in Block |-> [o \in Offset |-> Junk]],
         store    <- medium,
         pending  <- Buffered \o Unsent,
         task     <- Task,
         answer   <- IF request = NoRequest THEN Blocks(memory) ELSE << >>

(***************************************************************************)
(* Whatever the pace of the drive, and whenever the power goes: blocks     *)
(* reach the disk in order and whole, at the addresses that were meant, a  *)
(* read returns the last that was written, and a write that has returned   *)
(* has one block left to reach at most: the store that disk.c:12-44 makes, *)
(* in which a write returns earlier than WriteIsCompleted asks.            *)
(***************************************************************************)
ImplementsBlockStore == Store!Spec

(***************************************************************************)
(* disk.h:40 says of write_blocks that it "Will blocking until write is    *)
(* completed": when it returns, every block of the call is on the medium.  *)
(***************************************************************************)
WriteIsCompleted ==
  [][OutWord /\ request' = NoRequest =>
       \A n \in 1 .. request.count :
          medium'[request.lba + n - 1] = Blocks(request.ptr)[n]]_vars

=============================================================================
