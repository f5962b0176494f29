----------------------------- MODULE BlockStore -----------------------------
(***************************************************************************)
(* The store of blocks that src/src/disk.c makes of a drive, and that      *)
(* Fat32 rests on: blocks are written in order, each as a whole, a read    *)
(* sees every write before it, and a power loss costs the blocks that have *)
(* not reached the disk.  A write may return while its last block is one   *)
(* of them; the driver's header, src/src/header/driver/disk.h, promises    *)
(* more, which DiskStore!WriteIsCompleted states.                          *)
(***************************************************************************)
EXTENDS Naturals, Sequences

CONSTANTS
  Reads,     \* what may be read: records of an address and a count
  Writes,    \* what may be written: records of an address and the blocks
  InitDisk   \* what the disk holds at first

VARIABLES
  store,     \* what is on the disk
  pending,   \* the blocks to be written next, with their addresses
  task,      \* the call in progress
  answer     \* what the last read has returned

vars == <<store, pending, task, answer>>

NoTask == [op |-> "none"]

\* The blocks of a call that starts at lba.
Addressed(lba, data) ==
  [n \in 1 .. Len(data) |-> [lba |-> lba + n - 1, datum |-> data[n]]]

Init ==
  /\ store = InitDisk
  /\ pending = << >> /\ task = NoTask /\ answer = << >>

Write(w) ==
  /\ task = NoTask
  /\ task' = [op |-> "write"]
  /\ pending' = pending \o Addressed(w.lba, w.data)
  /\ answer' = << >>
  /\ UNCHANGED store

Persist ==
  /\ pending # << >>
  /\ store' = [store EXCEPT ![Head(pending).lba] = Head(pending).datum]
  /\ pending' = Tail(pending)
  /\ UNCHANGED <<task, answer>>

\* disk.c:40-43: the last block is in the drive, and need not be further.
WriteReturns ==
  /\ task.op = "write" /\ Len(pending) <= 1
  /\ task' = NoTask
  /\ UNCHANGED <<store, pending, answer>>

Read(r) ==
  /\ task = NoTask
  /\ task' = [op |-> "read", lba |-> r.lba, count |-> r.count]
  /\ answer' = << >>
  /\ UNCHANGED <<store, pending>>

ReadReturns ==
  /\ task.op = "read" /\ pending = << >>
  /\ answer' = [n \in 1 .. task.count |-> store[task.lba + n - 1]]
  /\ task' = NoTask
  /\ UNCHANGED <<store, pending>>

PowerLoss ==
  /\ pending' = << >> /\ task' = NoTask /\ answer' = << >>
  /\ UNCHANGED store

Next ==
  \/ Persist \/ WriteReturns \/ ReadReturns \/ PowerLoss
  \/ \E r \in Reads : Read(r)
  \/ \E w \in Writes : Write(w)

Spec == Init /\ [][Next]_vars

=============================================================================
