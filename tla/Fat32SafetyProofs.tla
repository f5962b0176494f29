------------------------- MODULE Fat32SafetyProofs -------------------------
(***************************************************************************)
(* The driver's types and safety, for every value of the constants: the    *)
(* inductive invariant of Fat32Inductive, and from it that chains are      *)
(* allocated, never shared and never left through a wrong index, and that  *)
(* no directory is taken away from under its entries.                      *)
(***************************************************************************)
EXTENDS Fat32Inductive, FiniteSetTheorems, TLAPS

USE DEF FAT_CLUSTER_NUMBER, ROOT_CLUSTER_NUMBER, FAT32_FAT_EMPTY_ENTRY,
        FAT32_FAT_END_OF_FILE, CLUSTER_0_VALUE

----------------------------------------------------------------------------
(* Types of the constant tables and of what the helpers return. *)

LEMMA EmptyTypes ==
  /\ NoEntry \in Entry /\ EmptyTable \in Table /\ ZeroChunk \in Chunk
  /\ ZeroFat \in [Cluster -> Cell] /\ NewFat \in [Cluster -> Cell]
  /\ NoRequest \in Request /\ NoReply \in Reply
<1>1. NoEntry \in Entry
  BY ClusterAssumption, SizeAssumption DEF NoEntry, Entry, AnyName, Cell
<1>2. EmptyTable \in Table
  BY <1>1 DEF EmptyTable, Table
<1>3. ZeroChunk \in Chunk
  BY DEF ZeroChunk, Chunk
<1>4. ZeroFat \in [Cluster -> Cell] /\ NewFat \in [Cluster -> Cell]
  BY ClusterAssumption DEF ZeroFat, NewFat, Cluster, Cell
<1>5. NoRequest \in Request /\ NoReply \in Reply
  BY ClusterAssumption, SizeAssumption
  DEF NoRequest, NoReply, Request, Reply, AnyName, Cluster
<1> QED BY <1>1, <1>2, <1>3, <1>4, <1>5

LEMMA SlotFacts == 0 \in Slot /\ 1 \in Slot /\ Slot \subseteq Nat
  BY ClusterAssumption DEF Slot

LEMMA ClusterFacts ==
  /\ 0 \in Cluster /\ 1 \in Cluster /\ 2 \in Cluster
  /\ Cluster \subseteq Cell /\ DataCluster \subseteq Cluster
  /\ \A c \in Cluster : c \in {0, 1, 2} \/ c \in DataCluster
  /\ \A c \in Cluster : c \in Int /\ c >= 0 /\ c < CLUSTER_MAP_SIZE
  BY ClusterAssumption DEF Cluster, Cell, DataCluster

LEMMA SetEntryType ==
  ASSUME NEW t \in Table, NEW i \in Slot, NEW e \in Entry
  PROVE  [t EXCEPT ![i] = e] \in Table
  BY DEF Table

LEMMA DirEntryType ==
  ASSUME NEW name \in AnyName, NEW c \in Cell
  PROVE  DirEntry(name, c) \in Entry
  BY SizeAssumption DEF DirEntry, Entry

LEMMA InitDirectoryTableType ==
  ASSUME table \in [Cluster -> Table],
         NEW name \in Name, NEW parent \in Cluster
  PROVE  /\ InitDirectoryTable(name, parent) \in Table
         /\ \A c \in Cluster :
              [InitDirectoryTable(name, parent) EXCEPT ![0] = DirEntry(name, c)]
                \in Table
<1> DEFINE init == InitDirectoryTable(name, parent)
<1>1. table[parent][0].name \in AnyName
  BY SlotFacts DEF Table, Entry
<1>2. \A s \in Slot : init[s] \in Entry
  <2> TAKE s \in Slot
  <2>1. CASE s = 0
    BY <2>1, ClusterFacts, DirEntryType DEF InitDirectoryTable, AnyName
  <2>2. CASE s = 1
    BY <2>2, <1>1, ClusterFacts, DirEntryType DEF InitDirectoryTable
  <2>3. CASE s # 0 /\ s # 1
    BY <2>3, EmptyTypes DEF InitDirectoryTable
  <2> QED BY <2>1, <2>2, <2>3
<1>3. init \in Table
  BY <1>2 DEF Table, InitDirectoryTable
<1>4. ASSUME NEW c \in Cluster
      PROVE  [init EXCEPT ![0] = DirEntry(name, c)] \in Table
  BY <1>3, SlotFacts, DirEntryType, ClusterFacts, SetEntryType DEF AnyName
<1> QED BY <1>3, <1>4

----------------------------------------------------------------------------
(* Type correctness. *)

LEMMA WriteClusterType ==
  ASSUME TypeOK, NEW c \in Cluster, NEW t \in Table, NEW b \in Chunk,
         WriteCluster(c, t, b)
  PROVE  /\ table' \in [Cluster -> Table] /\ bytes' \in [Cluster -> Chunk]
         /\ signed' \in BOOLEAN /\ fat_disk' \in [Cluster -> Cell]
<1>1. table' \in [Cluster -> Table] /\ bytes' \in [Cluster -> Chunk]
  BY DEF TypeOK, WriteCluster
<1>2. fat_disk' \in [Cluster -> Cell]
  BY EmptyTypes DEF TypeOK, WriteCluster
<1>3. signed' \in BOOLEAN
  BY DEF WriteCluster
<1> QED BY <1>1, <1>2, <1>3

LEMMA ClearLocalsType ==
  ASSUME ClearLocals
  PROVE  /\ request' \in Request /\ dir_table' \in Table /\ slot' \in Slot
         /\ slot_buf' \in SUBSET Cluster /\ todo' \in SUBSET Cluster
         /\ cur' \in Cell
  BY EmptyTypes, SlotFacts, ClusterFacts DEF ClearLocals

LEMMA AnswerType ==
  ASSUME NEW op \in {"read", "read_directory", "write", "delete"},
         NEW parent \in Cluster, NEW name \in AnyName,
         NEW code \in {-1, 0, 1, 2}, Answer(op, parent, name, code)
  PROVE  pc' \in Phase /\ reply' \in Reply
  BY DEF Answer, Phase, Reply

LEMMA EmptyBuffer == << >> \in Seq(Chunk)
  OBVIOUS

LEMMA LowestIn == ASSUME NEW S, NEW m \in Lowest(S) PROVE m \in S
  BY DEF Lowest

LEMMA BootType == ASSUME TypeOK, Boot PROVE TypeOK'
<1> USE DEF TypeOK, locals, disk
<1>1. CASE BootFormat
  BY <1>1 DEF BootFormat, Phase
<1>2. CASE FormatFat
  BY <1>2, EmptyTypes DEF FormatFat, Phase
<1>3. CASE FormatName
  <2> DEFINE named == [name |-> RootName, isdir |-> FALSE, used |-> FALSE,
                       cluster |-> 0, size |-> 0]
  <2>1. named \in Entry
    BY NameAssumption, SizeAssumption, ClusterFacts DEF Entry, AnyName
  <2>2. [EmptyTable EXCEPT ![0] = named] \in Table
    BY <2>1, SlotFacts, EmptyTypes, SetEntryType
  <2>3. WriteCluster(2, [EmptyTable EXCEPT ![0] = named], ZeroChunk)
    BY <1>3, ClusterFacts DEF FormatName, PutTable
  <2>4. /\ table' \in [Cluster -> Table] /\ bytes' \in [Cluster -> Chunk]
        /\ signed' \in BOOLEAN /\ fat_disk' \in [Cluster -> Cell]
    BY <2>2, <2>3, ClusterFacts, EmptyTypes, WriteClusterType
  <2> QED BY <1>3, <2>4 DEF FormatName, Phase
<1>4. CASE FormatRoot
  <2>1. InitDirectoryTable(RootName, 2) \in Table
    BY InitDirectoryTableType, NameAssumption, ClusterFacts
  <2>2. WriteCluster(2, InitDirectoryTable(RootName, 2), ZeroChunk)
    BY <1>4 DEF FormatRoot, PutTable
  <2>4. /\ table' \in [Cluster -> Table] /\ bytes' \in [Cluster -> Chunk]
        /\ signed' \in BOOLEAN /\ fat_disk' \in [Cluster -> Cell]
    BY <2>1, <2>2, ClusterFacts, EmptyTypes, WriteClusterType
  <2> QED BY <1>4, <2>4 DEF FormatRoot, Phase
<1>5. CASE BootLoad
  BY <1>5 DEF BootLoad, Phase
<1> QED BY <1>1, <1>2, <1>3, <1>4, <1>5 DEF Boot

LEMMA WriteAcceptedType ==
  ASSUME TypeOK, NEW parent \in Cluster, NEW name \in Name, NEW size \in Sizes,
         NEW data \in Data \cup {NoData},
         WriteAccepted(parent, name, size, data)
  PROVE  /\ request' \in Request /\ dir_table' \in Table /\ slot' \in Slot
         /\ slot_buf' \in SUBSET Cluster /\ reply' \in Reply
         /\ out' \in Seq(Chunk) /\ listing' \in Table
<1>1. slot' \in Slot
  BY LowestIn DEF WriteAccepted, UnusedSlots
<1>2. request' \in Request /\ dir_table' \in Table
  BY DEF WriteAccepted, Request, AnyName, TypeOK
<1>3. slot_buf' \in SUBSET Cluster
  BY DEF WriteAccepted, FreeClusters
<1> QED BY <1>1, <1>2, <1>3, EmptyTypes, EmptyBuffer DEF WriteAccepted

LEMMA WriteFolderType ==
  ASSUME TypeOK, NEW parent \in Cluster, NEW name \in Name,
         WriteFolder(parent, name)
  PROVE  TypeOK'
<1>1. /\ request' \in Request /\ dir_table' \in Table /\ slot' \in Slot
      /\ slot_buf' \in SUBSET Cluster /\ reply' \in Reply
      /\ out' \in Seq(Chunk) /\ listing' \in Table
  BY WriteAcceptedType, SizeAssumption DEF WriteFolder
<1>2. PICK c \in slot_buf' :
        PutTable(c, [InitDirectoryTable(name, parent) EXCEPT
                       ![0] = DirEntry(name, c)])
  BY DEF WriteFolder
<1>3. [InitDirectoryTable(name, parent) EXCEPT ![0] = DirEntry(name, c)]
        \in Table
  BY <1>1, InitDirectoryTableType DEF TypeOK
<1>4. /\ table' \in [Cluster -> Table] /\ bytes' \in [Cluster -> Chunk]
      /\ signed' \in BOOLEAN /\ fat_disk' \in [Cluster -> Cell]
  BY <1>1, <1>2, <1>3, EmptyTypes, WriteClusterType DEF PutTable
<1> QED BY <1>1, <1>4 DEF WriteFolder, TypeOK, Phase

LEMMA WriteFileType ==
  ASSUME TypeOK, NEW parent \in Cluster, NEW name \in Name, NEW size \in Sizes,
         NEW data \in Data, WriteFile(parent, name, size, data)
  PROVE  TypeOK'
<1>1. /\ request' \in Request /\ dir_table' \in Table /\ slot' \in Slot
      /\ slot_buf' \in SUBSET Cluster /\ reply' \in Reply
      /\ out' \in Seq(Chunk) /\ listing' \in Table
  BY WriteAcceptedType DEF WriteFile
<1> QED BY <1>1 DEF WriteFile, TypeOK, Phase, disk

LEMMA WriteDataType == ASSUME TypeOK, WriteData PROVE TypeOK'
<1>1. PICK c \in Lowest(todo) :
        /\ PutBytes(c, [data |-> request.data,
                        part |-> Cardinality(slot_buf \ todo) + 1])
        /\ todo' = todo \ {c}
  BY DEF WriteData
<1>2. c \in Cluster /\ todo' \in SUBSET Cluster
  BY <1>1, LowestIn DEF TypeOK
<1>3. IsFiniteSet(slot_buf \ todo)
  <2>1. IsFiniteSet(Cluster)
    BY ClusterAssumption, FS_Interval DEF Cluster
  <2> QED BY <2>1, FS_Subset DEF TypeOK
<1>4. Cardinality(slot_buf \ todo) \in Nat
  BY <1>3, FS_CardinalityType
<1>5. [data |-> request.data, part |-> Cardinality(slot_buf \ todo) + 1]
        \in Chunk
  BY <1>4 DEF Chunk, TypeOK, Request
<1>6. /\ table' \in [Cluster -> Table] /\ bytes' \in [Cluster -> Chunk]
      /\ signed' \in BOOLEAN /\ fat_disk' \in [Cluster -> Cell]
  BY <1>1, <1>2, <1>5, EmptyTypes, WriteClusterType DEF PutBytes
<1> QED BY <1>2, <1>6 DEF WriteData, TypeOK, Phase

LEMMA WriteParentType == ASSUME TypeOK, WriteParent PROVE TypeOK'
<1>1. PICK first \in FirstCluster :
        PutTable(request.parent, [dir_table EXCEPT ![slot] = NewEntry(first)])
  BY DEF WriteParent
<1>2. first \in Cell
  BY LowestIn, ClusterFacts DEF FirstCluster, TypeOK
<1>3. NewEntry(first) \in Entry
  BY <1>2 DEF NewEntry, Entry, TypeOK, Request
<1>4. [dir_table EXCEPT ![slot] = NewEntry(first)] \in Table
  BY <1>3, SetEntryType DEF TypeOK
<1>5. request.parent \in Cluster /\ request.name \in AnyName
  BY DEF TypeOK, Request
<1>6. /\ table' \in [Cluster -> Table] /\ bytes' \in [Cluster -> Chunk]
      /\ signed' \in BOOLEAN /\ fat_disk' \in [Cluster -> Cell]
  BY <1>1, <1>4, <1>5, EmptyTypes, WriteClusterType DEF PutTable
<1>7. pc' \in Phase /\ reply' \in Reply
  BY <1>5, AnswerType DEF WriteParent
<1> QED BY <1>6, <1>7, ClearLocalsType DEF WriteParent, TypeOK

LEMMA DeleteEntryType ==
  ASSUME TypeOK, NEW parent \in Cluster, NEW name \in Name,
         DeleteEntry(parent, name)
  PROVE  TypeOK'
<1>1. PICK i \in Lowest(Matches(table[parent], name)) :
        /\ PutTable(parent, [table[parent] EXCEPT ![i] = NoEntry])
        /\ cur' = table[parent][i].cluster
  BY DEF DeleteEntry
<1>2. i \in Slot
  BY LowestIn DEF Matches
<1>3. cur' \in Cell
  BY <1>1, <1>2 DEF TypeOK, Table, Entry
<1>4. [table[parent] EXCEPT ![i] = NoEntry] \in Table
  BY <1>2, EmptyTypes, SetEntryType DEF TypeOK
<1>5. /\ table' \in [Cluster -> Table] /\ bytes' \in [Cluster -> Chunk]
      /\ signed' \in BOOLEAN /\ fat_disk' \in [Cluster -> Cell]
  BY <1>1, <1>4, EmptyTypes, WriteClusterType DEF PutTable
<1>6. request' \in Request
  BY SizeAssumption DEF DeleteEntry, Lookup, Request, AnyName
<1> QED BY <1>3, <1>5, <1>6, EmptyTypes, EmptyBuffer
        DEF DeleteEntry, TypeOK, Phase

LEMMA DeleteWalkType == ASSUME TypeOK, DeleteWalk PROVE TypeOK'
<1>1. CASE cur \in Cluster
  <2>1. PutTable(cur, EmptyTable)
    BY <1>1 DEF DeleteWalk
  <2>2. /\ table' \in [Cluster -> Table] /\ bytes' \in [Cluster -> Chunk]
        /\ signed' \in BOOLEAN /\ fat_disk' \in [Cluster -> Cell]
    BY <1>1, <2>1, EmptyTypes, WriteClusterType DEF PutTable
  <2>3. cur' \in Cell /\ fat' \in [Cluster -> Cell] /\ pc' \in Phase
    BY <1>1, ClusterFacts DEF DeleteWalk, TypeOK, Phase
  <2> QED BY <2>2, <2>3 DEF DeleteWalk, TypeOK
<1>2. CASE cur \notin Cluster
  BY <1>2 DEF DeleteWalk, TypeOK, Phase, disk
<1> QED BY <1>1, <1>2

LEMMA ReadBeginType ==
  ASSUME TypeOK, NEW parent \in Cluster, NEW name \in Name, NEW size \in Sizes,
         ReadBegin(parent, name, size)
  PROVE  TypeOK'
<1>1. PICK i \in Lowest(Matches(table[parent], name)) :
        cur' = table[parent][i].cluster
  BY DEF ReadBegin
<1>2. i \in Slot
  BY LowestIn DEF Matches
<1>3. cur' \in Cell
  BY <1>1, <1>2 DEF TypeOK, Table, Entry
<1>4. request' \in Request
  BY DEF ReadBegin, Lookup, Request, AnyName
<1> QED BY <1>3, <1>4, EmptyTypes, EmptyBuffer
        DEF ReadBegin, TypeOK, Phase, disk

LEMMA ReadDirectoryType ==
  ASSUME TypeOK, NEW parent \in Cluster, NEW name \in Name,
         NEW roomy \in BOOLEAN, ReadDirectory(parent, name, roomy)
  PROVE  TypeOK'
<1>1. PICK code \in {-1, 0, 1, 2} : Answer("read_directory", parent, name, code)
  BY DEF ReadDirectory
<1>2. pc' \in Phase /\ reply' \in Reply
  BY <1>1, AnswerType DEF AnyName
<1>3. listing' \in Table
  BY EmptyTypes DEF ReadDirectory, TypeOK
<1> QED BY <1>2, <1>3, EmptyBuffer DEF ReadDirectory, TypeOK, disk, locals

LEMMA ParentInCluster == Dirs \subseteq Cluster /\ Opened \subseteq Cluster
  BY DEF Dirs, Opened

LEMMA CarefulRequestType == ASSUME TypeOK, CarefulRequest PROVE TypeOK'
<1> USE ParentInCluster
<1>1. ASSUME NEW parent \in Opened, NEW name \in Name, NEW size \in Sizes,
             WriteReject(parent, name, size)
      PROVE  TypeOK'
  <2>1. PICK code \in {-1, 1, 2} : Answer("write", parent, name, code)
    BY <1>1 DEF WriteReject
  <2>2. pc' \in Phase /\ reply' \in Reply
    BY <2>1, AnswerType DEF AnyName
  <2> QED BY <1>1, <2>2, EmptyTypes, EmptyBuffer
          DEF WriteReject, TypeOK, disk, locals
<1>2. ASSUME NEW parent \in Opened, NEW name \in Name,
             DeleteReject(parent, name)
      PROVE  TypeOK'
  <2>1. PICK code \in {1, 2} : Answer("delete", parent, name, code)
    BY <1>2 DEF DeleteReject
  <2>2. pc' \in Phase /\ reply' \in Reply
    BY <2>1, AnswerType DEF AnyName
  <2> QED BY <1>2, <2>2, EmptyTypes, EmptyBuffer
          DEF DeleteReject, TypeOK, disk, locals
<1>3. ASSUME NEW parent \in Opened, NEW name \in Name, NEW size \in Sizes,
             ReadReject(parent, name, size)
      PROVE  TypeOK'
  <2>1. PICK code \in {-1, 1, 2} : Answer("read", parent, name, code)
    BY <1>3 DEF ReadReject
  <2>2. pc' \in Phase /\ reply' \in Reply
    BY <2>1, AnswerType DEF AnyName
  <2> QED BY <1>3, <2>2, EmptyTypes, EmptyBuffer
          DEF ReadReject, TypeOK, disk, locals
<1> QED BY <1>1, <1>2, <1>3, WriteFileType, WriteFolderType, DeleteEntryType,
           ReadBeginType, ReadDirectoryType
        DEF CarefulRequest

LEMMA DriverType == ASSUME TypeOK, Driver PROVE TypeOK'
<1>1. CASE MkdirFat
  <2>1. fat' \in [Cluster -> Cell]
    BY <1>1, ClusterAssumption DEF MkdirFat, TypeOK, Cell
  <2> QED BY <1>1, <2>1 DEF MkdirFat, TypeOK, locals, Phase
<1>2. CASE WriteFat
  <2>1. fat' \in [Cluster -> Cell]
    BY <1>2 DEF WriteFat, TypeOK
  <2> QED BY <1>2, <2>1 DEF WriteFat, TypeOK, locals, Phase
<1>3. CASE DeleteFat
  <2>1. pc' \in Phase /\ reply' \in Reply
    BY <1>3, AnswerType DEF DeleteFat, TypeOK, Request
  <2> QED BY <1>3, <2>1, ClearLocalsType DEF DeleteFat, TypeOK
<1>4. CASE ReadCluster
  <2>1. CASE cur \in Cluster
    <3>1. out' \in Seq(Chunk) /\ cur' \in Cell
      BY <1>4, <2>1 DEF ReadCluster, TypeOK
    <3> QED BY <1>4, <2>1, <3>1 DEF ReadCluster, TypeOK, disk
  <2>2. CASE cur \notin Cluster
    BY <1>4, <2>2 DEF ReadCluster, TypeOK, disk, Phase
  <2> QED BY <2>1, <2>2
<1>5. CASE ReadDone
  <2>1. pc' \in Phase /\ reply' \in Reply
    BY <1>5, AnswerType DEF ReadDone, TypeOK, Request
  <2> QED BY <1>5, <2>1, ClearLocalsType DEF ReadDone, TypeOK, disk
<1> QED BY <1>1, <1>2, <1>3, <1>4, <1>5, WriteDataType, WriteParentType,
           DeleteWalkType
        DEF Driver

LEMMA ForgetType ==
  ASSUME TypeOK, Forget, crashes < MaxCrashes
  PROVE  /\ request' \in Request /\ dir_table' \in Table /\ slot' \in Slot
         /\ slot_buf' \in SUBSET Cluster /\ todo' \in SUBSET Cluster
         /\ cur' \in Cell /\ pc' \in Phase /\ fat' \in [Cluster -> Cell]
         /\ out' \in Seq(Chunk) /\ listing' \in Table /\ reply' \in Reply
         /\ crashes' \in 0 .. MaxCrashes
<1>1. crashes' \in 0 .. MaxCrashes
  BY BoundAssumption DEF Forget, TypeOK
<1>2. pc' \in Phase
  BY DEF Forget, Phase
<1> QED BY <1>1, <1>2, ClearLocalsType, EmptyTypes, EmptyBuffer DEF Forget

LEMMA CrashType == ASSUME TypeOK, Crash \/ TornFat PROVE TypeOK'
<1>1. CASE Crash
  BY <1>1, ForgetType DEF Crash, PowerLoss, TypeOK, disk
<1>2. CASE TornFat
  <2>1. fat_disk' \in [Cluster -> Cell]
    BY <1>2 DEF TornFat, TypeOK
  <2> QED BY <1>2, <2>1, ForgetType DEF TornFat, TypeOK
<1> QED BY <1>1, <1>2

LEMMA TypeInit == Init => TypeOK
<1> SUFFICES ASSUME Init PROVE TypeOK
  OBVIOUS
<1>1. table \in [Cluster -> Table] /\ bytes \in [Cluster -> Chunk]
  BY EmptyTypes DEF Init
<1>2. crashes \in 0 .. MaxCrashes
  BY BoundAssumption DEF Init
<1>3. pc \in Phase /\ signed \in BOOLEAN
  BY DEF Init, Phase
<1> QED BY <1>1, <1>2, <1>3, EmptyTypes, EmptyBuffer, SlotFacts, ClusterFacts
        DEF Init, TypeOK

(***************************************************************************)
(* Every variable of the driver and of the disk keeps its type, whatever   *)
(* is asked of the driver and wherever power is lost.                      *)
(***************************************************************************)
THEOREM TypeCorrect == Spec => []TypeOK
<1>1. TypeOK /\ [Next]_vars => TypeOK'
  <2> SUFFICES ASSUME TypeOK, [Next]_vars PROVE TypeOK'
    OBVIOUS
  <2>1. CASE Next
    BY <2>1, BootType, CarefulRequestType, DriverType, CrashType DEF Next
  <2>2. CASE UNCHANGED vars
    BY <2>2 DEF vars, disk, locals, TypeOK
  <2> QED BY <2>1, <2>2
<1> QED BY <1>1, TypeInit, PTL DEF Spec

----------------------------------------------------------------------------
(* Chains. *)

LEMMA ChainHead ==
  ASSUME NEW f, NEW h \in DataCluster
  PROVE  h \in Chain(f, h)
  BY DEF Chain

LEMMA ChainClosed ==
  ASSUME NEW f, NEW h
  PROVE  Chain(f, h) \subseteq DataCluster /\ Closed(f, Chain(f, h))
<1>1. Chain(f, h) \subseteq DataCluster
  BY DEF Chain
<1>2. ASSUME NEW c \in Chain(f, h), f[c] \in DataCluster
      PROVE  f[c] \in Chain(f, h)
  <2>1. ASSUME NEW S \in SUBSET DataCluster, h \in S, Closed(f, S)
        PROVE  f[c] \in S
    <3>1. c \in S
      BY <2>1 DEF Chain
    <3> QED BY <1>2, <2>1, <3>1 DEF Closed
  <2> QED BY <1>2, <2>1 DEF Chain
<1> QED BY <1>1, <1>2 DEF Closed

LEMMA ChainLeast ==
  ASSUME NEW f, NEW S \in SUBSET DataCluster, NEW h \in S, Closed(f, S)
  PROVE  Chain(f, h) \subseteq S
  BY DEF Chain

\* A chain depends on its own cells only.
LEMMA ChainFrame ==
  ASSUME NEW f, NEW g, NEW h \in DataCluster,
         \A c \in Chain(f, h) : g[c] = f[c]
  PROVE  Chain(g, h) = Chain(f, h)
<1> DEFINE C == Chain(f, h)
<1>1. C \subseteq DataCluster /\ Closed(f, C) /\ h \in C
  BY ChainHead, ChainClosed
<1>2. Chain(g, h) \subseteq C
  <2>1. Closed(g, C)
    BY <1>1 DEF Closed
  <2> HIDE DEF C
  <2> QED BY <1>1, <2>1, ChainLeast
<1>3. ASSUME NEW S \in SUBSET DataCluster, h \in S, Closed(g, S)
      PROVE  C \subseteq S
  <2>1. Closed(f, S \cap C)
    BY <1>1, <1>3 DEF Closed
  <2>2. C \subseteq S \cap C
    BY <1>1, <1>3, <2>1, ChainLeast
  <2> QED BY <2>2
<1>4. C \subseteq Chain(g, h)
  BY <1>1, <1>3 DEF Chain
<1> QED BY <1>2, <1>4

LEMMA PrimedChain ==
  ASSUME NEW p
  PROVE  ChainAt(p)' = Chain(fat_disk', table'[p[1]][p[2]].cluster)
  BY DEF ChainAt, Chain, Closed, At

----------------------------------------------------------------------------
(* What the invariant says of folders. *)

LEMMA PlaceFacts ==
  ASSUME NEW p \in LiveEntries
  PROVE  /\ p \in Place /\ p[1] \in Cluster /\ p[2] \in Slot \ {0, 1}
         /\ p = <<p[1], p[2]>> /\ table[p[1]][p[2]].used
  BY DEF LiveEntries, Place, At

LEMMA LiveCluster ==
  ASSUME DiskInv, NEW p \in LiveEntries
  PROVE  At(p).cluster \in DataCluster /\ At(p).cluster \in ChainAt(p)
<1>1. At(p).cluster \in DataCluster
  BY DEF DiskInv, DiskChains
<1> QED BY <1>1, ChainHead DEF ChainAt

\* A cluster of no chain is no folder, unless it is the root's.
LEMMA NotADir ==
  ASSUME DiskInv, NEW S, NotInUse(S), NEW c \in S, c # ROOT_CLUSTER_NUMBER
  PROVE  c \notin Dirs
<1>1. SUFFICES ASSUME c \in Dirs PROVE FALSE
  OBVIOUS
<1>2. PICK p \in LiveDirs : At(p).cluster = c
  BY <1>1 DEF Dirs
<1>3. p \in LiveEntries
  BY DEF LiveDirs
<1>4. c \in ChainAt(p)
  BY <1>2, <1>3, LiveCluster
<1> QED BY <1>3, <1>4 DEF NotInUse

LEMMA DataFacts ==
  /\ DataCluster \subseteq Cluster
  /\ \A c \in DataCluster : c # 0 /\ c # 1 /\ c # 2 /\ c \in Int
  BY ClusterAssumption DEF Cluster, DataCluster

LEMMA DirFacts ==
  ASSUME DiskInv, NEW d \in Dirs
  PROVE  d \in Cluster /\ (d = 2 \/ d \in DataCluster) /\ d # 0 /\ d # 1
<1>1. d \in Cluster
  BY DEF Dirs
<1>2. CASE d = 2
  BY <1>1, <1>2
<1>3. CASE d # 2
  <2>1. PICK p \in LiveDirs : At(p).cluster = d
    BY <1>3 DEF Dirs
  <2>2. d \in DataCluster
    BY <2>1, LiveCluster DEF LiveDirs
  <2> QED BY <1>1, <2>2, DataFacts
<1> QED BY <1>2, <1>3

----------------------------------------------------------------------------
(* Steps that leave the tree alone. *)

\* Entries, folders and chains are what they were.
TreeStays ==
  /\ Dirs' = Dirs /\ LiveEntries' = LiveEntries
  /\ \A p \in LiveEntries : At(p)' = At(p) /\ ChainAt(p)' = ChainAt(p)

(***************************************************************************)
(* A step that changes neither the folders' tables nor the cells of a      *)
(* chain, and that keeps the table well formed, keeps all that is true of  *)
(* the disk.                                                               *)
(***************************************************************************)
LEMMA DiskFrame ==
  ASSUME DiskInv, Formatted, Formatted',
         LiveEntries' = LiveEntries,
         \A d \in Dirs : table'[d] = table[d],
         \A p \in LiveEntries : \A c \in ChainAt(p) :
            fat_disk'[c] = fat_disk[c],
         Ascending(fat_disk'), Reserved(fat_disk'),
         \A c \in Cluster, s \in Slot :
            ~ table'[c][s].used => table'[c][s] = NoEntry
  PROVE  /\ DiskInv' /\ Dirs' = Dirs
         /\ \A p \in LiveEntries : At(p)' = At(p) /\ ChainAt(p)' = ChainAt(p)
<1>1. \A p \in LiveEntries : table'[p[1]] = table[p[1]] /\ At(p)' = At(p)
  BY DEF DiskInv, DirectoriesLinked, At
<1>2. LiveDirs' = LiveDirs
  BY <1>1 DEF LiveDirs
<1>3. Dirs' = Dirs
  BY <1>1, <1>2 DEF Dirs, LiveDirs
<1>4. ASSUME NEW p \in LiveEntries PROVE ChainAt(p)' = ChainAt(p)
  <2>1. ChainAt(p)' = Chain(fat_disk', At(p).cluster)
    BY <1>1, PrimedChain DEF At
  <2>2. At(p).cluster \in DataCluster
    BY LiveCluster
  <2>3. \A c \in Chain(fat_disk, At(p).cluster) : fat_disk'[c] = fat_disk[c]
    BY DEF ChainAt
  <2>4. Chain(fat_disk', At(p).cluster) = Chain(fat_disk, At(p).cluster)
    BY <2>2, <2>3, ChainFrame
  <2> QED BY <2>1, <2>4 DEF ChainAt
<1>5. BlankDisk'
  BY DEF BlankDisk, Formatted, FormatPhase
<1>6. UnusedBlank'
  BY DEF UnusedBlank
<1>7. RootTable'
  <2>1. ROOT_CLUSTER_NUMBER \in Dirs
    BY ClusterFacts DEF Dirs
  <2> QED BY <2>1 DEF DiskInv, RootTable
<1>8. (Formatted => Ascending(fat_disk) /\ Reserved(fat_disk))'
  BY DEF Ascending, Reserved
<1>9. LiveNames'
  BY <1>1 DEF DiskInv, LiveNames
<1>10. OneClusterDirs'
  <2> SUFFICES ASSUME NEW p \in LiveDirs
               PROVE  fat_disk'[At(p).cluster] = FAT32_FAT_END_OF_FILE
    BY <1>1, <1>2 DEF OneClusterDirs, LiveDirs
  <2>1. fat_disk[At(p).cluster] = FAT32_FAT_END_OF_FILE
    BY DEF DiskInv, OneClusterDirs
  <2>2. p \in LiveEntries /\ At(p).cluster \in ChainAt(p)
    BY LiveCluster DEF LiveDirs
  <2> QED BY <2>1, <2>2
<1>11. DiskChains'
  BY <1>1, <1>4 DEF DiskInv, DiskChains
<1>12. NoCrossLinks'
  BY <1>4 DEF DiskInv, NoCrossLinks
<1>13. DirectoriesLinked'
  BY <1>3 DEF DiskInv, DirectoriesLinked
<1>14. DotEntriesSound'
  <2>1. ASSUME NEW p \in LiveDirs
        PROVE  /\ table'[At(p).cluster] = table[At(p).cluster]
               /\ table'[p[1]] = table[p[1]]
    <3>1. p \in LiveEntries /\ At(p).cluster \in Cluster
      BY LiveCluster, DataFacts DEF LiveDirs
    <3>2. At(p).cluster \in Dirs
      BY <3>1 DEF Dirs
    <3> QED BY <1>1, <3>1, <3>2
  <2> QED BY <1>1, <1>2, <2>1 DEF DiskInv, DotEntriesSound, LiveDirs
<1> QED BY <1>1, <1>3, <1>4, <1>5, <1>6, <1>7, <1>8, <1>9, <1>10, <1>11,
           <1>12, <1>13, <1>14
        DEF DiskInv

LEMMA MountedIsFormatted ==
  ASSUME DiskInv, Mounted
  PROVE  signed /\ Formatted
  BY DEF DiskInv, BlankDisk, Mounted, Formatted, FormatPhase

LEMMA DotSlotsUsed ==
  ASSUME DiskInv, Formatted, NEW d \in Dirs
  PROVE  table[d][0].used /\ table[d][1].used
<1>1. CASE d = 2
  BY <1>1 DEF DiskInv, RootTable
<1>2. CASE d # 2
  <2>1. PICK p \in LiveDirs : At(p).cluster = d
    BY <1>2 DEF Dirs
  <2> QED BY <2>1 DEF DiskInv, DotEntriesSound
<1> QED BY <1>1, <1>2

(***************************************************************************)
(* A table written over a cluster that belongs to no chain, and without    *)
(* entries of its own, leaves the tree as it was.                          *)
(***************************************************************************)
LEMMA WriteOutside ==
  ASSUME TypeOK, DiskInv, Formatted, NEW c \in DataCluster, NotInUse({c}),
         NEW t \in Table, NEW b \in Chunk,
         \A s \in Slot : ~ t[s].used => t[s] = NoEntry,
         \A s \in Slot \ {0, 1} : ~ t[s].used,
         WriteCluster(c, t, b)
  PROVE  /\ LiveEntries' = LiveEntries
         /\ \A d \in Dirs : d # c /\ table'[d] = table[d]
         /\ table' = [table EXCEPT ![c] = t]
         /\ signed' = signed /\ fat_disk' = fat_disk
         /\ \A x \in Cluster, s \in Slot :
              ~ table'[x][s].used => table'[x][s] = NoEntry
<1>1. c \in Cluster /\ c # 0 /\ c # 1 /\ c # 2
  BY DataFacts
<1>2. c \notin Dirs
  BY <1>1, NotADir
<1>3. /\ table' = [table EXCEPT ![c] = t]
      /\ signed' = signed /\ fat_disk' = fat_disk
  BY <1>1 DEF WriteCluster, TypeOK
<1>4. \A d \in Dirs : d # c /\ table'[d] = table[d]
  BY <1>2, <1>3 DEF TypeOK, Dirs
<1>5. ASSUME NEW p \in Place
      PROVE  p \in LiveEntries' <=> p \in LiveEntries
  <2>1. p[1] \in Cluster /\ p[2] \in Slot \ {0, 1}
    BY DEF Place
  <2>2. CASE p[1] = c
    <3>1. ~ table'[p[1]][p[2]].used
      BY <1>1, <1>3, <2>1, <2>2 DEF TypeOK
    <3>2. p \notin LiveEntries
      BY <1>2, <2>2 DEF DiskInv, DirectoriesLinked
    <3> QED BY <3>1, <3>2 DEF LiveEntries, At
  <2>3. CASE p[1] # c
    BY <1>3, <2>1, <2>3 DEF TypeOK, LiveEntries, At
  <2> QED BY <2>2, <2>3
<1>6. LiveEntries' = LiveEntries
  BY <1>5 DEF LiveEntries
<1>7. \A x \in Cluster, s \in Slot :
        ~ table'[x][s].used => table'[x][s] = NoEntry
  BY <1>3 DEF DiskInv, UnusedBlank, TypeOK
<1> QED BY <1>3, <1>4, <1>6, <1>7

----------------------------------------------------------------------------
(* Requests. *)

LEMMA RequiredPositive ==
  ASSUME NEW size \in Sizes, Fits(size)
  PROVE  Required(size) \in Nat \ {0}
<1>1. CASE size = 0
  BY <1>1 DEF Required
<1>2. CASE size # 0
  <2> DEFINE n == (size + CLUSTER_SIZE - 1) \div CLUSTER_SIZE
  <2>1. size \in Nat \ {0} /\ CLUSTER_SIZE \in Nat \ {0} /\ COUNT_RANGE \in Nat
    BY <1>2, SizeAssumption
  <2>2. n >= 1 /\ n \in Nat
    BY <2>1
  <2>3. n < COUNT_RANGE
    BY <2>1 DEF Fits
  <2>4. n % COUNT_RANGE = n
    BY <2>1, <2>2, <2>3
  <2> QED BY <1>2, <2>2, <2>4 DEF Required, CeilClusters
<1> QED BY <1>1, <1>2

\* Of what a request is accepted on: a folder, a free slot, free clusters.
LEMMA AcceptedFacts ==
  ASSUME IInv, NEW parent \in Opened, NEW name \in Name, NEW size \in Sizes,
         NEW data \in Data \cup {NoData}, Fits(size),
         WriteAccepted(parent, name, size, data)
  PROVE  /\ Formatted /\ signed /\ fat = fat_disk
         /\ parent \in Dirs
         /\ slot' \in Slot \ {0, 1} /\ ~ table[parent][slot'].used
         /\ slot_buf' \subseteq DataCluster /\ slot_buf' # {}
         /\ NotInUse(slot_buf')
         /\ \A c \in slot_buf' : fat_disk[c] = FAT32_FAT_EMPTY_ENTRY
         /\ size = 0 => \E c \in DataCluster : slot_buf' = {c}
<1>1. pc = "idle"
  BY DEF WriteAccepted
<1>2. Formatted /\ signed /\ fat = fat_disk
  BY <1>1, MountedIsFormatted
  DEF IInv, MemoryInv, CoherentPhase, Mounted, FormatPhase
<1>3. parent \in Dirs
  BY DEF WriteAccepted, Opened
<1>4. slot' \in UnusedSlots(table[parent])
  BY LowestIn DEF WriteAccepted
<1>5. slot' \in Slot \ {0, 1} /\ ~ table[parent][slot'].used
  BY <1>2, <1>3, <1>4, DotSlotsUsed DEF UnusedSlots, IInv
<1>6. slot_buf' \subseteq FreeClusters
  BY DEF WriteAccepted
<1>7. Reserved(fat)
  BY <1>2 DEF IInv, DiskInv
<1>8. slot_buf' \subseteq DataCluster
  BY <1>6, <1>7, ClusterFacts, ClusterAssumption DEF FreeClusters, Reserved
<1>9. \A c \in slot_buf' : fat_disk[c] = FAT32_FAT_EMPTY_ENTRY
  BY <1>2, <1>6 DEF FreeClusters
<1>10. NotInUse(slot_buf')
  BY <1>9 DEF NotInUse, IInv, DiskInv, DiskChains
<1>11. IsFiniteSet(slot_buf')
  <2>1. IsFiniteSet(DataCluster)
    BY ClusterAssumption, FS_Interval DEF DataCluster
  <2> QED BY <1>8, <2>1, FS_Subset
<1>12. Cardinality(slot_buf') = Required(size)
  BY DEF WriteAccepted, Picked
<1>13. slot_buf' # {}
  BY <1>12, RequiredPositive, FS_EmptySet
<1>14. size = 0 => \E c \in DataCluster : slot_buf' = {c}
  <2> SUFFICES ASSUME size = 0 PROVE \E c \in DataCluster : slot_buf' = {c}
    OBVIOUS
  <2>1. Cardinality(slot_buf') = 1
    BY <1>12 DEF Required
  <2> QED BY <1>8, <1>11, <2>1, FS_Singleton
<1> QED BY <1>2, <1>3, <1>5, <1>8, <1>9, <1>10, <1>13, <1>14

----------------------------------------------------------------------------
(* write. *)

LEMMA LowestLeast ==
  ASSUME NEW S \in SUBSET Int, NEW m \in Lowest(S)
  PROVE  m \in S /\ (\A x \in S : m =< x) /\ Lowest(S) = {m}
<1>1. m \in S /\ (\A x \in S : m =< x)
  BY DEF Lowest
<1>2. ASSUME NEW n \in Lowest(S) PROVE n = m
  <2>1. n \in S /\ n =< m
    BY <1>1 DEF Lowest
  <2>2. m =< n /\ n \in Int /\ m \in Int
    BY <1>1, <2>1
  <2> QED BY <2>1, <2>2
<1> QED BY <1>1, <1>2

\* A step that writes nothing, and leaves the driver mounted or off.
LEMMA DiskStays ==
  ASSUME DiskInv, Formatted, pc' \notin FormatPhase,
         UNCHANGED <<signed, fat_disk, table>>
  PROVE  /\ DiskInv' /\ Formatted' /\ Dirs' = Dirs /\ LiveEntries' = LiveEntries
         /\ \A p \in LiveEntries : At(p)' = At(p) /\ ChainAt(p)' = ChainAt(p)
<1>1. Formatted'
  BY DEF Formatted
<1>2. LiveEntries' = LiveEntries
  BY DEF LiveEntries, At, Place
<1>3. \A d \in Dirs : table'[d] = table[d]
  OBVIOUS
<1>4. \A p \in LiveEntries : \A c \in ChainAt(p) : fat_disk'[c] = fat_disk[c]
  OBVIOUS
<1>5. Ascending(fat_disk') /\ Reserved(fat_disk')
  BY DEF DiskInv
<1>6. \A c \in Cluster, s \in Slot :
        ~ table'[c][s].used => table'[c][s] = NoEntry
  BY DEF DiskInv, UnusedBlank
<1> QED BY <1>1, <1>2, <1>3, <1>4, <1>5, <1>6, DiskFrame

LEMMA WriteFolderSafe ==
  ASSUME IInv, NEW parent \in Opened, NEW name \in Name,
         WriteFolder(parent, name)
  PROVE  IInv' /\ TreeStays
<1> DEFINE init == InitDirectoryTable(name, parent)
<1>1. WriteAccepted(parent, name, 0, NoData)
  BY DEF WriteFolder
<1>2. 0 \in Sizes /\ Fits(0)
  BY SizeAssumption DEF Fits
<1>3. /\ Formatted /\ signed /\ fat = fat_disk /\ parent \in Dirs
      /\ slot' \in Slot \ {0, 1} /\ ~ table[parent][slot'].used
      /\ slot_buf' \subseteq DataCluster /\ NotInUse(slot_buf')
      /\ \A c \in slot_buf' : fat_disk[c] = FAT32_FAT_EMPTY_ENTRY
      /\ \E c \in DataCluster : slot_buf' = {c}
  BY <1>1, <1>2, AcceptedFacts
<1>4. PICK c \in DataCluster : slot_buf' = {c}
  BY <1>3
<1> DEFINE t == [init EXCEPT ![0] = DirEntry(name, c)]
<1>5. WriteCluster(c, t, ZeroChunk)
  BY <1>4 DEF WriteFolder, PutTable
<1>6. TypeOK /\ TypeOK' /\ DiskInv /\ c \in Cluster
  BY WriteFolderType, ParentInCluster, DataFacts DEF IInv
<1>7. t \in Table
  BY <1>6, InitDirectoryTableType, ParentInCluster DEF TypeOK
<1>8. /\ t[0] = DirEntry(name, c)
      /\ t[1] = DirEntry(table[parent][0].name, parent)
      /\ \A s \in Slot \ {0, 1} : t[s] = NoEntry
  BY SlotFacts DEF InitDirectoryTable
<1>9. \A s \in Slot : t[s].used \/ t[s] = NoEntry
  BY <1>8, SlotFacts DEF DirEntry
<1>10. \A s \in Slot \ {0, 1} : ~ t[s].used
  BY <1>8 DEF NoEntry
<1>11. NotInUse({c})
  BY <1>3, <1>4
<1> HIDE DEF t, init
<1>12. /\ LiveEntries' = LiveEntries
       /\ \A d \in Dirs : d # c /\ table'[d] = table[d]
       /\ table' = [table EXCEPT ![c] = t]
       /\ signed' = signed /\ fat_disk' = fat_disk
       /\ \A x \in Cluster, s \in Slot :
            ~ table'[x][s].used => table'[x][s] = NoEntry
  BY <1>3, <1>5, <1>6, <1>7, <1>9, <1>10, <1>11, EmptyTypes, WriteOutside
<1>13. pc' = "mkdir_fat" /\ fat' = fat
  BY DEF WriteFolder
<1>14. Formatted'
  BY <1>3, <1>12, <1>13 DEF Formatted, FormatPhase
<1>15. /\ DiskInv' /\ Dirs' = Dirs
       /\ \A p \in LiveEntries : At(p)' = At(p) /\ ChainAt(p)' = ChainAt(p)
  BY <1>3, <1>6, <1>12, <1>14, DiskFrame DEF DiskInv
<1>16. MemoryInv'
  BY <1>3, <1>12, <1>13 DEF MemoryInv
<1>17. /\ request'.parent = parent /\ request'.name = name
       /\ request'.size = 0 /\ dir_table' = table[parent]
  BY <1>1 DEF WriteAccepted
<1>18. Linked' = {}
  BY <1>13 DEF Linked
<1>19. NotInUse(slot_buf)'
  BY <1>3, <1>12, <1>15 DEF NotInUse
<1>21. WriteInv'
  BY <1>3, <1>4, <1>12, <1>13, <1>15, <1>17, <1>18, <1>19
  DEF WriteInv, WritePhase
<1>22. table'[c] = t
  BY <1>6, <1>12 DEF TypeOK
<1>23. FolderInv'
  BY <1>3, <1>4, <1>6, <1>8, <1>12, <1>13, <1>17, <1>22
  DEF FolderInv, WritePhase
<1> QED BY <1>6, <1>12, <1>13, <1>15, <1>16, <1>21, <1>23
        DEF TreeStays, IInv, DeleteInv, ReadInv

LEMMA WriteFileSafe ==
  ASSUME IInv, NEW parent \in Opened, NEW name \in Name, NEW size \in Sizes,
         NEW data \in Data, Fits(size), WriteFile(parent, name, size, data)
  PROVE  IInv' /\ TreeStays
<1>1. WriteAccepted(parent, name, size, data) /\ size # 0
  BY DEF WriteFile
<1>2. /\ Formatted /\ signed /\ fat = fat_disk /\ parent \in Dirs
      /\ slot' \in Slot \ {0, 1} /\ ~ table[parent][slot'].used
      /\ slot_buf' \subseteq DataCluster /\ slot_buf' # {}
      /\ NotInUse(slot_buf')
      /\ \A c \in slot_buf' : fat_disk[c] = FAT32_FAT_EMPTY_ENTRY
  BY <1>1, AcceptedFacts
<1>3. TypeOK /\ TypeOK' /\ DiskInv
  BY WriteFileType, ParentInCluster DEF IInv
<1>4. /\ pc' = "write_fat" /\ todo' = slot_buf'
      /\ UNCHANGED <<signed, fat_disk, table, fat>>
  BY <1>2 DEF WriteFile, disk
<1>5. /\ DiskInv' /\ Dirs' = Dirs /\ LiveEntries' = LiveEntries
      /\ \A p \in LiveEntries : At(p)' = At(p) /\ ChainAt(p)' = ChainAt(p)
  <2>1. pc' \notin FormatPhase
    BY <1>4 DEF FormatPhase
  <2> QED BY <1>2, <1>3, <1>4, <2>1, DiskStays
<1>6. MemoryInv'
  BY <1>2, <1>4 DEF MemoryInv
<1>7. /\ request'.parent = parent /\ request'.name = name
      /\ request'.size = size /\ dir_table' = table[parent]
  BY <1>1 DEF WriteAccepted
<1>8. Linked' = {}
  BY <1>4 DEF Linked
<1>9. NotInUse(slot_buf)'
  BY <1>2, <1>5 DEF NotInUse
<1>10. WriteInv'
  BY <1>1, <1>2, <1>4, <1>5, <1>7, <1>8, <1>9 DEF WriteInv, WritePhase
<1>11. FolderInv'
  BY <1>1, <1>7 DEF FolderInv
<1> QED BY <1>3, <1>4, <1>5, <1>6, <1>10, <1>11
        DEF TreeStays, IInv, DeleteInv, ReadInv

\* The cell of a picked cluster is set: to what the chain may hold.
LEMMA SetCell ==
  ASSUME IInv, pc \in WritePhase, NEW c \in slot_buf, NEW next \in Cell,
         next > c, next =< FAT32_FAT_END_OF_FILE,
         fat' = [fat EXCEPT ![c] = next], fat_disk' = fat',
         UNCHANGED <<signed, table>>, pc' \in {"write_data", "write_parent"}
  PROVE  /\ DiskInv' /\ MemoryInv' /\ Dirs' = Dirs /\ LiveEntries' = LiveEntries
         /\ NotInUse(slot_buf)' = (NotInUse(slot_buf'))
         /\ \A p \in LiveEntries : At(p)' = At(p) /\ ChainAt(p)' = ChainAt(p)
         /\ fat_disk' = [fat_disk EXCEPT ![c] = next] /\ c \in DataCluster
<1>1. TypeOK /\ DiskInv /\ Formatted /\ Formatted' /\ fat = fat_disk
  BY MountedIsFormatted
  DEF IInv, Mounted, FormatPhase, WritePhase, MemoryInv, CoherentPhase,
      Formatted
<1>2. c \in DataCluster /\ c \in Cluster /\ NotInUse(slot_buf)
  BY DataFacts DEF IInv, WriteInv
<1>3. fat_disk' = [fat_disk EXCEPT ![c] = next]
  BY <1>1
<1>4. LiveEntries' = LiveEntries
  BY DEF LiveEntries, At, Place
<1>5. \A p \in LiveEntries : \A x \in ChainAt(p) : fat_disk'[x] = fat_disk[x]
  BY <1>1, <1>2, <1>3, ChainClosed, DataFacts DEF NotInUse, TypeOK, ChainAt
<1>6. Ascending(fat_disk')
  BY <1>1, <1>2, <1>3, DataFacts DEF Ascending, DiskInv, TypeOK
<1>7. Reserved(fat_disk')
  BY <1>1, <1>2, <1>3, DataFacts, ClusterFacts DEF Reserved, DiskInv, TypeOK
<1>8. \A x \in Cluster, s \in Slot :
        ~ table'[x][s].used => table'[x][s] = NoEntry
  BY <1>1 DEF DiskInv, UnusedBlank
<1>9. /\ DiskInv' /\ Dirs' = Dirs
      /\ \A p \in LiveEntries : At(p)' = At(p) /\ ChainAt(p)' = ChainAt(p)
  BY <1>1, <1>4, <1>5, <1>6, <1>7, <1>8, DiskFrame
<1>10. MemoryInv'
  BY DEF MemoryInv
<1>11. NotInUse(slot_buf)' = NotInUse(slot_buf')
  BY <1>4, <1>9 DEF NotInUse
<1> QED BY <1>2, <1>3, <1>4, <1>9, <1>10, <1>11

LEMMA MkdirFatSafe == ASSUME IInv, MkdirFat PROVE IInv' /\ TreeStays
<1>1. PICK c \in slot_buf : fat' = [fat EXCEPT ![c] = FAT32_FAT_END_OF_FILE]
  BY DEF MkdirFat
<1>2. /\ pc = "mkdir_fat" /\ pc' = "write_parent"
      /\ UNCHANGED <<signed, table, locals>> /\ fat_disk' = fat'
  BY DEF MkdirFat
<1>3. request.size = 0 /\ slot_buf = {c} /\ c \in DataCluster
  BY <1>2 DEF IInv, WriteInv, FolderInv, WritePhase
<1>4. CLUSTER_MAP_SIZE \in Cell /\ CLUSTER_MAP_SIZE > c
  BY <1>3, ClusterAssumption DEF Cell, DataCluster
<1>5. /\ DiskInv' /\ MemoryInv' /\ Dirs' = Dirs /\ LiveEntries' = LiveEntries
      /\ \A p \in LiveEntries : At(p)' = At(p) /\ ChainAt(p)' = ChainAt(p)
      /\ NotInUse(slot_buf)' = NotInUse(slot_buf')
      /\ fat_disk' = [fat_disk EXCEPT ![c] = FAT32_FAT_END_OF_FILE]
  <2>1. pc \in WritePhase /\ pc' \in {"write_data", "write_parent"}
    BY <1>2 DEF WritePhase
  <2>2. CLUSTER_MAP_SIZE =< CLUSTER_MAP_SIZE
    BY ClusterAssumption
  <2>3. UNCHANGED <<signed, table>>
    BY <1>2
  <2> QED BY <1>1, <1>2, <1>4, <2>1, <2>2, <2>3, SetCell
<1>6. TypeOK'
  BY DriverType DEF Driver, IInv
<1>7. fat_disk'[c] = FAT32_FAT_END_OF_FILE
  BY <1>3, <1>5, DataFacts DEF IInv, TypeOK
<1>8. WriteInv'
  <2>1. /\ request.parent \in Dirs /\ request.name \in Name
        /\ dir_table = table[request.parent]
        /\ slot \in Slot \ {0, 1} /\ ~ dir_table[slot].used
        /\ slot_buf \subseteq DataCluster /\ slot_buf # {}
        /\ NotInUse(slot_buf)
    BY <1>2 DEF IInv, WriteInv, WritePhase
  <2>2. UNCHANGED <<request, dir_table, slot, slot_buf>>
    BY <1>2 DEF locals
  <2>3. NotInUse(slot_buf)'
    BY <1>5, <2>1, <2>2
  <2>4. \A x \in slot_buf' :
          /\ x \in Linked' /\ fat_disk'[x] = FAT32_FAT_END_OF_FILE
          /\ fat_disk'[x] > x
    BY <1>2, <1>3, <1>4, <1>7, <2>2 DEF Linked
  <2> QED BY <1>2, <1>5, <2>1, <2>2, <2>3, <2>4 DEF WriteInv
<1>9. FolderInv'
  BY <1>2, <1>3, <1>7, DataFacts DEF FolderInv, WritePhase, IInv, locals
<1> QED BY <1>2, <1>5, <1>6, <1>8, <1>9
        DEF TreeStays, IInv, DeleteInv, ReadInv

LEMMA WriteFatSafe == ASSUME IInv, WriteFat PROVE IInv' /\ TreeStays
<1>1. PICK c \in Lowest(todo), next \in Cell :
        next \in LinkFrom(c) /\ fat' = [fat EXCEPT ![c] = next]
  BY DEF WriteFat
<1>2. /\ pc = "write_fat" /\ pc' = "write_data"
      /\ UNCHANGED <<signed, table, request, dir_table, slot, slot_buf, todo>>
      /\ fat_disk' = fat'
  BY DEF WriteFat, locals
<1>3. /\ request.parent \in Dirs /\ request.name \in Name
      /\ dir_table = table[request.parent]
      /\ slot \in Slot \ {0, 1} /\ ~ dir_table[slot].used
      /\ slot_buf \subseteq DataCluster /\ slot_buf # {}
      /\ NotInUse(slot_buf)
      /\ todo \subseteq slot_buf /\ todo # {} /\ request.size # 0
  BY <1>2 DEF IInv, WriteInv, WritePhase
<1>4. slot_buf \subseteq Int /\ todo \in SUBSET Int
  BY <1>3, DataFacts
<1>5. c \in todo /\ c \in slot_buf /\ Lowest(todo) = {c}
  BY <1>3, <1>4, LowestLeast
<1>6. next \in slot_buf \cup {FAT32_FAT_END_OF_FILE} /\ next > c
      /\ next =< FAT32_FAT_END_OF_FILE
  <2> DEFINE rest == {x \in slot_buf : x > c}
  <2>1. CASE rest = {}
    <3>1. next = CLUSTER_MAP_SIZE
      BY <1>1, <2>1 DEF LinkFrom
    <3> QED BY <1>3, <1>5, <3>1, ClusterAssumption DEF DataCluster
  <2>2. CASE rest # {}
    <3>1. next \in rest
      BY <1>1, <2>2, LowestIn DEF LinkFrom
    <3> QED BY <1>3, <3>1, ClusterAssumption DEF DataCluster
  <2> QED BY <2>1, <2>2
<1>7. /\ DiskInv' /\ MemoryInv' /\ Dirs' = Dirs /\ LiveEntries' = LiveEntries
      /\ \A p \in LiveEntries : At(p)' = At(p) /\ ChainAt(p)' = ChainAt(p)
      /\ NotInUse(slot_buf)' = NotInUse(slot_buf')
      /\ fat_disk' = [fat_disk EXCEPT ![c] = next]
  BY <1>1, <1>2, <1>5, <1>6, SetCell DEF WritePhase
<1>8. TypeOK' /\ fat_disk \in [Cluster -> Cell]
  BY DriverType DEF Driver, IInv, TypeOK
<1>9. NotInUse(slot_buf)'
  BY <1>2, <1>3, <1>7
<1>10. \A x \in slot_buf :
         IF x \in (slot_buf \ todo) \cup {c}
         THEN /\ fat_disk'[x] \in slot_buf \cup {FAT32_FAT_END_OF_FILE}
              /\ fat_disk'[x] > x
         ELSE fat_disk'[x] = FAT32_FAT_EMPTY_ENTRY
  <2> TAKE x \in slot_buf
  <2>1. x \in Cluster /\ c \in Cluster
    BY <1>3, <1>5, DataFacts
  <2>2. IF x \in slot_buf \ todo
        THEN /\ fat_disk[x] \in slot_buf \cup {FAT32_FAT_END_OF_FILE}
             /\ fat_disk[x] > x
        ELSE fat_disk[x] = FAT32_FAT_EMPTY_ENTRY
    BY <1>2 DEF IInv, WriteInv, WritePhase, Linked
  <2>3. CASE x = c
    BY <1>6, <1>7, <1>8, <2>1, <2>3
  <2>4. CASE x # c
    BY <1>7, <1>8, <2>1, <2>2, <2>4
  <2> QED BY <2>3, <2>4
<1>11. Linked' = (slot_buf \ todo) \cup {c}
  BY <1>2, <1>5 DEF Linked, Lowest
<1>12. WriteInv'
  <2>1. \A x \in slot_buf' :
         IF x \in Linked'
         THEN /\ fat_disk'[x] \in slot_buf' \cup {FAT32_FAT_END_OF_FILE}
              /\ fat_disk'[x] > x
         ELSE fat_disk'[x] = FAT32_FAT_EMPTY_ENTRY
    BY <1>2, <1>10, <1>11
  <2> QED BY <1>2, <1>3, <1>7, <1>9, <2>1 DEF WriteInv
<1>13. FolderInv'
  BY <1>2, <1>3 DEF FolderInv
<1> QED BY <1>2, <1>7, <1>8, <1>12, <1>13
        DEF TreeStays, IInv, DeleteInv, ReadInv

LEMMA WriteDataSafe == ASSUME IInv, WriteData PROVE IInv' /\ TreeStays
<1>1. PICK c \in Lowest(todo) :
        /\ PutBytes(c, [data |-> request.data,
                        part |-> Cardinality(slot_buf \ todo) + 1])
        /\ todo' = todo \ {c}
  BY DEF WriteData
<1>2. /\ pc = "write_data"
      /\ pc' = IF todo' = {} THEN "write_parent" ELSE "write_fat"
      /\ UNCHANGED <<fat, request, dir_table, slot, slot_buf>>
  BY DEF WriteData
<1>3. /\ request.parent \in Dirs /\ request.name \in Name
      /\ dir_table = table[request.parent]
      /\ slot \in Slot \ {0, 1} /\ ~ dir_table[slot].used
      /\ slot_buf \subseteq DataCluster /\ slot_buf # {}
      /\ NotInUse(slot_buf)
      /\ todo \subseteq slot_buf /\ todo # {} /\ request.size # 0
  BY <1>2 DEF IInv, WriteInv, WritePhase
<1>4. slot_buf \subseteq Int /\ todo \in SUBSET Int
  BY <1>3, DataFacts
<1>5. c \in todo /\ c \in slot_buf /\ Lowest(todo) = {c} /\ c \in DataCluster
  BY <1>3, <1>4, LowestLeast
<1>6. TypeOK /\ DiskInv /\ Formatted /\ TypeOK'
  BY <1>2, MountedIsFormatted, WriteDataType DEF IInv, Mounted, FormatPhase
<1>7. Cardinality(slot_buf \ todo) \in Nat
  <2>1. IsFiniteSet(Cluster)
    BY ClusterAssumption, FS_Interval DEF Cluster
  <2> QED BY <1>6, <2>1, FS_Subset, FS_CardinalityType DEF TypeOK
<1> DEFINE b == [data |-> request.data,
                 part |-> Cardinality(slot_buf \ todo) + 1]
<1>8. b \in Chunk
  BY <1>6, <1>7 DEF Chunk, TypeOK, Request
<1>9. WriteCluster(c, EmptyTable, b)
  BY <1>1 DEF PutBytes
<1>10. NotInUse({c})
  BY <1>3, <1>5 DEF NotInUse
<1> HIDE DEF b
<1>11. \A s \in Slot : EmptyTable[s] = NoEntry /\ ~ EmptyTable[s].used
  BY DEF EmptyTable, NoEntry
<1>12. /\ LiveEntries' = LiveEntries
       /\ \A d \in Dirs : d # c /\ table'[d] = table[d]
       /\ signed' = signed /\ fat_disk' = fat_disk
       /\ \A x \in Cluster, s \in Slot :
            ~ table'[x][s].used => table'[x][s] = NoEntry
  BY <1>5, <1>6, <1>8, <1>9, <1>10, <1>11, EmptyTypes, WriteOutside
<1>13. Formatted'
  BY <1>2, <1>6, <1>12 DEF Formatted, FormatPhase
<1>14. /\ DiskInv' /\ Dirs' = Dirs
       /\ \A p \in LiveEntries : At(p)' = At(p) /\ ChainAt(p)' = ChainAt(p)
  BY <1>6, <1>12, <1>13, DiskFrame DEF DiskInv
<1>15. MemoryInv'
  BY <1>2, <1>12 DEF IInv, MemoryInv, CoherentPhase
<1>16. NotInUse(slot_buf)'
  BY <1>2, <1>3, <1>12, <1>14 DEF NotInUse
<1>17. Linked' = Linked
  BY <1>1, <1>2, <1>3, <1>5 DEF Linked
<1>18. WriteInv'
  <2>1. \A x \in slot_buf' :
         IF x \in Linked'
         THEN /\ fat_disk'[x] \in slot_buf' \cup {FAT32_FAT_END_OF_FILE}
              /\ fat_disk'[x] > x
         ELSE fat_disk'[x] = FAT32_FAT_EMPTY_ENTRY
    BY <1>2, <1>12, <1>17 DEF IInv, WriteInv, WritePhase
  <2>2. table'[request'.parent] = table[request.parent]
    BY <1>2, <1>3, <1>12
  <2>3. pc' # "mkdir_fat" /\ (pc' = "write_fat" => todo' # {})
    BY <1>2
  <2>4. todo' \subseteq slot_buf'
    BY <1>1, <1>2, <1>3
  <2>5. /\ request'.parent \in Dirs' /\ request'.name \in Name
        /\ dir_table' = table'[request'.parent]
        /\ slot' \in Slot \ {0, 1} /\ ~ dir_table'[slot'].used
        /\ slot_buf' \subseteq DataCluster /\ slot_buf' # {}
        /\ request'.size # 0 /\ pc' # "write_data"
    BY <1>2, <1>3, <1>14, <2>2
  <2> QED BY <1>16, <2>1, <2>3, <2>4, <2>5 DEF WriteInv
<1>19. FolderInv'
  BY <1>2, <1>3 DEF FolderInv
<1> QED BY <1>2, <1>6, <1>12, <1>14, <1>15, <1>18, <1>19
        DEF TreeStays, IInv, DeleteInv, ReadInv

\* One more entry, with a chain of its own.
EntryAdded(q, first) ==
  /\ q \in Place \ LiveEntries /\ q[1] = request.parent /\ q[2] = slot
  /\ LiveEntries' = LiveEntries \cup {q}
  /\ \A p \in LiveEntries : At(p)' = At(p) /\ ChainAt(p)' = ChainAt(p)
  /\ At(q)' = NewEntry(first) /\ ChainAt(q)' = Chain(fat_disk, first)
  /\ \A c \in Cluster, s \in Slot :
       table'[c][s] = IF c = request.parent /\ s = slot
                      THEN NewEntry(first) ELSE table[c][s]

(***************************************************************************)
(* The step that links the new file or folder into the tree.               *)
(***************************************************************************)
LEMMA WriteParentSafe ==
  ASSUME IInv, WriteParent
  PROVE  IInv' /\ \E q \in Place, first \in Lowest(slot_buf) : EntryAdded(q, first)
<1>1. PICK first \in FirstCluster :
        PutTable(request.parent, [dir_table EXCEPT ![slot] = NewEntry(first)])
  BY DEF WriteParent
<1> DEFINE P == request.parent
           e == NewEntry(first)
<1>2. pc = "write_parent" /\ pc' = "idle" /\ fat' = fat
  BY DEF WriteParent, Answer
<1>3. /\ P \in Dirs /\ request.name \in Name
      /\ dir_table = table[P]
      /\ slot \in Slot \ {0, 1} /\ ~ dir_table[slot].used
      /\ slot_buf \subseteq DataCluster /\ slot_buf # {}
      /\ NotInUse(slot_buf)
      /\ \A c \in slot_buf :
           /\ fat_disk[c] \in slot_buf \cup {FAT32_FAT_END_OF_FILE}
           /\ fat_disk[c] > c
  BY <1>2 DEF IInv, WriteInv, WritePhase, Linked
<1>4. TypeOK /\ DiskInv /\ Formatted /\ TypeOK' /\ fat = fat_disk
  BY <1>2, MountedIsFormatted, WriteParentType
  DEF IInv, Mounted, FormatPhase, MemoryInv, CoherentPhase
<1>5. P \in Cluster /\ P # 0 /\ P # 1
  BY <1>3, <1>4, DirFacts
<1>6. first \in slot_buf /\ first \in DataCluster /\ first \in Cluster
  BY <1>1, <1>3, LowestIn, DataFacts DEF FirstCluster
<1>7. /\ table' = [table EXCEPT ![P] = [table[P] EXCEPT ![slot] = e]]
      /\ signed' = signed /\ fat_disk' = fat_disk
  BY <1>1, <1>3, <1>4, <1>5 DEF PutTable, WriteCluster, TypeOK
<1>8. /\ e.name = request.name /\ e.isdir = (request.size = 0) /\ e.used
      /\ e.cluster = first /\ e = NewEntry(first)
  BY DEF NewEntry
<1> HIDE DEF e
<1>9. \A c \in Cluster, s \in Slot :
        table'[c][s] = IF c = P /\ s = slot THEN e ELSE table[c][s]
  BY <1>4, <1>5, <1>3, <1>7 DEF TypeOK, Table
<1>10. PICK q \in Place : q \notin LiveEntries /\ q[1] = P /\ q[2] = slot
  <2>1. <<P, slot>> \in Place /\ <<P, slot>> \notin LiveEntries
    BY <1>3, <1>5 DEF Place, LiveEntries, At
  <2> QED BY <2>1
<1>11. \A p \in Place : p # q => At(p)' = At(p)
  BY <1>9, <1>10 DEF At, Place
<1>12. At(q)' = e
  BY <1>3, <1>5, <1>9, <1>10 DEF At
<1>13. LiveEntries' = LiveEntries \cup {q}
  BY <1>8, <1>10, <1>11, <1>12 DEF LiveEntries
<1>14. \A p \in LiveEntries : At(p)' = At(p) /\ p # q
  BY <1>10, <1>11 DEF LiveEntries
<1>15. \A p \in LiveEntries : ChainAt(p)' = ChainAt(p)
  BY <1>7, <1>14, PrimedChain DEF ChainAt, At
<1>16. ChainAt(q)' = Chain(fat_disk, first)
  BY <1>7, <1>8, <1>12, PrimedChain DEF At
<1>17. ChainAt(q)' \subseteq slot_buf
  <2>1. Closed(fat_disk, slot_buf)
    BY <1>3, ClusterAssumption DEF Closed, DataCluster
  <2>2. Chain(fat_disk, first) \subseteq slot_buf
    BY <1>3, <1>6, <2>1, ChainLeast
  <2> QED BY <1>16, <2>2
<1>18. LiveDirs' = LiveDirs \cup (IF request.size = 0 THEN {q} ELSE {})
  BY <1>8, <1>12, <1>13, <1>14 DEF LiveDirs
<1>19. \A p \in LiveDirs : At(p)' = At(p)
  BY <1>14 DEF LiveDirs
<1>20. Dirs \subseteq Dirs'
  BY <1>18, <1>19 DEF Dirs
<1>21. Formatted'
  BY <1>2, <1>4, <1>7 DEF Formatted, FormatPhase
<1>22. BlankDisk' /\ (Formatted => Ascending(fat_disk) /\ Reserved(fat_disk))'
  BY <1>2, <1>4, <1>7, <1>21
  DEF BlankDisk, DiskInv, Ascending, Reserved, Formatted
<1>23. UnusedBlank'
  BY <1>4, <1>8, <1>9 DEF UnusedBlank, DiskInv
<1>24. \A c \in Cluster, s \in {0, 1} : table'[c][s] = table[c][s]
  BY <1>3, <1>9, SlotFacts
<1>25. RootTable'
  BY <1>4, <1>24, ClusterFacts DEF RootTable, DiskInv
<1>26. LiveNames'
  BY <1>3, <1>4, <1>8, <1>12, <1>13, <1>14 DEF LiveNames, DiskInv
<1>27. ASSUME request.size = 0 PROVE OneClusterDirs' /\ DotEntriesSound'
  <2>1. /\ slot_buf = {first} /\ fat_disk[first] = FAT32_FAT_END_OF_FILE
        /\ table[first][0] = DirEntry(request.name, first)
        /\ table[first][1] = DirEntry(table[P][0].name, P)
    BY <1>2, <1>6, <1>27 DEF IInv, FolderInv, WritePhase
  <2>2. OneClusterDirs'
    BY <1>4, <1>7, <1>8, <1>12, <1>18, <1>19, <2>1
    DEF OneClusterDirs, DiskInv
  <2>3. DotEntriesSound'
    <3>1. \A p \in LiveDirs :
             p[1] \in Cluster /\ At(p).cluster \in Cluster
      BY <1>4, PlaceFacts, LiveCluster, DataFacts DEF LiveDirs
    <3>2. \A p \in LiveDirs :
             /\ table'[At(p).cluster][0] = table[At(p).cluster][0]
             /\ table'[At(p).cluster][1] = table[At(p).cluster][1]
             /\ table'[p[1]][0] = table[p[1]][0]
      BY <1>24, <3>1
    <3>3. table'[first][0] = table[first][0] /\ table'[first][1] = table[first][1]
          /\ table'[P][0] = table[P][0]
      BY <1>5, <1>6, <1>24
    <3>4. ASSUME NEW p \in LiveDirs'
          PROVE  LET self == table'[At(p)'.cluster][0]
                     up   == table'[At(p)'.cluster][1]
                 IN  /\ self.used /\ self.isdir
                     /\ self.name = At(p)'.name
                     /\ self.cluster = At(p)'.cluster
                     /\ up.used /\ up.isdir
                     /\ up.name = table'[p[1]][0].name /\ up.cluster = p[1]
      <4>1. CASE p \in LiveDirs
        BY <1>4, <1>19, <3>2, <4>1 DEF DotEntriesSound, DiskInv
      <4>2. CASE p = q
        BY <1>8, <1>10, <1>12, <2>1, <3>3, <4>2 DEF DirEntry
      <4> QED BY <1>18, <4>1, <4>2
    <3> QED BY <3>4 DEF DotEntriesSound
  <2> QED BY <2>2, <2>3
<1>28. ASSUME request.size # 0 PROVE OneClusterDirs' /\ DotEntriesSound'
  <2>1. LiveDirs' = LiveDirs
    BY <1>18, <1>28
  <2>2. OneClusterDirs'
    BY <1>4, <1>7, <1>19, <2>1 DEF OneClusterDirs, DiskInv
  <2>3. DotEntriesSound'
    <3>1. \A p \in LiveDirs :
             p[1] \in Cluster /\ At(p).cluster \in Cluster
      BY <1>4, PlaceFacts, LiveCluster, DataFacts DEF LiveDirs
    <3>2. \A p \in LiveDirs :
             /\ table'[At(p).cluster][0] = table[At(p).cluster][0]
             /\ table'[At(p).cluster][1] = table[At(p).cluster][1]
             /\ table'[p[1]][0] = table[p[1]][0]
      BY <1>24, <3>1
    <3> QED BY <1>4, <1>19, <2>1, <3>2 DEF DotEntriesSound, DiskInv
  <2> QED BY <1>28, <2>2, <2>3
<1>29. OneClusterDirs' /\ DotEntriesSound'
  BY <1>27, <1>28
<1>30. DiskChains'
  <2>1. \A c \in slot_buf : fat_disk[c] # FAT32_FAT_EMPTY_ENTRY
    BY <1>3, DataFacts DEF DataCluster
  <2> QED BY <1>4, <1>6, <1>7, <1>8, <1>12, <1>13, <1>14, <1>15, <1>17, <2>1
          DEF DiskChains, DiskInv
<1>31. NoCrossLinks'
  <2>1. \A p \in LiveEntries : ChainAt(p)' \cap ChainAt(q)' = {}
    BY <1>3, <1>15, <1>17 DEF NotInUse
  <2> QED BY <1>4, <1>13, <1>15, <2>1 DEF NoCrossLinks, DiskInv
<1>32. DirectoriesLinked'
  BY <1>3, <1>4, <1>10, <1>13, <1>20 DEF DirectoriesLinked, DiskInv
<1>33. DiskInv'
  BY <1>22, <1>23, <1>25, <1>26, <1>29, <1>30, <1>31, <1>32 DEF DiskInv
<1>34. MemoryInv'
  BY <1>2, <1>4, <1>7 DEF MemoryInv
<1>35. first \in Lowest(slot_buf)
  BY <1>3 DEF FirstCluster
<1>36. EntryAdded(q, first)
  BY <1>8, <1>9, <1>10, <1>12, <1>13, <1>14, <1>15, <1>16 DEF EntryAdded
<1>37. IInv'
  BY <1>2, <1>4, <1>33, <1>34
  DEF IInv, WriteInv, FolderInv, WritePhase, DeleteInv, ReadInv
<1> QED BY <1>35, <1>36, <1>37

----------------------------------------------------------------------------
(* delete. *)

\* An entry of a folder that a client may name, and is not the folder's own,
\* is in use.
LEMMA MatchedUsed ==
  ASSUME IInv, Formatted, NEW parent \in Dirs, NEW name \in Name,
         NEW i \in Lowest(Matches(table[parent], name))
  PROVE  i \in Slot /\ table[parent][i].name = name /\ table[parent][i].used
<1>1. i \in Slot /\ table[parent][i].name = name
  BY LowestIn DEF Matches
<1>2. table[parent][i].used
  <2>1. parent \in Cluster /\ DiskInv
    BY DirFacts DEF IInv
  <2>2. ~ table[parent][i].used => table[parent][i].name = ZeroName
    BY <1>1, <2>1 DEF DiskInv, UnusedBlank, NoEntry
  <2> QED BY <1>1, <2>2, NameAssumption
<1> QED BY <1>1, <1>2

\* What delete matches, if it is not the folder's own name, is no dot entry:
\* the parent of a folder holds that folder, so it is not empty.
LEMMA DeletedIsLive ==
  ASSUME IInv, Formatted, NEW parent \in Dirs, NEW name \in Name,
         ~ OwnName(parent, name),
         NEW i \in Lowest(Matches(table[parent], name)),
         /\ table[parent][i].isdir /\ table[parent][i].cluster \in Cluster
         => ~ NonEmptyDirectory(table[table[parent][i].cluster])
  PROVE  i \in Slot \ {0, 1} /\ <<parent, i>> \in LiveEntries
<1>1. i \in Slot /\ table[parent][i].name = name /\ table[parent][i].used
  BY MatchedUsed
<1>2. parent \in Cluster /\ DiskInv
  BY DirFacts DEF IInv
<1>3. i # 0
  BY <1>1 DEF OwnName
<1>4. i # 1
  <2>1. CASE parent = 2
    BY <1>1, <1>2, <2>1 DEF OwnName, DiskInv, RootTable
  <2>2. CASE parent # 2
    <3>1. PICK p \in LiveDirs : At(p).cluster = parent
      BY <2>2 DEF Dirs
    <3>2. /\ table[parent][1].isdir /\ table[parent][1].cluster = p[1]
      BY <1>2, <3>1 DEF DiskInv, DotEntriesSound
    <3>3. p[1] \in Cluster /\ p[2] \in Slot \ {0, 1} /\ table[p[1]][p[2]].used
      BY <3>1, PlaceFacts DEF LiveDirs
    <3>4. NonEmptyDirectory(table[p[1]])
      BY <3>3 DEF NonEmptyDirectory
    <3> QED BY <3>2, <3>3, <3>4
  <2> QED BY <2>1, <2>2
<1>5. <<parent, i>> \in LiveEntries
  BY <1>1, <1>2, <1>3, <1>4 DEF LiveEntries, At, Place
<1> QED BY <1>1, <1>3, <1>4, <1>5

\* One entry less.
EntryRemoved(q, parent) ==
  /\ q \in LiveEntries /\ q[1] = parent
  /\ LiveEntries' = LiveEntries \ {q}
  /\ \A p \in LiveEntries' : At(p)' = At(p) /\ ChainAt(p)' = ChainAt(p)
  /\ cur' = At(q).cluster
  /\ At(q).isdir => ~ NonEmptyDirectory(table[At(q).cluster])
  /\ \A c \in Cluster, s \in Slot :
       table'[c][s] = IF <<c, s>> = q THEN NoEntry ELSE table[c][s]

(***************************************************************************)
(* The step that takes the file or folder out of the tree.                 *)
(***************************************************************************)
LEMMA DeleteEntrySafe ==
  ASSUME IInv, NEW parent \in Opened, NEW name \in Name,
         ~ OwnName(parent, name), DeleteEntry(parent, name)
  PROVE  /\ IInv'
         /\ \E q \in LiveEntries :
              EntryRemoved(q, parent) /\ At(q).name = name
<1>1. PICK i \in Lowest(Matches(table[parent], name)) :
        /\ table[parent][i].isdir /\ table[parent][i].cluster \in Cluster
           => ~ NonEmptyDirectory(table[table[parent][i].cluster])
        /\ PutTable(parent, [table[parent] EXCEPT ![i] = NoEntry])
        /\ cur' = table[parent][i].cluster
  BY DEF DeleteEntry
<1>2. /\ pc = "idle" /\ pc' = "delete_walk" /\ fat' = fat
      /\ parent \in Dirs
  BY DEF DeleteEntry, Opened
<1>3. TypeOK /\ DiskInv /\ Formatted /\ TypeOK' /\ fat = fat_disk
  BY <1>2, MountedIsFormatted, DeleteEntryType, ParentInCluster
  DEF IInv, Mounted, FormatPhase, MemoryInv, CoherentPhase
<1>4. i \in Slot \ {0, 1} /\ <<parent, i>> \in LiveEntries
  BY <1>1, <1>2, <1>3, DeletedIsLive
<1>5. PICK q \in LiveEntries : q = <<parent, i>>
  BY <1>4
<1>6. parent \in Cluster /\ parent # 0 /\ parent # 1
  BY <1>2, <1>3, DirFacts
<1>7. /\ table' = [table EXCEPT ![parent] =
                     [table[parent] EXCEPT ![i] = NoEntry]]
      /\ signed' = signed /\ fat_disk' = fat_disk
  BY <1>1, <1>3, <1>6 DEF PutTable, WriteCluster, TypeOK
<1>8. \A c \in Cluster, s \in Slot :
        table'[c][s] = IF c = parent /\ s = i THEN NoEntry ELSE table[c][s]
  BY <1>3, <1>4, <1>6, <1>7 DEF TypeOK, Table
<1>9. q[1] = parent /\ q[2] = i /\ q \in Place
  BY <1>5 DEF LiveEntries
<1>10. \A p \in Place : p # q => At(p)' = At(p)
  BY <1>8, <1>9 DEF At, Place
<1>11. LiveEntries' = LiveEntries \ {q}
  <2>1. ~ At(q)'.used
    BY <1>4, <1>6, <1>8, <1>9 DEF At, NoEntry
  <2> QED BY <1>10, <2>1 DEF LiveEntries
<1>12. \A p \in LiveEntries' : At(p)' = At(p) /\ p \in LiveEntries
  BY <1>10, <1>11 DEF LiveEntries
<1>13. \A p \in LiveEntries' : ChainAt(p)' = ChainAt(p)
  BY <1>7, <1>12, PrimedChain DEF ChainAt, At
<1>14. LiveDirs' = LiveDirs \ {q}
  BY <1>11, <1>12 DEF LiveDirs
<1>15. Formatted'
  BY <1>2, <1>3, <1>7 DEF Formatted, FormatPhase
<1>16. BlankDisk' /\ (Formatted => Ascending(fat_disk) /\ Reserved(fat_disk))'
  BY <1>2, <1>3, <1>7, <1>15
  DEF BlankDisk, DiskInv, Ascending, Reserved, Formatted
<1>17. UnusedBlank'
  BY <1>3, <1>8 DEF UnusedBlank, DiskInv
<1>18. \A c \in Cluster, s \in {0, 1} : table'[c][s] = table[c][s]
  BY <1>4, <1>8, SlotFacts
<1>19. RootTable'
  BY <1>3, <1>18, ClusterFacts DEF RootTable, DiskInv
<1>20. LiveNames' /\ DiskChains'
  BY <1>3, <1>7, <1>12, <1>13 DEF LiveNames, DiskChains, DiskInv
<1>21. OneClusterDirs'
  BY <1>3, <1>7, <1>12, <1>14 DEF OneClusterDirs, DiskInv, LiveDirs
<1>22. NoCrossLinks'
  BY <1>3, <1>12, <1>13 DEF NoCrossLinks, DiskInv
<1>23. DirectoriesLinked'
  <2> SUFFICES ASSUME NEW p \in LiveEntries' PROVE p[1] \in Dirs'
    BY DEF DirectoriesLinked
  <2>1. p[1] \in Dirs /\ p[1] \in Cluster /\ p[2] \in Slot \ {0, 1}
        /\ table[p[1]][p[2]].used
    BY <1>3, <1>12, PlaceFacts DEF DirectoriesLinked, DiskInv
  <2>2. CASE p[1] = 2
    BY <2>1, <2>2 DEF Dirs
  <2>3. CASE p[1] # 2
    <3>1. PICK r \in LiveDirs : At(r).cluster = p[1]
      BY <2>1, <2>3 DEF Dirs
    <3>2. r # q
      <4>1. NonEmptyDirectory(table[p[1]])
        BY <2>1 DEF NonEmptyDirectory
      <4>2. SUFFICES ASSUME r = q PROVE FALSE
        OBVIOUS
      <4>3. table[parent][i].isdir /\ table[parent][i].cluster = p[1]
        BY <1>9, <3>1, <4>2 DEF LiveDirs, At
      <4> QED BY <1>1, <2>1, <4>1, <4>3
    <3>3. r \in LiveDirs' /\ At(r)' = At(r)
      BY <1>10, <1>14, <3>1, <3>2 DEF LiveDirs, LiveEntries
    <3> QED BY <2>1, <3>1, <3>3 DEF Dirs
  <2> QED BY <2>2, <2>3
<1>24. DotEntriesSound'
  <2>1. \A p \in LiveDirs : p[1] \in Cluster /\ At(p).cluster \in Cluster
    BY <1>3, PlaceFacts, LiveCluster, DataFacts DEF LiveDirs
  <2>2. \A p \in LiveDirs :
           /\ table'[At(p).cluster][0] = table[At(p).cluster][0]
           /\ table'[At(p).cluster][1] = table[At(p).cluster][1]
           /\ table'[p[1]][0] = table[p[1]][0]
    BY <1>18, <2>1
  <2>3. \A p \in LiveDirs' : p \in LiveDirs /\ At(p)' = At(p)
    BY <1>12, <1>14 DEF LiveDirs
  <2> QED BY <1>3, <2>2, <2>3 DEF DotEntriesSound, DiskInv
<1>25. DiskInv'
  BY <1>16, <1>17, <1>19, <1>20, <1>21, <1>22, <1>23, <1>24 DEF DiskInv
<1>26. MemoryInv'
  BY <1>2 DEF MemoryInv, CoherentPhase
<1>27. DeleteInv'
  <2> DEFINE D == ChainAt(q)
  <2>1. D \subseteq DataCluster /\ Closed(fat_disk, D)
    BY ChainClosed DEF ChainAt
  <2>2. cur' \in D
    BY <1>1, <1>3, <1>9, LiveCluster DEF At
  <2>3. \A c \in D : fat_disk[c] # FAT32_FAT_EMPTY_ENTRY
    BY <1>3 DEF DiskInv, DiskChains
  <2>4. \A p \in LiveEntries' : ChainAt(p)' \cap D = {}
    BY <1>3, <1>11, <1>13 DEF DiskInv, NoCrossLinks
  <2>5. PICK E \in SUBSET DataCluster : E = D
    BY <2>1
  <2>6. NotInUse(E)'
    BY <2>4, <2>5 DEF NotInUse
  <2>7. Closed(fat_disk, E)'
    BY <1>7, <2>1, <2>5 DEF Closed
  <2> HIDE DEF D
  <2> QED BY <1>2, <1>3, <1>7, <2>2, <2>3, <2>5, <2>6, <2>7 DEF DeleteInv
<1>28. EntryRemoved(q, parent)
  <2>1. \A c, s : <<c, s>> = q <=> c = parent /\ s = i
    BY <1>5
  <2>2. At(q).isdir => ~ NonEmptyDirectory(table[At(q).cluster])
    <3>1. At(q) = table[parent][i] /\ At(q).cluster \in Cluster
      BY <1>3, <1>9, LiveCluster, DataFacts DEF At
    <3> QED BY <1>1, <3>1
  <2> QED BY <1>1, <1>8, <1>9, <1>11, <1>12, <1>13, <2>1, <2>2
          DEF EntryRemoved, At
<1>29. At(q).name = name
  BY <1>9, LowestIn DEF At, Matches
<1> QED BY <1>2, <1>3, <1>25, <1>26, <1>27, <1>28, <1>29
        DEF IInv, WriteInv, FolderInv, WritePhase, ReadInv

LEMMA DeleteWalkSafe == ASSUME IInv, DeleteWalk PROVE IInv' /\ TreeStays
<1>1. pc = "delete_walk"
  BY DEF DeleteWalk
<1>2. PICK D \in SUBSET DataCluster :
        /\ Closed(fat_disk, D) /\ NotInUse(D)
        /\ \A c \in D : fat_disk[c] # FAT32_FAT_EMPTY_ENTRY
        /\ \A c \in Cluster :
             fat[c] # fat_disk[c] => c \in D /\ fat[c] = FAT32_FAT_EMPTY_ENTRY
        /\ cur \in D /\ \A c \in Cluster : c >= cur => fat[c] = fat_disk[c]
  BY <1>1 DEF IInv, DeleteInv
<1>3. TypeOK /\ DiskInv /\ Formatted /\ TypeOK'
  BY <1>1, MountedIsFormatted, DeleteWalkType DEF IInv, Mounted, FormatPhase
<1>4. cur \in DataCluster /\ cur \in Cluster /\ cur \in Int
  BY <1>2, DataFacts
<1>5. /\ cur' = fat[cur] /\ fat' = [fat EXCEPT ![cur] = FAT32_FAT_EMPTY_ENTRY]
      /\ WriteCluster(cur, EmptyTable, ZeroChunk)
      /\ pc' = IF fat[cur] = FAT32_FAT_END_OF_FILE
               THEN "delete_fat" ELSE "delete_walk"
  BY <1>4 DEF DeleteWalk, PutTable
<1>6. NotInUse({cur})
  BY <1>2 DEF NotInUse
<1>7. \A s \in Slot : EmptyTable[s] = NoEntry /\ ~ EmptyTable[s].used
  BY DEF EmptyTable, NoEntry
<1>8. /\ LiveEntries' = LiveEntries
      /\ \A d \in Dirs : d # cur /\ table'[d] = table[d]
      /\ signed' = signed /\ fat_disk' = fat_disk
      /\ \A x \in Cluster, s \in Slot :
           ~ table'[x][s].used => table'[x][s] = NoEntry
  BY <1>3, <1>4, <1>5, <1>6, <1>7, EmptyTypes, WriteOutside
<1>9. Formatted'
  BY <1>3, <1>5, <1>8 DEF Formatted, FormatPhase
<1>10. /\ DiskInv' /\ Dirs' = Dirs
       /\ \A p \in LiveEntries : At(p)' = At(p) /\ ChainAt(p)' = ChainAt(p)
  BY <1>3, <1>8, <1>9, DiskFrame DEF DiskInv
<1>11. NotInUse(D)' /\ Closed(fat_disk, D)'
  BY <1>2, <1>8, <1>10 DEF NotInUse, Closed
<1>12. \A c \in Cluster :
         fat'[c] # fat_disk'[c] => c \in D /\ fat'[c] = FAT32_FAT_EMPTY_ENTRY
  BY <1>2, <1>3, <1>4, <1>5, <1>8 DEF TypeOK
<1>13. fat[cur] = fat_disk[cur] /\ cur < fat[cur]
       /\ fat[cur] =< FAT32_FAT_END_OF_FILE
  <2>1. fat[cur] = fat_disk[cur] /\ fat_disk[cur] # FAT32_FAT_EMPTY_ENTRY
    BY <1>2, <1>4
  <2> QED BY <1>3, <1>4, <2>1 DEF DiskInv, Ascending
<1>14. fat[cur] # FAT32_FAT_END_OF_FILE =>
         fat[cur] \in D /\ \A c \in Cluster : c >= fat[cur] => fat'[c] = fat_disk'[c]
  <2> SUFFICES ASSUME fat[cur] # FAT32_FAT_END_OF_FILE
               PROVE  /\ fat[cur] \in D
                      /\ \A c \in Cluster : c >= fat[cur] => fat'[c] = fat_disk'[c]
    OBVIOUS
  <2>1. fat[cur] \in Int
    BY <1>3, <1>4, ClusterAssumption DEF TypeOK, Cell
  <2>2. fat[cur] \in DataCluster
    BY <1>4, <1>13, <2>1, ClusterAssumption DEF DataCluster
  <2>3. fat[cur] \in D
    BY <1>2, <1>13, <2>2 DEF Closed
  <2>4. ASSUME NEW c \in Cluster, c >= fat[cur]
        PROVE  fat'[c] = fat_disk'[c]
    <3>1. c \in Int /\ c # cur /\ c >= cur
      BY <1>4, <1>13, <2>1, <2>4, ClusterFacts
    <3> QED BY <1>2, <1>3, <1>5, <1>8, <3>1 DEF TypeOK
  <2> QED BY <2>3, <2>4
<1>15. DeleteInv'
  <2>1. D \in SUBSET DataCluster
    OBVIOUS
  <2> QED BY <1>2, <1>5, <1>8, <1>11, <1>12, <1>14, <2>1 DEF DeleteInv
<1>16. MemoryInv'
  BY <1>5 DEF MemoryInv, CoherentPhase
<1> QED BY <1>3, <1>5, <1>8, <1>10, <1>15, <1>16
        DEF TreeStays, IInv, WriteInv, FolderInv, WritePhase, ReadInv

\* A table on the disk each of whose cells is the one it was or the one in
\* memory: what a save of the table leaves, whole or cut short.
LEMMA SavedTable ==
  ASSUME IInv, pc = "delete_fat", pc' \notin FormatPhase,
         UNCHANGED <<signed, table>>,
         \A c \in Cluster : fat_disk'[c] \in {fat[c], fat_disk[c]}
  PROVE  DiskInv' /\ TreeStays
<1>1. PICK D \in SUBSET DataCluster :
        /\ NotInUse(D)
        /\ \A c \in Cluster :
             fat[c] # fat_disk[c] => c \in D /\ fat[c] = FAT32_FAT_EMPTY_ENTRY
  BY DEF IInv, DeleteInv
<1>2. TypeOK /\ DiskInv /\ Formatted
  BY MountedIsFormatted DEF IInv, Mounted, FormatPhase
<1>3. Formatted'
  BY <1>2 DEF Formatted
<1>4. LiveEntries' = LiveEntries
  BY DEF LiveEntries, At, Place
<1>5. \A c \in Cluster :
        fat_disk'[c] # fat_disk[c] =>
          c \in D /\ fat_disk'[c] = FAT32_FAT_EMPTY_ENTRY
  BY <1>1
<1>6. \A p \in LiveEntries : \A c \in ChainAt(p) : fat_disk'[c] = fat_disk[c]
  BY <1>1, <1>5, ChainClosed, DataFacts DEF NotInUse, ChainAt
<1>7. Ascending(fat_disk')
  BY <1>2, <1>5, DataFacts DEF Ascending, DiskInv
<1>8. Reserved(fat_disk')
  BY <1>1, <1>2, <1>5, DataFacts, ClusterFacts DEF Reserved, DiskInv
<1>9. \A x \in Cluster, s \in Slot :
        ~ table'[x][s].used => table'[x][s] = NoEntry
  BY <1>2 DEF DiskInv, UnusedBlank
<1> QED BY <1>2, <1>3, <1>4, <1>6, <1>7, <1>8, <1>9, DiskFrame DEF TreeStays

LEMMA DeleteFatSafe == ASSUME IInv, DeleteFat PROVE IInv' /\ TreeStays
<1>1. /\ pc = "delete_fat" /\ pc' = "idle"
      /\ UNCHANGED <<signed, table, fat>> /\ fat_disk' = fat
  BY DEF DeleteFat, Answer
<1>2. DiskInv' /\ TreeStays
  BY <1>1, SavedTable DEF FormatPhase
<1>3. TypeOK'
  BY DriverType DEF Driver, IInv
<1> QED BY <1>1, <1>2, <1>3
        DEF TreeStays, IInv, MemoryInv, WriteInv, FolderInv, WritePhase,
            DeleteInv, ReadInv

----------------------------------------------------------------------------
(* Power losses, and steps that write nothing. *)

LEMMA CrashSafe == ASSUME IInv, Crash \/ TornFat PROVE IInv' /\ TreeStays
<1>1. TypeOK' /\ pc' = "off"
  BY CrashType DEF IInv, Crash, TornFat, PowerLoss, Forget
<1>2. CASE Crash
  <2>1. pc # "off" /\ pc \notin FormatPhase /\ UNCHANGED <<signed, fat_disk, table>>
    BY <1>2 DEF Crash, PowerLoss, disk
  <2>2. DiskInv /\ Formatted
    BY <2>1, MountedIsFormatted DEF IInv, Mounted
  <2>3. pc' \notin FormatPhase
    BY <1>1 DEF FormatPhase
  <2>4. DiskInv' /\ TreeStays
    BY <2>1, <2>2, <2>3, DiskStays DEF TreeStays
  <2> QED BY <1>1, <2>4
          DEF IInv, MemoryInv, CoherentPhase, WriteInv, FolderInv, WritePhase,
              DeleteInv, ReadInv
<1>3. CASE TornFat
  <2>1. pc = "delete_fat" /\ UNCHANGED <<signed, table>>
    BY <1>3 DEF TornFat
  <2>2. \A c \in Cluster : fat_disk'[c] \in {fat[c], fat_disk[c]}
    BY <1>3 DEF TornFat
  <2>3. pc' \notin FormatPhase
    BY <1>1 DEF FormatPhase
  <2>4. DiskInv' /\ TreeStays
    BY <2>1, <2>2, <2>3, SavedTable
  <2> QED BY <1>1, <2>4
          DEF IInv, MemoryInv, CoherentPhase, WriteInv, FolderInv, WritePhase,
              DeleteInv, ReadInv
<1> QED BY <1>2, <1>3

\* An answer that writes nothing, to a request that is turned down or to a
\* finished read.
LEMMA AnswerSafe ==
  ASSUME IInv, pc \in {"idle", "read_walk"}, pc' = "idle", TypeOK',
         UNCHANGED <<disk, fat>>
  PROVE  IInv' /\ TreeStays
<1>1. UNCHANGED <<signed, fat_disk, table>>
  BY DEF disk
<1>2. DiskInv /\ Formatted /\ fat = fat_disk
  BY MountedIsFormatted
  DEF IInv, Mounted, FormatPhase, MemoryInv, CoherentPhase
<1>3. DiskInv' /\ TreeStays
  BY <1>1, <1>2, DiskStays DEF FormatPhase, TreeStays
<1> QED BY <1>1, <1>2, <1>3
        DEF TreeStays, IInv, MemoryInv, WriteInv, FolderInv, WritePhase,
            DeleteInv, ReadInv

LEMMA ReadBeginSafe ==
  ASSUME IInv, NEW parent \in Opened, NEW name \in Name, NEW size \in Sizes,
         ReadBegin(parent, name, size)
  PROVE  /\ IInv' /\ TreeStays
         /\ \E q \in LiveEntries :
              /\ q[1] = parent /\ At(q).name = name /\ ~ At(q).isdir
              /\ size \div CLUSTER_SIZE >= CeilClusters(At(q).size)
              /\ cur' = At(q).cluster
<1>1. PICK i \in Lowest(Matches(table[parent], name)) :
        /\ ~ table[parent][i].isdir /\ cur' = table[parent][i].cluster
        /\ size \div CLUSTER_SIZE >= CeilClusters(table[parent][i].size)
  BY DEF ReadBegin
<1>2. /\ pc = "idle" /\ pc' = "read_walk" /\ parent \in Dirs
      /\ UNCHANGED <<signed, fat_disk, table, fat>>
  BY DEF ReadBegin, Opened, disk
<1>3. DiskInv /\ Formatted /\ fat = fat_disk /\ TypeOK'
  BY <1>2, MountedIsFormatted, ReadBeginType, ParentInCluster
  DEF IInv, Mounted, FormatPhase, MemoryInv, CoherentPhase
<1>4. i \in Slot /\ table[parent][i].used /\ parent \in Cluster
      /\ table[parent][i].name = name
  BY <1>2, <1>3, MatchedUsed, DirFacts
<1>5. i \notin {0, 1}
  <2>1. \A s \in {0, 1} : table[parent][s].isdir
    <3>1. CASE parent = 2
      BY <1>3, <3>1 DEF DiskInv, RootTable
    <3>2. CASE parent # 2
      <4>1. PICK p \in LiveDirs : At(p).cluster = parent
        BY <1>2, <3>2 DEF Dirs
      <4> QED BY <1>3, <4>1 DEF DiskInv, DotEntriesSound
    <3> QED BY <3>1, <3>2
  <2> QED BY <1>1, <2>1
<1>6. PICK q \in LiveEntries : q[1] = parent /\ q[2] = i
  <2>1. <<parent, i>> \in LiveEntries
    BY <1>4, <1>5 DEF LiveEntries, At, Place
  <2> QED BY <2>1
<1>7. pc' \notin FormatPhase
  BY <1>2 DEF FormatPhase
<1>8. /\ DiskInv' /\ Dirs' = Dirs /\ LiveEntries' = LiveEntries
      /\ \A p \in LiveEntries : At(p)' = At(p) /\ ChainAt(p)' = ChainAt(p)
  BY <1>2, <1>3, <1>7, DiskStays
<1>9. cur' \in ChainAt(q)
  BY <1>1, <1>3, <1>6, LiveCluster DEF At
<1>10. ReadInv'
  BY <1>6, <1>8, <1>9 DEF ReadInv
<1>11. /\ q[1] = parent /\ At(q).name = name /\ ~ At(q).isdir
       /\ size \div CLUSTER_SIZE >= CeilClusters(At(q).size)
       /\ cur' = At(q).cluster
  BY <1>1, <1>4, <1>6 DEF At
<1>12. IInv'
  BY <1>2, <1>3, <1>8, <1>10
  DEF IInv, MemoryInv, WriteInv, FolderInv, WritePhase, DeleteInv
<1> QED BY <1>8, <1>11, <1>12 DEF TreeStays

LEMMA ReadClusterSafe == ASSUME IInv, ReadCluster PROVE IInv' /\ TreeStays
<1>1. /\ pc = "read_walk" /\ cur # FAT32_FAT_END_OF_FILE
      /\ UNCHANGED <<signed, fat_disk, table, fat>>
  BY DEF ReadCluster, disk
<1>2. DiskInv /\ Formatted /\ fat = fat_disk /\ TypeOK /\ TypeOK'
  BY <1>1, MountedIsFormatted, DriverType
  DEF IInv, Mounted, FormatPhase, MemoryInv, CoherentPhase, Driver
<1>3. PICK p \in LiveEntries : cur \in ChainAt(p)
  BY <1>1 DEF IInv, ReadInv
<1>4. cur \in DataCluster /\ cur \in Cluster /\ cur \in Int
  BY <1>3, ChainClosed, DataFacts DEF ChainAt
<1>5. pc' = "read_walk" /\ cur' = fat_disk[cur]
  BY <1>1, <1>2, <1>4 DEF ReadCluster
<1>6. fat_disk[cur] # FAT32_FAT_EMPTY_ENTRY
  BY <1>2, <1>3 DEF DiskInv, DiskChains
<1>7. cur < fat_disk[cur] /\ fat_disk[cur] =< FAT32_FAT_END_OF_FILE
      /\ fat_disk[cur] \in Int
  BY <1>2, <1>4, <1>6, ClusterAssumption DEF DiskInv, Ascending, TypeOK, Cell
<1>8. cur' = FAT32_FAT_END_OF_FILE \/ cur' \in ChainAt(p)
  <2>1. CASE fat_disk[cur] = FAT32_FAT_END_OF_FILE
    BY <1>5, <2>1
  <2>2. CASE fat_disk[cur] # FAT32_FAT_END_OF_FILE
    <3>1. fat_disk[cur] \in DataCluster
      BY <1>4, <1>7, <2>2, ClusterAssumption DEF DataCluster
    <3> QED BY <1>3, <1>5, <3>1, ChainClosed DEF ChainAt, Closed
  <2> QED BY <2>1, <2>2
<1>9. pc' \notin FormatPhase
  BY <1>5 DEF FormatPhase
<1>10. /\ DiskInv' /\ Dirs' = Dirs /\ LiveEntries' = LiveEntries
       /\ \A r \in LiveEntries : At(r)' = At(r) /\ ChainAt(r)' = ChainAt(r)
  BY <1>1, <1>2, <1>9, DiskStays
<1>11. ReadInv'
  BY <1>3, <1>8, <1>10 DEF ReadInv
<1> QED BY <1>1, <1>2, <1>5, <1>10, <1>11
        DEF TreeStays, IInv, MemoryInv, WriteInv, FolderInv, WritePhase, DeleteInv

----------------------------------------------------------------------------
(* Power-on. *)

\* Before the format is over there is nothing on the disk.
LEMMA BlankHasNoEntries ==
  ~ Formatted /\ BlankDisk => LiveEntries = {} /\ LiveDirs = {}
<1> SUFFICES ASSUME ~ Formatted, BlankDisk
             PROVE  LiveEntries = {} /\ LiveDirs = {}
  OBVIOUS
<1>1. ASSUME NEW p \in Place PROVE ~ At(p).used
  <2>1. p[1] \in Cluster /\ p[2] \in Slot \ {0, 1}
    BY DEF Place
  <2>2. table[p[1]][p[2]] = NoEntry
    BY <2>1 DEF BlankDisk, EmptyTable
  <2> QED BY <2>2 DEF At, NoEntry
<1> QED BY <1>1 DEF LiveEntries, LiveDirs

LEMMA NoEntriesSound ==
  LiveEntries = {} /\ LiveDirs = {} =>
    /\ LiveNames /\ OneClusterDirs /\ DiskChains /\ NoCrossLinks
    /\ DirectoriesLinked /\ DotEntriesSound
  BY DEF LiveNames, OneClusterDirs, DiskChains, NoCrossLinks,
         DirectoriesLinked, DotEntriesSound

LEMMA BlankIsSound == ~ Formatted /\ BlankDisk => DiskInv
<1>1. ~ Formatted => UnusedBlank /\ RootTable
  BY DEF UnusedBlank, RootTable
<1> QED BY <1>1, BlankHasNoEntries, NoEntriesSound DEF DiskInv

LEMMA BlankIsSoundNext == (~ Formatted)' /\ BlankDisk' => DiskInv'
  BY BlankIsSound, PTL

LEMMA NoEntriesSoundNext ==
  LiveEntries' = {} /\ LiveDirs' = {} =>
    /\ LiveNames' /\ OneClusterDirs' /\ DiskChains' /\ NoCrossLinks'
    /\ DirectoriesLinked' /\ DotEntriesSound'
  BY DEF LiveNames, OneClusterDirs, DiskChains, NoCrossLinks,
         DirectoriesLinked, DotEntriesSound

LEMMA NewFatSound == Ascending(NewFat) /\ Reserved(NewFat)
  BY ClusterFacts, DataFacts DEF NewFat, Ascending, Reserved

LEMMA FormatRootSafe ==
  ASSUME IInv, FormatRoot
  PROVE  IInv' /\ LiveEntries' = {} /\ fat_disk' = NewFat
<1> USE DEF FormatPhase
<1>1. TypeOK /\ TypeOK' /\ DiskInv /\ BlankDisk
  BY BootType DEF IInv, DiskInv, Boot
<1> DEFINE init == InitDirectoryTable(RootName, 2)
<1>2. /\ pc = "format_root" /\ pc' = "idle" /\ fat' = fat
      /\ table' = [table EXCEPT ![2] = init]
      /\ fat_disk' = fat_disk /\ signed' = signed /\ signed
  BY <1>1 DEF FormatRoot, PutTable, WriteCluster, TypeOK, BlankDisk
<1>3. ~ Formatted /\ Formatted' /\ table[2][0].name = RootName
  BY <1>1, <1>2 DEF Formatted, BlankDisk
<1>4. fat = NewFat /\ fat_disk = NewFat
  BY <1>1, <1>2 DEF BlankDisk
<1>5. /\ init[0] = DirEntry(RootName, 0) /\ init[1] = DirEntry(RootName, 2)
      /\ \A s \in Slot \ {0, 1} : init[s] = NoEntry
  BY <1>3, SlotFacts DEF InitDirectoryTable
<1> HIDE DEF init
<1>6. /\ \A c \in Cluster : c # 2 => table'[c] = EmptyTable
      /\ table'[2] = init
  BY <1>1, <1>2, <1>3, ClusterFacts DEF TypeOK, BlankDisk
<1>7. LiveEntries' = {} /\ LiveDirs' = {}
  <2>1. ASSUME NEW p \in Place PROVE ~ At(p)'.used
    <3>1. p[1] \in Cluster /\ p[2] \in Slot \ {0, 1}
      BY DEF Place
    <3>2. table'[p[1]][p[2]] = NoEntry
      BY <1>5, <1>6, <3>1 DEF EmptyTable
    <3> QED BY <3>2 DEF At, NoEntry
  <2> QED BY <2>1 DEF LiveEntries, LiveDirs
<1>8. BlankDisk'
  BY <1>2, <1>3 DEF BlankDisk
<1>9. UnusedBlank'
  <2>1. \A c \in Cluster, s \in Slot :
           table'[c][s].used \/ table'[c][s] = NoEntry
    BY <1>5, <1>6 DEF EmptyTable, DirEntry
  <2> QED BY <2>1 DEF UnusedBlank
<1>10. RootTable'
  BY <1>5, <1>6 DEF RootTable, DirEntry
<1>11. (Formatted => Ascending(fat_disk) /\ Reserved(fat_disk))'
  BY <1>2, <1>4, NewFatSound DEF Ascending, Reserved
<1>12. DiskInv'
  BY <1>7, <1>8, <1>9, <1>10, <1>11, NoEntriesSoundNext DEF DiskInv
<1>13. IInv'
  BY <1>1, <1>2, <1>4, <1>12
  DEF IInv, MemoryInv, WriteInv, FolderInv, WritePhase, DeleteInv, ReadInv
<1> QED BY <1>2, <1>4, <1>7, <1>13

LEMMA BootSafe == ASSUME IInv, Boot PROVE IInv'
<1>1. TypeOK /\ TypeOK' /\ DiskInv /\ BlankDisk
  BY BootType DEF IInv, DiskInv
<1> USE DEF FormatPhase
<1>2. CASE BootFormat
  <2>1. pc' = "format_fat" /\ ~ Formatted /\ (~ Formatted)' /\ table' = table
    BY <1>2 DEF BootFormat, Formatted
  <2>2. BlankDisk'
    BY <1>1, <1>2, <2>1 DEF BlankDisk, BootFormat
  <2> QED BY <1>1, <2>1, <2>2, BlankIsSoundNext
          DEF IInv, MemoryInv, CoherentPhase, WriteInv, FolderInv, WritePhase,
              DeleteInv, ReadInv
<1>3. CASE FormatFat
  <2>1. pc' = "format_name" /\ ~ Formatted /\ (~ Formatted)' /\ table' = table
        /\ fat' = NewFat /\ fat_disk' = NewFat /\ signed' = signed /\ signed
    BY <1>1, <1>3 DEF FormatFat, Formatted, BlankDisk
  <2>2. BlankDisk'
    BY <1>1, <2>1 DEF BlankDisk
  <2> QED BY <1>1, <2>1, <2>2, BlankIsSoundNext
          DEF IInv, MemoryInv, CoherentPhase, WriteInv, FolderInv, WritePhase,
              DeleteInv, ReadInv
<1>4. CASE FormatName
  <2> DEFINE named == [name |-> RootName, isdir |-> FALSE, used |-> FALSE,
                       cluster |-> 0, size |-> 0]
  <2>1. /\ pc = "format_name" /\ pc' = "format_root" /\ fat' = fat
        /\ table' = [table EXCEPT ![2] = [EmptyTable EXCEPT ![0] = named]]
        /\ fat_disk' = fat_disk /\ signed' = signed /\ signed
    BY <1>1, <1>4 DEF FormatName, PutTable, WriteCluster, TypeOK, BlankDisk
  <2>2. ~ Formatted /\ (~ Formatted)'
    BY <2>1 DEF Formatted
  <2>3. /\ \A c \in Cluster : c # 2 => table'[c] = table[c]
        /\ \A s \in Slot \ {0} : table'[2][s] = NoEntry
        /\ table'[2][0].name = RootName /\ ~ table'[2][0].used
    BY <1>1, <2>1, ClusterFacts, SlotFacts DEF TypeOK, EmptyTable
  <2>4. BlankDisk'
    BY <1>1, <2>1, <2>2, <2>3 DEF BlankDisk, NoEntry
  <2> QED BY <1>1, <2>1, <2>2, <2>4, BlankIsSoundNext
          DEF IInv, MemoryInv, CoherentPhase, WriteInv, FolderInv, WritePhase,
              DeleteInv, ReadInv
<1>5. CASE FormatRoot
  BY <1>5, FormatRootSafe
<1>6. CASE BootLoad
  <2>1. /\ Formatted /\ pc' = "idle" /\ fat' = fat_disk
        /\ UNCHANGED <<signed, fat_disk, table>>
    BY <1>6 DEF BootLoad, Formatted, disk
  <2>2. DiskInv'
    BY <1>1, <2>1, DiskStays
  <2> QED BY <1>1, <2>1, <2>2
          DEF IInv, MemoryInv, WriteInv, FolderInv, WritePhase, DeleteInv,
              ReadInv
<1> QED BY <1>2, <1>3, <1>4, <1>5, <1>6 DEF Boot

----------------------------------------------------------------------------
(* The theorems. *)

LEMMA InitSafe == Init => IInv
<1> SUFFICES ASSUME Init PROVE IInv
  OBVIOUS
<1>1. TypeOK
  BY TypeInit
<1>2. ~ Formatted /\ BlankDisk
  BY ClusterFacts, SlotFacts DEF Init, Formatted, BlankDisk, EmptyTable, NoEntry
<1> QED BY <1>1, <1>2, BlankIsSound
        DEF Init, IInv, MemoryInv, CoherentPhase, WriteInv, FolderInv,
            WritePhase, DeleteInv, ReadInv

LEMMA CarefulRequestSafe == ASSUME IInv, CarefulRequest PROVE IInv'
<1>1. TypeOK'
  BY CarefulRequestType DEF IInv
<1>2. ASSUME NEW parent \in Opened, NEW name \in Name, NEW size \in Sizes,
             \/ WriteReject(parent, name, size)
             \/ DeleteReject(parent, name)
             \/ ReadReject(parent, name, size)
      PROVE  IInv'
  <2>1. pc = "idle" /\ pc' = "idle" /\ UNCHANGED <<disk, fat>>
    BY <1>2 DEF WriteReject, DeleteReject, ReadReject, Answer
  <2> QED BY <1>1, <2>1, AnswerSafe
<1>3. ASSUME NEW parent \in Dirs, NEW name \in Name, NEW roomy \in BOOLEAN,
             ReadDirectory(parent, name, roomy)
      PROVE  IInv'
  <2>1. pc = "idle" /\ pc' = "idle" /\ UNCHANGED <<disk, fat>>
    BY <1>3 DEF ReadDirectory, Answer
  <2> QED BY <1>1, <2>1, AnswerSafe
<1>4. 0 \in Sizes
  BY SizeAssumption
<1> QED BY <1>2, <1>3, <1>4, WriteFileSafe, WriteFolderSafe, DeleteEntrySafe,
           ReadBeginSafe
        DEF CarefulRequest

LEMMA DriverSafe == ASSUME IInv, Driver PROVE IInv'
<1>1. CASE ReadDone
  <2>1. pc = "read_walk" /\ pc' = "idle" /\ UNCHANGED <<disk, fat>>
    BY <1>1 DEF ReadDone, Answer
  <2>2. TypeOK'
    BY DriverType DEF IInv
  <2> QED BY <2>1, <2>2, AnswerSafe
<1> QED BY <1>1, MkdirFatSafe, WriteFatSafe, WriteDataSafe, WriteParentSafe,
           DeleteWalkSafe, DeleteFatSafe, ReadClusterSafe
        DEF Driver

LEMMA StutterSafe ==
  ASSUME IInv, UNCHANGED vars
  PROVE  IInv'
<1>1. UNCHANGED <<signed, fat_disk, table, bytes, fat, pc, request, dir_table,
                  slot, slot_buf, todo, cur, out, listing, reply, crashes>>
  BY DEF vars, disk, locals
<1>2. TypeOK'
  BY <1>1 DEF IInv, TypeOK
<1>3. CASE Formatted
  <2>1. /\ DiskInv' /\ Dirs' = Dirs /\ LiveEntries' = LiveEntries
        /\ \A p \in LiveEntries : ChainAt(p)' = ChainAt(p)
    BY <1>1, <1>3, DiskStays DEF IInv, Formatted
  <2>2. Linked' = Linked /\ NotInUse(slot_buf)' = NotInUse(slot_buf)
    BY <1>1, <2>1 DEF Linked, Lowest, NotInUse
  <2>3. MemoryInv'
    BY <1>1 DEF IInv, MemoryInv
  <2>4. WriteInv'
    BY <1>1, <2>1, <2>2 DEF IInv, WriteInv
  <2>5. FolderInv'
    BY <1>1 DEF IInv, FolderInv
  <2>6. DeleteInv'
    <3>1. SUFFICES ASSUME pc \in {"delete_walk", "delete_fat"} PROVE DeleteInv'
      BY <1>1 DEF DeleteInv
    <3>2. PICK D \in SUBSET DataCluster :
       /\ Closed(fat_disk, D) /\ NotInUse(D)
       /\ \A c \in D : fat_disk[c] # FAT32_FAT_EMPTY_ENTRY
       /\ \A c \in Cluster :
            fat[c] # fat_disk[c] => c \in D /\ fat[c] = FAT32_FAT_EMPTY_ENTRY
       /\ pc = "delete_walk" =>
            cur \in D /\ \A c \in Cluster : c >= cur => fat[c] = fat_disk[c]
      BY <3>1 DEF IInv, DeleteInv
    <3>3. NotInUse(D)' /\ Closed(fat_disk, D)'
      BY <1>1, <2>1, <3>2 DEF NotInUse, Closed
    <3> QED BY <1>1, <3>2, <3>3 DEF DeleteInv
  <2>7. ReadInv'
    BY <1>1, <2>1 DEF IInv, ReadInv
  <2> QED BY <1>2, <2>1, <2>3, <2>4, <2>5, <2>6, <2>7 DEF IInv
<1>4. CASE ~ Formatted
  <2>1. (~ Formatted)' /\ BlankDisk'
    BY <1>1, <1>4 DEF IInv, DiskInv, BlankDisk, Formatted
  <2>2. DiskInv'
    BY <2>1, BlankIsSoundNext
  <2>3. pc \in FormatPhase \cup {"off"}
    BY <1>4 DEF Formatted, IInv, DiskInv, BlankDisk
  <2> QED BY <1>1, <1>2, <2>2, <2>3
          DEF IInv, MemoryInv, CoherentPhase, FormatPhase, WriteInv, FolderInv,
              WritePhase, DeleteInv, ReadInv
<1> QED BY <1>3, <1>4

LEMMA SafetyStep == IInv /\ [Next]_vars => IInv'
<1> SUFFICES ASSUME IInv, [Next]_vars PROVE IInv'
  OBVIOUS
<1>1. CASE Next
  BY <1>1, BootSafe, CarefulRequestSafe, DriverSafe, CrashSafe DEF Next
<1>2. CASE UNCHANGED vars
  BY <1>2, StutterSafe
<1> QED BY <1>1, <1>2

(***************************************************************************)
(* The inductive invariant: what each phase of an operation has done and   *)
(* still owes the disk, and what is true of the disk at every instant.     *)
(***************************************************************************)
THEOREM Safety == Spec => []IInv
BY SafetyStep, InitSafe, PTL DEF Spec

(***************************************************************************)
(* The reserved cells are never disturbed and every link goes up, on the   *)
(* disk and in memory (count_empty_fat_slots, write, delete).              *)
(***************************************************************************)
THEOREM FatStaysFormed == Spec => []FatFormed
<1>1. IInv => FatFormed
  <2> SUFFICES ASSUME IInv, Mounted PROVE Ascending(fat) /\ Reserved(fat)
    BY DEF IInv, DiskInv, FatFormed
  <2>1. Ascending(fat_disk) /\ Reserved(fat_disk)
    BY MountedIsFormatted DEF IInv, DiskInv
  <2>2. CASE pc \in CoherentPhase
    BY <2>1, <2>2 DEF IInv, MemoryInv
  <2>3. CASE pc \notin CoherentPhase
    <3>1. pc \in {"delete_walk", "delete_fat"}
      BY <2>3 DEF IInv, TypeOK, Phase, MemoryInv, CoherentPhase, Mounted,
                  FormatPhase
    <3>2. PICK D \in SUBSET DataCluster :
             \A c \in Cluster :
               fat[c] # fat_disk[c] => c \in D /\ fat[c] = FAT32_FAT_EMPTY_ENTRY
      BY <3>1 DEF IInv, DeleteInv
    <3>3. Ascending(fat)
      BY <2>1, <3>2, DataFacts DEF Ascending
    <3>4. Reserved(fat)
      BY <2>1, <3>2, DataFacts, ClusterFacts DEF Reserved
    <3> QED BY <3>3, <3>4
  <2> QED BY <2>2, <2>3
<1> QED BY <1>1, Safety, PTL

(***************************************************************************)
(* An idle driver has saved its table: no return of write or delete leaves *)
(* the memory and the disk apart.                                          *)
(***************************************************************************)
THEOREM CacheStaysCoherent == Spec => []CacheCoherent
<1>1. IInv => CacheCoherent
  BY DEF IInv, MemoryInv, CoherentPhase, CacheCoherent
<1> QED BY <1>1, Safety, PTL

(***************************************************************************)
(* Every cluster an entry reaches is allocated, on the disk at every       *)
(* instant, power losses included, and in memory while power is on (the    *)
(* order of the writes in write and delete).                               *)
(***************************************************************************)
THEOREM ChainsStayAllocated == Spec => []ChainsAllocated
<1>1. IInv => ChainsAllocated
  <2> SUFFICES ASSUME IInv, NEW p \in LiveEntries
               PROVE  /\ At(p).cluster \in DataCluster
                      /\ \A c \in ChainAt(p) :
                            /\ fat_disk[c] # FAT32_FAT_EMPTY_ENTRY
                            /\ Mounted => fat[c] = fat_disk[c]
    BY DEF ChainsAllocated
  <2>1. /\ At(p).cluster \in DataCluster
        /\ \A c \in ChainAt(p) : fat_disk[c] # FAT32_FAT_EMPTY_ENTRY
    BY DEF IInv, DiskInv, DiskChains
  <2>2. ASSUME NEW c \in ChainAt(p), Mounted PROVE fat[c] = fat_disk[c]
    <3>1. CASE pc \in CoherentPhase
      BY <3>1 DEF IInv, MemoryInv
    <3>2. CASE pc \notin CoherentPhase
      <4>1. pc \in {"delete_walk", "delete_fat"}
        BY <2>2, <3>2 DEF IInv, TypeOK, Phase, MemoryInv, CoherentPhase,
                          Mounted, FormatPhase
      <4>2. PICK D \in SUBSET DataCluster :
               NotInUse(D) /\ \A x \in Cluster : fat[x] # fat_disk[x] => x \in D
        BY <4>1 DEF IInv, DeleteInv
      <4>3. c \in Cluster /\ c \notin D
        BY <4>2, ChainClosed, DataFacts DEF ChainAt, NotInUse
      <4> QED BY <4>2, <4>3
    <3> QED BY <3>1, <3>2
  <2> QED BY <2>1, <2>2
<1> QED BY <1>1, Safety, PTL

(***************************************************************************)
(* No two entries of the disk ever share a cluster, however clusters are   *)
(* freed, handed out again and lost (delete, count_empty_fat_slots).       *)
(***************************************************************************)
THEOREM FilesStayApart == Spec => []NoCrossLinks
<1>1. IInv => NoCrossLinks
  BY DEF IInv, DiskInv
<1> QED BY <1>1, Safety, PTL

(***************************************************************************)
(* No directory is deleted from under what it holds (the test of delete    *)
(* that a folder is empty).                                                *)
(***************************************************************************)
THEOREM TreeStaysLinked == Spec => []DirectoriesLinked
<1>1. IInv => DirectoriesLinked
  BY DEF IInv, DiskInv
<1> QED BY <1>1, Safety, PTL

(***************************************************************************)
(* Entry 0 of a folder is about the folder and entry 1 about the folder    *)
(* that links it (init_directory_table, write, delete).                    *)
(***************************************************************************)
THEOREM DotEntriesStaySound == Spec => []DotEntriesSound
<1>1. IInv => DotEntriesSound
  BY DEF IInv, DiskInv
<1> QED BY <1>1, Safety, PTL

(***************************************************************************)
(* No loop of read or delete indexes cluster_map outside the table.        *)
(***************************************************************************)
THEOREM WalksEndInTable == Spec => []WalksStayInTable
<1>1. IInv => WalksStayInTable
  BY DEF IInv, MemoryInv, WalksStayInTable
<1> QED BY <1>1, Safety, PTL

=============================================================================
