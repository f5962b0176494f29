------------------------------- MODULE Fat32 -------------------------------
(***************************************************************************)
(* The file system driver of the kernel (src/src/fat32.c): the disk, the   *)
(* copy of the file allocation table the driver keeps in memory, and the   *)
(* five operations of its interface, each split at its disk writes so that *)
(* the machine can lose power between any two of them.                     *)
(*                                                                         *)
(* A cluster is seen twice: as a directory table (`table') and as a piece  *)
(* of a file (`bytes').  Every write of a cluster sets both views.  The    *)
(* operations run with interrupts off, one at a time, and the kernel has   *)
(* one client, so no two operations overlap.                               *)
(***************************************************************************)
EXTENDS Integers, FiniteSets, Sequences

CONSTANTS
  CLUSTER_MAP_SIZE,  \* cells of the table, clusters of the disk (512)
  FAT_BLOCK_CELLS,   \* cells of the table in one disk block (128)
  SLOT_COUNT,        \* entries of a directory table (64)
  CLUSTER_SIZE,      \* units of file size in a cluster (2048)
  COUNT_RANGE,       \* values of the uint8_t that counts clusters (256)
  Name,              \* what a request may call a file: name and extension
  RootName,          \* "root"
  ZeroName,          \* eleven zero bytes, the name in a blank entry
  Data,              \* what a file may be filled with
  NoData,            \* the content of a zeroed cluster
  Sizes,             \* buffer_size of a request
  MaxCrashes         \* bound: power losses in a behaviour

Cluster == 0 .. CLUSTER_MAP_SIZE - 1
Slot    == 0 .. SLOT_COUNT - 1

FAT_CLUSTER_NUMBER  == 1
ROOT_CLUSTER_NUMBER == 2
DataCluster         == 3 .. CLUSTER_MAP_SIZE - 1

(***************************************************************************)
(* The values of a table cell.  The two reserved values keep what matters  *)
(* of 0x0FFFFFFF and 0x0FFFFFF0: neither is the number of a cluster.       *)
(***************************************************************************)
FAT32_FAT_EMPTY_ENTRY == 0
FAT32_FAT_END_OF_FILE == CLUSTER_MAP_SIZE
CLUSTER_0_VALUE       == CLUSTER_MAP_SIZE + 1
Cell                  == 0 .. CLUSTER_MAP_SIZE + 1

AnyName == Name \cup {ZeroName}

ASSUME ClusterAssumption ==
  /\ CLUSTER_MAP_SIZE \in Nat /\ CLUSTER_MAP_SIZE > 3
  /\ FAT_BLOCK_CELLS \in Nat \ {0}
  /\ SLOT_COUNT \in Nat /\ SLOT_COUNT > 2

ASSUME SizeAssumption ==
  /\ CLUSTER_SIZE \in Nat \ {0}
  /\ COUNT_RANGE \in Nat /\ COUNT_RANGE > 1
  /\ Sizes \subseteq Nat
  /\ 0 \in Sizes

ASSUME NameAssumption ==
  /\ RootName \in Name
  /\ ZeroName \notin Name

ASSUME BoundAssumption == MaxCrashes \in Nat

----------------------------------------------------------------------------

Entry == [name: AnyName, isdir: BOOLEAN, used: BOOLEAN, cluster: Cell,
          size: Sizes]
Table == [Slot -> Entry]
Chunk == [data: Data \cup {NoData}, part: Nat]

NoEntry    == [name |-> ZeroName, isdir |-> FALSE, used |-> FALSE,
               cluster |-> 0, size |-> 0]
EmptyTable == [s \in Slot |-> NoEntry]
ZeroChunk  == [data |-> NoData, part |-> 0]
ZeroFat    == [c \in Cluster |-> FAT32_FAT_EMPTY_ENTRY]

Request == [parent: Cluster, name: AnyName, size: Sizes,
            data: Data \cup {NoData}]
Reply   == [op: {"none", "read", "read_directory", "write", "delete"},
            parent: Cluster, name: AnyName, code: {-1, 0, 1, 2}]

Lookup(parent, name, size) ==
  [parent |-> parent, name |-> name, size |-> size, data |-> NoData]
NoRequest == [parent |-> 0, name |-> ZeroName, size |-> 0, data |-> NoData]
NoReply   == [op |-> "none", parent |-> 0, name |-> ZeroName, code |-> 0]

Phase == {"off", "format_fat", "format_name", "format_root", "idle",
          "write_fat", "write_data", "mkdir_fat", "write_parent",
          "delete_walk", "delete_fat", "read_walk", "wild"}

VARIABLES
  (* the disk *)
  signed,     \* the boot sector holds fs_signature
  fat_disk,   \* the file allocation table, cluster 1
  table,      \* every cluster, seen as a directory table
  bytes,      \* every cluster, seen as a piece of a file
  (* the driver's memory *)
  fat,        \* fat32_driverstate.fat_table
  pc,         \* the next disk access of the operation under way
  request,    \* its argument
  dir_table,  \* its copy of the parent's directory table
  slot,       \* dirtable_empty_slot
  slot_buf,   \* the clusters count_empty_fat_slots picked
  todo,       \* those of them the loop has still to link
  cur,        \* current_cluster of a walk
  out,        \* what read has put in the caller's buffer
  listing,    \* what read_directory has put in the caller's buffer
  reply,      \* the last result
  crashes     \* power losses so far

disk   == <<signed, fat_disk, table, bytes>>
locals == <<request, dir_table, slot, slot_buf, todo, cur>>
vars   == <<disk, fat, pc, locals, out, listing, reply, crashes>>

----------------------------------------------------------------------------
(* Helpers. *)

Lowest(S) == {m \in S : \A x \in S : m =< x}

\* After a return or a power loss the locals are gone.
ClearLocals ==
  /\ request' = NoRequest
  /\ dir_table' = EmptyTable
  /\ slot' = 0
  /\ slot_buf' = {}
  /\ todo' = {}
  /\ cur' = 0

Answer(op, parent, name, code) ==
  /\ pc' = "idle"
  /\ reply' = [op |-> op, parent |-> parent, name |-> name, code |-> code]

\* write_clusters of one cluster.  Cluster 0 is the boot sector's and
\* cluster 1 the table's: nothing else can be written there without harm.
WriteCluster(c, t, b) ==
  /\ table' = [table EXCEPT ![c] = t]
  /\ bytes' = [bytes EXCEPT ![c] = b]
  /\ signed' = (signed /\ c # 0)
  /\ fat_disk' = IF c = FAT_CLUSTER_NUMBER THEN ZeroFat ELSE fat_disk

PutTable(c, t) == WriteCluster(c, t, ZeroChunk)
PutBytes(c, b) == WriteCluster(c, EmptyTable, b)

\* Mutant of CeilClusters: truncates.
FloorClusters(size) == (size \div CLUSTER_SIZE) % COUNT_RANGE

\* ceil(size / (float) CLUSTER_SIZE): the result is a uint8_t.
CeilClusters(size) ==
  ((size + CLUSTER_SIZE - 1) \div CLUSTER_SIZE) % COUNT_RANGE

\* The clusters a write asks for: an empty buffer means a folder.
Required(size) == IF size = 0 THEN 1 ELSE CeilClusters(size)

FreeClusters == {c \in Cluster : fat[c] = FAT32_FAT_EMPTY_ENTRY}

\* count_empty_fat_slots scans the cells upwards and takes the first free.
Picked(S, n) ==
  /\ Cardinality(S) = n
  /\ \A x \in S, y \in FreeClusters \ S : x < y

\* Mutant of Matches: passes over the two dot entries.
MatchesAfterDots(t, name) == {i \in Slot \ {0, 1} : t[i].name = name}

Matches(t, name) == {i \in Slot : t[i].name = name}

\* Slot 0 is never taken: the code uses it to say that there is none.
UnusedSlots(t) == {i \in Slot \ {0} : ~ t[i].used}

\* Mutant of NonEmptyDirectory: starts one entry late.
NonEmptyFromThree(t) == \E j \in Slot \ {0, 1, 2} : t[j].used

NonEmptyDirectory(t) == \E j \in Slot \ {0, 1} : t[j].used

DirEntry(name, cluster) ==
  [name |-> name, isdir |-> TRUE, used |-> TRUE, cluster |-> cluster,
   size |-> 0]

\* What the new directory's table holds: itself (whose cluster the caller
\* fills in) and its parent, with the name the parent's own table gives it.
InitDirectoryTable(name, parent) ==
  [s \in Slot |->
     IF s = 0 THEN DirEntry(name, 0)
     ELSE IF s = 1 THEN DirEntry(table[parent][0].name, parent)
     ELSE NoEntry]

\* Mutant of LinkFrom: the last cell holds another reserved value.
LinkFromWrongEnd(c) ==
  LET rest == {x \in slot_buf : x > c}
  IN  IF rest = {} THEN {CLUSTER_0_VALUE} ELSE Lowest(rest)

\* The cell of the c-th cluster of a new chain.
LinkFrom(c) ==
  LET rest == {x \in slot_buf : x > c}
  IN  IF rest = {} THEN {FAT32_FAT_END_OF_FILE} ELSE Lowest(rest)

\* The cluster a new entry names.  With no cluster picked the code reads an
\* element of an empty array.
FirstCluster == IF slot_buf = {} THEN Cell ELSE Lowest(slot_buf)

\* Mutant of NewEntry: swaps the cluster and the size.
NewEntrySwapped(first) ==
  [name |-> request.name, isdir |-> request.size = 0, used |-> TRUE,
   cluster |-> request.size, size |-> first]

NewEntry(first) ==
  [name |-> request.name, isdir |-> request.size = 0, used |-> TRUE,
   cluster |-> first, size |-> request.size]

----------------------------------------------------------------------------
(* Power-on: initialize_filesystem_fat32 and create_fat32. *)

BootFormat ==
  /\ pc = "off" /\ ~ signed
  /\ signed' = TRUE
  /\ pc' = "format_fat"
  /\ UNCHANGED <<fat_disk, table, bytes, fat, locals, out, listing, reply,
                 crashes>>

NewFat ==
  [c \in Cluster |->
     CASE c = 0 -> CLUSTER_0_VALUE
       [] c \in {FAT_CLUSTER_NUMBER, ROOT_CLUSTER_NUMBER} ->
            FAT32_FAT_END_OF_FILE
       [] OTHER -> FAT32_FAT_EMPTY_ENTRY]

FormatFat ==
  /\ pc = "format_fat"
  /\ fat' = NewFat
  /\ fat_disk' = NewFat
  /\ pc' = "format_name"
  /\ UNCHANGED <<signed, table, bytes, locals, out, listing, reply, crashes>>

\* A zeroed block with the bare name, for init_directory_table to read back.
\* The blocks behind it are written before anything reads them.
FormatName ==
  /\ pc = "format_name"
  /\ PutTable(ROOT_CLUSTER_NUMBER,
              [EmptyTable EXCEPT
                 ![0] = [name |-> RootName, isdir |-> FALSE, used |-> FALSE,
                         cluster |-> 0, size |-> 0]])
  /\ pc' = "format_root"
  /\ UNCHANGED <<fat, locals, out, listing, reply, crashes>>

FormatRoot ==
  /\ pc = "format_root"
  /\ PutTable(ROOT_CLUSTER_NUMBER,
              InitDirectoryTable(RootName, ROOT_CLUSTER_NUMBER))
  /\ pc' = "idle"
  /\ UNCHANGED <<fat, locals, out, listing, reply, crashes>>

BootLoad ==
  /\ pc = "off" /\ signed
  /\ fat' = fat_disk
  /\ pc' = "idle"
  /\ UNCHANGED <<disk, locals, out, listing, reply, crashes>>

----------------------------------------------------------------------------
(* write: a folder when the buffer is empty, a file otherwise. *)

WriteError(parent, name, size, code) ==
  LET t == table[parent]
  IN  \/ /\ fat[parent] # FAT32_FAT_END_OF_FILE
         /\ code = 2
      \/ /\ fat[parent] = FAT32_FAT_END_OF_FILE
         /\ Matches(t, name) # {}
         /\ code = 1
      \/ /\ fat[parent] = FAT32_FAT_END_OF_FILE
         /\ Matches(t, name) = {}
         /\ \/ UnusedSlots(t) = {}
            \/ Cardinality(FreeClusters) < Required(size)
         /\ code = -1

WriteReject(parent, name, size) ==
  /\ pc = "idle"
  /\ \E code \in {-1, 1, 2} :
        /\ WriteError(parent, name, size, code)
        /\ Answer("write", parent, name, code)
  /\ out' = << >> /\ listing' = EmptyTable
  /\ UNCHANGED <<disk, fat, locals, crashes>>

\* Everything up to the first disk write, which is the child's table for a
\* folder and the first cell of the chain for a file.
WriteAccepted(parent, name, size, data) ==
  /\ pc = "idle"
  /\ fat[parent] = FAT32_FAT_END_OF_FILE
  /\ Matches(table[parent], name) = {}
  /\ slot' \in Lowest(UnusedSlots(table[parent]))
  /\ slot_buf' \in SUBSET FreeClusters
  /\ Picked(slot_buf', Required(size))
  /\ request' = [parent |-> parent, name |-> name, size |-> size,
                 data |-> data]
  /\ dir_table' = table[parent]
  /\ reply' = NoReply /\ out' = << >> /\ listing' = EmptyTable

\* Mutant of WriteFolder: leaves the cluster of entry 0 at zero.
WriteFolderUnnumbered(parent, name) ==
  /\ WriteAccepted(parent, name, 0, NoData)
  /\ \E c \in slot_buf' : PutTable(c, InitDirectoryTable(name, parent))
  /\ pc' = "mkdir_fat"
  /\ UNCHANGED <<fat, todo, cur, crashes>>

WriteFolder(parent, name) ==
  /\ WriteAccepted(parent, name, 0, NoData)
  /\ \E c \in slot_buf' :
        PutTable(c, [InitDirectoryTable(name, parent) EXCEPT
                       ![0] = DirEntry(name, c)])
  /\ pc' = "mkdir_fat"
  /\ UNCHANGED <<fat, todo, cur, crashes>>

\* Mutant of MkdirFat: does not save the table.
MkdirFatUnsaved ==
  /\ pc = "mkdir_fat"
  /\ \E c \in slot_buf : fat' = [fat EXCEPT ![c] = FAT32_FAT_END_OF_FILE]
  /\ pc' = "write_parent"
  /\ UNCHANGED <<disk, locals, out, listing, reply, crashes>>

MkdirFat ==
  /\ pc = "mkdir_fat"
  /\ \E c \in slot_buf : fat' = [fat EXCEPT ![c] = FAT32_FAT_END_OF_FILE]
  /\ fat_disk' = fat'
  /\ pc' = "write_parent"
  /\ UNCHANGED <<signed, table, bytes, locals, out, listing, reply, crashes>>

WriteFile(parent, name, size, data) ==
  /\ size # 0
  /\ WriteAccepted(parent, name, size, data)
  /\ todo' = slot_buf'
  /\ pc' = IF slot_buf' = {} THEN "write_parent" ELSE "write_fat"
  /\ UNCHANGED <<disk, fat, cur, crashes>>

\* The whole table goes to the disk for every cell that is set.
WriteFat ==
  /\ pc = "write_fat"
  /\ \E c \in Lowest(todo), next \in Cell :
        /\ next \in LinkFrom(c)
        /\ fat' = [fat EXCEPT ![c] = next]
  /\ fat_disk' = fat'
  /\ pc' = "write_data"
  /\ UNCHANGED <<signed, table, bytes, locals, out, listing, reply, crashes>>

\* Mutants of WriteData: does not advance in the caller's buffer, or not to
\* the next cluster.
WriteDataSameChunk ==
  /\ pc = "write_data"
  /\ \E c \in Lowest(todo) :
        /\ PutBytes(c, [data |-> request.data, part |-> 1])
        /\ todo' = todo \ {c}
  /\ pc' = IF todo' = {} THEN "write_parent" ELSE "write_fat"
  /\ UNCHANGED <<fat, request, dir_table, slot, slot_buf, cur, out, listing,
                 reply, crashes>>

WriteDataUncounted ==
  /\ pc = "write_data"
  /\ \E c \in Lowest(todo) :
        PutBytes(c, [data |-> request.data,
                     part |-> Cardinality(slot_buf \ todo) + 1])
  /\ pc' = "write_fat"
  /\ UNCHANGED <<fat, request, dir_table, slot, slot_buf, todo, cur, out,
                 listing, reply, crashes>>

WriteData ==
  /\ pc = "write_data"
  /\ \E c \in Lowest(todo) :
        /\ PutBytes(c, [data |-> request.data,
                        part |-> Cardinality(slot_buf \ todo) + 1])
        /\ todo' = todo \ {c}
  /\ pc' = IF todo' = {} THEN "write_parent" ELSE "write_fat"
  /\ UNCHANGED <<fat, request, dir_table, slot, slot_buf, cur, out, listing,
                 reply, crashes>>

WriteParent ==
  /\ pc = "write_parent"
  /\ \E first \in FirstCluster :
        PutTable(request.parent, [dir_table EXCEPT ![slot] = NewEntry(first)])
  /\ Answer("write", request.parent, request.name, 0)
  /\ ClearLocals
  /\ UNCHANGED <<fat, out, listing, crashes>>

----------------------------------------------------------------------------
(* delete: the entry first, then the chain, then the table. *)

DeleteError(parent, name, code) ==
  LET t == table[parent]
  IN  \/ /\ fat[parent] # FAT32_FAT_END_OF_FILE
         /\ code = 2
      \/ /\ fat[parent] = FAT32_FAT_END_OF_FILE
         /\ Matches(t, name) = {}
         /\ code = 1
      \/ /\ fat[parent] = FAT32_FAT_END_OF_FILE
         /\ \E i \in Lowest(Matches(t, name)) :
               /\ t[i].isdir
               /\ t[i].cluster \in Cluster
               /\ NonEmptyDirectory(table[t[i].cluster])
         /\ code = 2

DeleteReject(parent, name) ==
  /\ pc = "idle"
  /\ \E code \in {1, 2} :
        /\ DeleteError(parent, name, code)
        /\ Answer("delete", parent, name, code)
  /\ out' = << >> /\ listing' = EmptyTable
  /\ UNCHANGED <<disk, fat, locals, crashes>>

\* Mutant of DeleteEntry: does not write the parent's table.
DeleteEntryUnwritten(parent, name) ==
  /\ pc = "idle"
  /\ fat[parent] = FAT32_FAT_END_OF_FILE
  /\ \E i \in Lowest(Matches(table[parent], name)) :
        LET e == table[parent][i]
        IN  /\ e.isdir /\ e.cluster \in Cluster =>
                 ~ NonEmptyDirectory(table[e.cluster])
            /\ cur' = e.cluster
  /\ request' = Lookup(parent, name, 0)
  /\ pc' = "delete_walk"
  /\ reply' = NoReply /\ out' = << >> /\ listing' = EmptyTable
  /\ UNCHANGED <<disk, fat, dir_table, slot, slot_buf, todo, crashes>>

\* The entry that matches need not be in use: the code compares names only.
DeleteEntry(parent, name) ==
  /\ pc = "idle"
  /\ fat[parent] = FAT32_FAT_END_OF_FILE
  /\ \E i \in Lowest(Matches(table[parent], name)) :
        LET e == table[parent][i]
        IN  /\ e.isdir /\ e.cluster \in Cluster =>
                 ~ NonEmptyDirectory(table[e.cluster])
            /\ PutTable(parent, [table[parent] EXCEPT ![i] = NoEntry])
            /\ cur' = e.cluster
  /\ request' = Lookup(parent, name, 0)
  /\ pc' = "delete_walk"
  /\ reply' = NoReply /\ out' = << >> /\ listing' = EmptyTable
  /\ UNCHANGED <<fat, dir_table, slot, slot_buf, todo, crashes>>

\* Mutants of DeleteWalk: gives back the first cluster only, or stops at an
\* empty cell instead of the end of the chain.
DeleteWalkFirst ==
  /\ pc = "delete_walk"
  /\ IF cur \in Cluster
     THEN /\ cur' = fat[cur]
          /\ fat' = [fat EXCEPT ![cur] = FAT32_FAT_EMPTY_ENTRY]
          /\ PutTable(cur, EmptyTable)
          /\ pc' = "delete_fat"
     ELSE /\ pc' = "wild"
          /\ UNCHANGED <<disk, fat, cur>>
  /\ UNCHANGED <<request, dir_table, slot, slot_buf, todo, out,
                 listing, reply, crashes>>

DeleteWalkToEmpty ==
  /\ pc = "delete_walk"
  /\ IF cur \in Cluster
     THEN /\ cur' = fat[cur]
          /\ fat' = [fat EXCEPT ![cur] = FAT32_FAT_EMPTY_ENTRY]
          /\ PutTable(cur, EmptyTable)
          /\ pc' = IF fat[cur] = FAT32_FAT_EMPTY_ENTRY
                   THEN "delete_fat" ELSE "delete_walk"
     ELSE /\ pc' = "wild"
          /\ UNCHANGED <<disk, fat, cur>>
  /\ UNCHANGED <<request, dir_table, slot, slot_buf, todo, out,
                 listing, reply, crashes>>

\* The do-while loop: the cells are cleared in memory only.  A number that
\* is no cluster indexes outside the table: from there anything can happen.
DeleteWalk ==
  /\ pc = "delete_walk"
  /\ IF cur \in Cluster
     THEN /\ cur' = fat[cur]
          /\ fat' = [fat EXCEPT ![cur] = FAT32_FAT_EMPTY_ENTRY]
          /\ PutTable(cur, EmptyTable)
          /\ pc' = IF fat[cur] = FAT32_FAT_END_OF_FILE
                   THEN "delete_fat" ELSE "delete_walk"
     ELSE /\ pc' = "wild"
          /\ UNCHANGED <<disk, fat, cur>>
  /\ UNCHANGED <<request, dir_table, slot, slot_buf, todo, out,
                 listing, reply, crashes>>

\* Mutant of DeleteFat: does not save the table.
DeleteFatUnsaved ==
  /\ pc = "delete_fat"
  /\ Answer("delete", request.parent, request.name, 0)
  /\ ClearLocals
  /\ UNCHANGED <<disk, fat, out, listing, crashes>>

DeleteFat ==
  /\ pc = "delete_fat"
  /\ fat_disk' = fat
  /\ Answer("delete", request.parent, request.name, 0)
  /\ ClearLocals
  /\ UNCHANGED <<signed, table, bytes, fat, out, listing, crashes>>

----------------------------------------------------------------------------
(* read and read_directory. *)

\* buffer_size is given in units and the code divides it by the cluster.
ReadError(parent, name, size, code) ==
  LET t == table[parent]
  IN  \/ /\ fat[parent] # FAT32_FAT_END_OF_FILE
         /\ code = 2
      \/ /\ fat[parent] = FAT32_FAT_END_OF_FILE
         /\ Matches(t, name) = {}
         /\ code = 2
      \/ /\ fat[parent] = FAT32_FAT_END_OF_FILE
         /\ \E i \in Lowest(Matches(t, name)) :
               \/ t[i].isdir /\ code = 1
               \/ /\ ~ t[i].isdir
                  /\ size \div CLUSTER_SIZE < CeilClusters(t[i].size)
                  /\ code = -1

ReadReject(parent, name, size) ==
  /\ pc = "idle"
  /\ \E code \in {-1, 1, 2} :
        /\ ReadError(parent, name, size, code)
        /\ Answer("read", parent, name, code)
  /\ out' = << >> /\ listing' = EmptyTable
  /\ UNCHANGED <<disk, fat, locals, crashes>>

\* Mutant of ReadBegin: does not compare the file with the buffer.
ReadBeginUnchecked(parent, name, size) ==
  /\ pc = "idle"
  /\ fat[parent] = FAT32_FAT_END_OF_FILE
  /\ \E i \in Lowest(Matches(table[parent], name)) :
        /\ ~ table[parent][i].isdir
        /\ cur' = table[parent][i].cluster
  /\ request' = Lookup(parent, name, size)
  /\ pc' = "read_walk"
  /\ reply' = NoReply /\ out' = << >> /\ listing' = EmptyTable
  /\ UNCHANGED <<disk, fat, dir_table, slot, slot_buf, todo, crashes>>

ReadBegin(parent, name, size) ==
  /\ pc = "idle"
  /\ fat[parent] = FAT32_FAT_END_OF_FILE
  /\ \E i \in Lowest(Matches(table[parent], name)) :
        LET e == table[parent][i]
        IN  /\ ~ e.isdir
            /\ size \div CLUSTER_SIZE >= CeilClusters(e.size)
            /\ cur' = e.cluster
  /\ request' = Lookup(parent, name, size)
  /\ pc' = "read_walk"
  /\ reply' = NoReply /\ out' = << >> /\ listing' = EmptyTable
  /\ UNCHANGED <<disk, fat, dir_table, slot, slot_buf, todo, crashes>>

ReadCluster ==
  /\ pc = "read_walk" /\ cur # FAT32_FAT_END_OF_FILE
  /\ IF cur \in Cluster
     THEN /\ out' = Append(out, bytes[cur])
          /\ cur' = fat[cur]
          /\ UNCHANGED pc
     ELSE /\ pc' = "wild"
          /\ UNCHANGED <<out, cur>>
  /\ UNCHANGED <<disk, fat, request, dir_table, slot, slot_buf, todo,
                 listing, reply, crashes>>

ReadDone ==
  /\ pc = "read_walk" /\ cur = FAT32_FAT_END_OF_FILE
  /\ Answer("read", request.parent, request.name, 0)
  /\ ClearLocals
  /\ UNCHANGED <<disk, fat, out, listing, crashes>>

\* The only operation that looks at user_attribute, and the only one that
\* does not ask the table whether the parent is in use.  roomy says that the
\* caller's buffer holds at least one entry.
ReadDirectory(parent, name, roomy) ==
  LET t    == table[parent]
      hits == Lowest({i \in Matches(t, name) : t[i].used})
  IN  /\ pc = "idle"
      /\ \/ /\ hits = {}
            /\ Answer("read_directory", parent, name, 2)
            /\ listing' = EmptyTable
         \/ \E i \in hits :
              \/ /\ ~ t[i].isdir
                 /\ Answer("read_directory", parent, name, 1)
                 /\ listing' = EmptyTable
              \/ /\ t[i].isdir /\ ~ roomy
                 /\ Answer("read_directory", parent, name, -1)
                 /\ listing' = EmptyTable
              \/ /\ t[i].isdir /\ roomy /\ t[i].cluster \in Cluster
                 /\ Answer("read_directory", parent, name, 0)
                 /\ listing' = table[t[i].cluster]
      /\ out' = << >>
      /\ UNCHANGED <<disk, fat, locals, crashes>>

----------------------------------------------------------------------------
(* Power loss.  The disk keeps what was written; of a table that was on its *)
(* way to the disk, any number of the first blocks may have arrived.        *)

FormatPhase == {"format_fat", "format_name", "format_root"}

Forget ==
  /\ pc' = "off"
  /\ fat' = ZeroFat
  /\ ClearLocals
  /\ out' = << >> /\ listing' = EmptyTable /\ reply' = NoReply
  /\ crashes' = crashes + 1

PowerLoss ==
  /\ pc # "off" /\ crashes < MaxCrashes
  /\ Forget
  /\ UNCHANGED disk

TornFat ==
  /\ pc = "delete_fat" /\ crashes < MaxCrashes
  /\ \E arrived \in 1 .. CLUSTER_MAP_SIZE \div FAT_BLOCK_CELLS :
        fat_disk' = [c \in Cluster |->
                       IF c < arrived * FAT_BLOCK_CELLS THEN fat[c]
                                                        ELSE fat_disk[c]]
  /\ Forget
  /\ UNCHANGED <<signed, table, bytes>>

----------------------------------------------------------------------------
(* What the disk's directories hold. *)

\* An entry is known by its place.  Slots 0 and 1 describe the directory and
\* its parent.
Place == Cluster \X (Slot \ {0, 1})

At(p) == table[p[1]][p[2]]

LiveEntries == {p \in Place : At(p).used}

LiveDirs == {p \in LiveEntries : At(p).isdir}

Dirs ==
  {c \in Cluster : \/ c = ROOT_CLUSTER_NUMBER
                   \/ \E p \in LiveDirs : At(p).cluster = c}

----------------------------------------------------------------------------
(* The kernel's client, and the driver's steps. *)

\* What the client takes for a directory: one it found by walking from the
\* root, or a number that read, write and delete must turn down.
Opened == {c \in Cluster : c \in Dirs \/ fat[c] # FAT32_FAT_END_OF_FILE}

\* A size whose count of clusters fits a uint8_t.
Fits(size) == size =< CLUSTER_SIZE * (COUNT_RANGE - 1)

OwnName(parent, name) == name = table[parent][0].name

\* The system calls hand any request on: these guards are assumptions about
\* the client, which the shell is shown to keep (ShellSafety!CarefulClient).
CarefulRequest ==
  \/ \E parent \in Opened, name \in Name, size \in Sizes :
        /\ Fits(size)
        /\ \/ WriteReject(parent, name, size)
           \/ \E data \in Data : WriteFile(parent, name, size, data)
  \/ \E parent \in Opened, name \in Name : WriteFolder(parent, name)
  \/ \E parent \in Opened, name \in Name :
        /\ ~ OwnName(parent, name)
        /\ DeleteReject(parent, name) \/ DeleteEntry(parent, name)
  \/ \E parent \in Opened, name \in Name, size \in Sizes :
        ReadReject(parent, name, size) \/ ReadBegin(parent, name, size)
  \/ \E parent \in Dirs, name \in Name, roomy \in BOOLEAN :
        /\ ~ (parent = ROOT_CLUSTER_NUMBER /\ OwnName(parent, name))
        /\ ReadDirectory(parent, name, roomy)

Boot == BootFormat \/ FormatFat \/ FormatName \/ FormatRoot \/ BootLoad

Driver ==
  \/ MkdirFat \/ WriteFat \/ WriteData \/ WriteParent
  \/ DeleteWalk \/ DeleteFat
  \/ ReadCluster \/ ReadDone

Crash == pc \notin FormatPhase /\ PowerLoss

Next == Boot \/ CarefulRequest \/ Driver \/ Crash \/ TornFat

Init ==
  /\ signed = FALSE
  /\ fat_disk = ZeroFat
  /\ table = [c \in Cluster |-> EmptyTable]
  /\ bytes = [c \in Cluster |-> ZeroChunk]
  /\ fat = ZeroFat
  /\ pc = "off"
  /\ request = NoRequest
  /\ dir_table = EmptyTable
  /\ slot = 0 /\ slot_buf = {} /\ todo = {} /\ cur = 0
  /\ out = << >> /\ listing = EmptyTable
  /\ reply = NoReply
  /\ crashes = 0

Spec == Init /\ [][Next]_vars

=============================================================================
