---------------------------- MODULE Fat32Safety ----------------------------
(***************************************************************************)
(* What the driver of Fat32 keeps true of the disk and of its own copy of  *)
(* the file allocation table, at every step of an operation and across     *)
(* power losses.                                                           *)
(***************************************************************************)
EXTENDS Fat32

----------------------------------------------------------------------------
(* Chains.  The clusters of a file are those reached from its first one by *)
(* following the cells: the least set that holds it and is closed.         *)

Closed(f, S) == \A c \in S : f[c] \in DataCluster => f[c] \in S

Chain(f, first) ==
  {c \in DataCluster :
     \A S \in SUBSET DataCluster : first \in S /\ Closed(f, S) => c \in S}

ChainAt(p) == Chain(fat_disk, At(p).cluster)

\* Power is on and the disk has been formatted.
Mounted == pc \notin FormatPhase \cup {"off"}

\* The format is over, whether the power is on or not.
Formatted == signed /\ pc \notin FormatPhase

----------------------------------------------------------------------------
(* Types. *)

(***************************************************************************)
(* The variables of the driver and of the disk have the types of their C   *)
(* declarations; an entry's size is one a request gave, its cluster field  *)
(* a number a cell may hold (fat32.h, struct FAT32DirectoryEntry).         *)
(***************************************************************************)
TypeOK ==
  /\ signed \in BOOLEAN
  /\ fat_disk \in [Cluster -> Cell]
  /\ table \in [Cluster -> Table]
  /\ bytes \in [Cluster -> Chunk]
  /\ fat \in [Cluster -> Cell]
  /\ pc \in Phase
  /\ request \in Request
  /\ dir_table \in Table
  /\ slot \in Slot
  /\ slot_buf \in SUBSET Cluster
  /\ todo \in SUBSET Cluster
  /\ cur \in Cell
  /\ out \in Seq(Chunk)
  /\ listing \in Table
  /\ reply \in Reply
  /\ crashes \in 0 .. MaxCrashes

----------------------------------------------------------------------------
(* The file allocation table. *)

Ascending(f) ==
  \A c \in DataCluster :
     f[c] # FAT32_FAT_EMPTY_ENTRY => c < f[c] /\ f[c] =< FAT32_FAT_END_OF_FILE

Reserved(f) ==
  /\ f[0] = CLUSTER_0_VALUE
  /\ f[FAT_CLUSTER_NUMBER] = FAT32_FAT_END_OF_FILE
  /\ f[ROOT_CLUSTER_NUMBER] = FAT32_FAT_END_OF_FILE

(***************************************************************************)
(* No operation, finished or cut short, disturbs the reserved cells, and   *)
(* a link always goes up, so that every walk of a chain ends (the picks of *)
(* count_empty_fat_slots, the loops of read and delete).                   *)
(***************************************************************************)
FatFormed ==
  /\ Formatted => Ascending(fat_disk) /\ Reserved(fat_disk)
  /\ Mounted => Ascending(fat) /\ Reserved(fat)

(***************************************************************************)
(* Between operations the copy in memory is the table on the disk: no      *)
(* return of write or delete forgets to save it.                           *)
(***************************************************************************)
CacheCoherent == pc = "idle" => fat = fat_disk

(***************************************************************************)
(* Every cluster a file or folder reaches is allocated, on the disk at     *)
(* every instant and in memory while power is on: the order of the writes  *)
(* (chain before entry in write, entry before chain in delete) never       *)
(* leaves an entry whose clusters could be given to another file.          *)
(***************************************************************************)
ChainsAllocated ==
  \A p \in LiveEntries :
     /\ At(p).cluster \in DataCluster
     /\ \A c \in ChainAt(p) :
           /\ fat_disk[c] # FAT32_FAT_EMPTY_ENTRY
           /\ Mounted => fat[c] = fat_disk[c]

(***************************************************************************)
(* No cluster belongs to two entries (cross-linked files), whatever was    *)
(* deleted, reallocated or lost in between.                                *)
(***************************************************************************)
NoCrossLinks ==
  \A p, q \in LiveEntries : p # q => ChainAt(p) \cap ChainAt(q) = {}

(***************************************************************************)
(* As long as power is never lost, every allocated cluster belongs to an   *)
(* entry when the driver is idle: delete gives all of a chain back.        *)
(***************************************************************************)
NoLeaks ==
  pc = "idle" /\ crashes = 0 =>
    \A c \in DataCluster :
       fat[c] # FAT32_FAT_EMPTY_ENTRY => \E p \in LiveEntries : c \in ChainAt(p)

----------------------------------------------------------------------------
(* Directories. *)

(***************************************************************************)
(* Every entry is in the root or in a directory that is itself linked:     *)
(* delete never takes a directory away from under what it holds.           *)
(***************************************************************************)
DirectoriesLinked == \A p \in LiveEntries : p[1] \in Dirs

(***************************************************************************)
(* Entry 0 of a directory is about itself and entry 1 about its parent     *)
(* (fat32.h:156-158), for every directory but the root, whose entry 0      *)
(* names cluster 0; the names are those of the entries that link them.     *)
(***************************************************************************)
DotEntriesSound ==
  \A p \in LiveDirs :
    LET self == table[At(p).cluster][0]
        up   == table[At(p).cluster][1]
    IN  /\ self.used /\ self.isdir
        /\ self.name = At(p).name /\ self.cluster = At(p).cluster
        /\ up.used /\ up.isdir
        /\ up.name = table[p[1]][0].name /\ up.cluster = p[1]

(***************************************************************************)
(* Two entries of a directory never have the same name, and none has the   *)
(* name of the directory or of its parent, so that the first match of      *)
(* read, write and delete is the only one.                                 *)
(***************************************************************************)
UniqueNames ==
  Formatted =>
    \A d \in Dirs, i, j \in Slot :
       /\ i < j /\ 2 =< j
       /\ table[d][i].used /\ table[d][j].used
       => table[d][i].name # table[d][j].name

(***************************************************************************)
(* A file has as many clusters as its size asks for: what read checks      *)
(* against the caller's buffer is what its loop will copy.                 *)
(***************************************************************************)
SizeMatchesChain ==
  \A p \in LiveEntries :
     LET size == At(p).size
     IN  Cardinality(ChainAt(p)) =
           IF At(p).isdir
           THEN 1 ELSE (size + CLUSTER_SIZE - 1) \div CLUSTER_SIZE

----------------------------------------------------------------------------
(* Memory. *)

(***************************************************************************)
(* read never copies more clusters than the caller's buffer holds.         *)
(***************************************************************************)
ReadFitsBuffer ==
  pc = "read_walk" => Len(out) * CLUSTER_SIZE =< request.size

(***************************************************************************)
(* No walk of a chain leaves the table: cluster_map is never indexed with  *)
(* a reserved value or with the end of a chain.                            *)
(***************************************************************************)
WalksStayInTable == pc # "wild"

=============================================================================
