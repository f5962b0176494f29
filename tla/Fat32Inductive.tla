--------------------------- MODULE Fat32Inductive ---------------------------
(***************************************************************************)
(* The inductive invariant behind the safety properties of Fat32Safety:    *)
(* what is true of the disk at every instant, and what each phase of an    *)
(* operation has already done and still owes.                              *)
(***************************************************************************)
EXTENDS Fat32Safety

\* Nothing but the name of the root is on a disk that is being formatted.
BlankDisk ==
  /\ ~ signed => pc = "off"
  /\ ~ Formatted =>
       /\ \A c \in Cluster : c # ROOT_CLUSTER_NUMBER => table[c] = EmptyTable
       /\ \A s \in Slot \ {0} : table[ROOT_CLUSTER_NUMBER][s] = NoEntry
       /\ ~ table[ROOT_CLUSTER_NUMBER][0].used
  /\ pc \in {"format_name", "format_root"} => fat = NewFat /\ fat_disk = NewFat
  /\ pc = "format_root" => table[ROOT_CLUSTER_NUMBER][0].name = RootName

\* An entry that is not in use is all zero.
UnusedBlank ==
  Formatted =>
    \A c \in Cluster, s \in Slot :
       ~ table[c][s].used => table[c][s] = NoEntry

RootTable ==
  Formatted =>
    LET t == table[ROOT_CLUSTER_NUMBER]
    IN  \A s \in {0, 1} : t[s].used /\ t[s].isdir /\ t[s].name = RootName

LiveNames == \A p \in LiveEntries : At(p).name \in Name

\* A folder is one cluster.
OneClusterDirs == \A p \in LiveDirs : fat_disk[At(p).cluster] = FAT32_FAT_END_OF_FILE

DiskChains ==
  \A p \in LiveEntries :
     /\ At(p).cluster \in DataCluster
     /\ \A c \in ChainAt(p) : fat_disk[c] # FAT32_FAT_EMPTY_ENTRY

DiskInv ==
  /\ BlankDisk /\ UnusedBlank /\ RootTable
  /\ Formatted => Ascending(fat_disk) /\ Reserved(fat_disk)
  /\ LiveNames /\ OneClusterDirs /\ DiskChains /\ NoCrossLinks
  /\ DirectoriesLinked /\ DotEntriesSound

----------------------------------------------------------------------------
(* The operations. *)

NotInUse(S) == \A p \in LiveEntries : ChainAt(p) \cap S = {}

CoherentPhase == {"idle", "write_fat", "write_data", "mkdir_fat",
                  "write_parent", "read_walk"}

MemoryInv ==
  /\ pc # "wild"
  /\ pc \in CoherentPhase => fat = fat_disk

WritePhase == {"write_fat", "write_data", "mkdir_fat", "write_parent"}

\* The clusters of the chain that are already linked to each other.
Linked ==
  CASE pc = "write_data" -> (slot_buf \ todo) \cup Lowest(todo)
    [] pc = "write_fat" -> slot_buf \ todo
    [] pc = "mkdir_fat" -> {}
    [] OTHER -> slot_buf

\* Every cluster picked is either free or linked, up to another cluster
\* picked or to the end of the chain.
WriteInv ==
  pc \in WritePhase =>
    /\ request.parent \in Dirs /\ request.name \in Name
    /\ dir_table = table[request.parent]
    /\ slot \in Slot \ {0, 1} /\ ~ dir_table[slot].used
    /\ slot_buf \subseteq DataCluster /\ slot_buf # {}
    /\ NotInUse(slot_buf)
    /\ pc \in {"write_fat", "write_data"} =>
         todo \subseteq slot_buf /\ todo # {} /\ request.size # 0
    /\ pc = "mkdir_fat" => request.size = 0
    /\ \A c \in slot_buf :
         IF c \in Linked
         THEN /\ fat_disk[c] \in slot_buf \cup {FAT32_FAT_END_OF_FILE}
              /\ fat_disk[c] > c
         ELSE fat_disk[c] = FAT32_FAT_EMPTY_ENTRY

\* The table of the new folder, before its parent names it.
FolderInv ==
  pc \in WritePhase /\ request.size = 0 =>
    \E c \in Cluster :
       /\ slot_buf = {c}
       /\ pc = "write_parent" => fat_disk[c] = FAT32_FAT_END_OF_FILE
       /\ table[c][0] = DirEntry(request.name, c)
       /\ table[c][1] = DirEntry(table[request.parent][0].name, request.parent)
       /\ \A s \in Slot \ {0, 1} : table[c][s] = NoEntry

\* The clusters of the file deleted: in no entry's chain, allocated on the
\* disk, and empty in memory up to the cluster the walk has reached.
DeleteInv ==
  pc \in {"delete_walk", "delete_fat"} =>
    \E D \in SUBSET DataCluster :
       /\ Closed(fat_disk, D) /\ NotInUse(D)
       /\ \A c \in D : fat_disk[c] # FAT32_FAT_EMPTY_ENTRY
       /\ \A c \in Cluster :
            fat[c] # fat_disk[c] => c \in D /\ fat[c] = FAT32_FAT_EMPTY_ENTRY
       /\ pc = "delete_walk" =>
            cur \in D /\ \A c \in Cluster : c >= cur => fat[c] = fat_disk[c]

ReadInv ==
  pc = "read_walk" =>
    \/ cur = FAT32_FAT_END_OF_FILE
    \/ \E p \in LiveEntries : cur \in ChainAt(p)

(***************************************************************************)
(* The inductive invariant of the driver.                                  *)
(***************************************************************************)
IInv ==
  /\ TypeOK /\ DiskInv /\ MemoryInv
  /\ WriteInv /\ FolderInv /\ DeleteInv /\ ReadInv

----------------------------------------------------------------------------
(* Names, sizes and contents, and how far each operation has come. *)

\* Two entries in use of any table have different names, except that the two
\* dot entries may agree.
NamesApart ==
  Formatted =>
    \A c \in Cluster, i, j \in Slot :
       i < j /\ 2 =< j /\ table[c][i].used /\ table[c][j].used
       => table[c][i].name # table[c][j].name

SizesFit == \A p \in LiveEntries : Fits(At(p).size)

\* The name is still free, there are as many clusters as the size asks for,
\* and those linked follow each other upwards.
WriteProgress ==
  pc \in WritePhase =>
    /\ Matches(dir_table, request.name) = {}
    /\ Fits(request.size)
    /\ Cardinality(slot_buf) = Required(request.size)
    /\ \A c \in Linked : fat_disk[c] \in LinkFrom(c)

\* The place of a cluster in a chain.
Rank(S, c) == Cardinality({x \in S : x =< c})

\* The chunks go to the clusters in order.
DataProgress ==
  pc \in WritePhase /\ request.size # 0 =>
    /\ request.data \in Data
    /\ pc = "write_parent" => todo = {}
    /\ \A x \in slot_buf \ todo, y \in todo : x < y
    /\ \A c \in slot_buf \ todo :
         bytes[c] = [data |-> request.data, part |-> Rank(slot_buf, c)]

\* The buffer holds the chunks of the clusters below the one reached, and was
\* found large enough for the whole file.
ReadProgress ==
  pc = "read_walk" =>
    \E p \in LiveEntries :
       /\ p[1] = request.parent /\ At(p).name = request.name /\ ~ At(p).isdir
       /\ request.size \div CLUSTER_SIZE >= CeilClusters(At(p).size)
       /\ cur \in ChainAt(p) \cup {FAT32_FAT_END_OF_FILE}
       /\ Len(out) = Cardinality({x \in ChainAt(p) : x < cur})
       /\ \A i \in 1 .. Len(out) :
            \E c \in ChainAt(p) :
               c < cur /\ Rank(ChainAt(p), c) = i /\ out[i] = bytes[c]

\* As long as power is never lost, every cluster allocated on the disk is in
\* a chain, or its operation is about to link it or to give it back.
NothingLost ==
  crashes = 0 =>
    /\ pc = "off" => ~ signed
    /\ Mounted =>
         \A c \in DataCluster : fat_disk[c] # FAT32_FAT_EMPTY_ENTRY =>
           \/ \E p \in LiveEntries : c \in ChainAt(p)
           \/ pc \in WritePhase /\ c \in Linked
           \/ /\ pc \in {"delete_walk", "delete_fat"}
              /\ fat[c] = FAT32_FAT_EMPTY_ENTRY
           \/ pc = "delete_walk" /\ c \in Chain(fat_disk, cur)

(***************************************************************************)
(* Inductive relative to IInv.                                             *)
(***************************************************************************)
FilesInv ==
  /\ NamesApart /\ SizesFit /\ SizeMatchesChain
  /\ WriteProgress /\ DataProgress /\ ReadProgress /\ NothingLost

----------------------------------------------------------------------------
(* What files hold. *)

\* The clusters of a file hold one request's data, each its own part.
Filled(p, d) ==
  \A c \in ChainAt(p) : bytes[c] = [data |-> d, part |-> Rank(ChainAt(p), c)]

FilesWhole == \A p \in LiveEntries : ~ At(p).isdir => \E d \in Data : Filled(p, d)

\* Until the next call the buffer holds all of a file that was read, in order.
ReadWhole ==
  reply.op = "read" /\ reply.code = 0 =>
    /\ pc = "idle"
    /\ \E p \in LiveEntries, d \in Data :
         /\ p[1] = reply.parent /\ At(p).name = reply.name /\ ~ At(p).isdir
         /\ Filled(p, d)
         /\ Len(out) = Cardinality(ChainAt(p))
         /\ \A i \in 1 .. Len(out) : out[i] = [data |-> d, part |-> i]

(***************************************************************************)
(* Inductive relative to IInv and FilesInv.                                *)
(***************************************************************************)
ContentsInv == FilesWhole /\ ReadWhole

----------------------------------------------------------------------------
(* Answers. *)

(***************************************************************************)
(* There is no answer while an operation is under way, nor before the      *)
(* first one or after a power loss; a delete knows what it was asked for.  *)
(***************************************************************************)
AnswerInv ==
  /\ pc # "idle" => reply = NoReply
  /\ pc \in {"delete_walk", "delete_fat"} => request.name \in Name

=============================================================================
