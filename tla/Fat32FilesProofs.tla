-------------------------- MODULE Fat32FilesProofs --------------------------
(***************************************************************************)
(* What the driver keeps true of files, for every value of the constants:  *)
(* names are found once, a chain is as long as the size of its file, a     *)
(* read stays in the caller's buffer, and no cluster is lost.              *)
(***************************************************************************)
EXTENDS Fat32SafetyProofs, WellFoundedInduction

USE DEF FAT_CLUSTER_NUMBER, ROOT_CLUSTER_NUMBER, FAT32_FAT_EMPTY_ENTRY,
        FAT32_FAT_END_OF_FILE, CLUSTER_0_VALUE

----------------------------------------------------------------------------
(* Sets of clusters. *)

LEMMA LeastOf ==
  ASSUME NEW S \in SUBSET Nat, S # {}
  PROVE  \E m \in S : (\A x \in S : m =< x) /\ Lowest(S) = {m}
<1> DEFINE R == StrictSubsetOrdering(Nat)
           F == FiniteSubsetsOf(Nat)
           Below(y) == {x \in S : x =< y}
           T == {Below(y) : y \in S}
<1>1. IsWellFoundedOn(R, F)
  BY FS_StrictSubsetOrderingWellFounded
<1>2. T \subseteq F /\ T # {}
  <2>1. \A y \in S : Below(y) \in SUBSET Nat /\ IsFiniteSet(Below(y))
    BY FS_BoundedSetOfNaturals
  <2> QED BY <2>1 DEF FiniteSubsetsOf
<1>3. PICK t \in T : \A u \in T : ~ (<<u, t>> \in R)
  <2> HIDE DEF R, F, T
  <2> QED BY <1>1, <1>2, WFMin
<1>4. PICK m \in S : t = Below(m)
  OBVIOUS
<1>5. ASSUME NEW x \in S, x < m PROVE FALSE
  <2>1. /\ Below(x) \in T /\ Below(m) \in T
        /\ Below(x) \in SUBSET Nat /\ Below(m) \in SUBSET Nat
    OBVIOUS
  <2>2. Below(x) \subseteq Below(m) /\ Below(x) # Below(m)
    <3>1. m \in Below(m) /\ m \notin Below(x)
      BY <1>5
    <3>2. \A z \in S : z =< x => z =< m
      BY <1>5
    <3>3. Below(x) \subseteq Below(m)
      BY <3>2
    <3> QED BY <3>1, <3>3
  <2>3. <<Below(x), Below(m)>> \in R
    <3> HIDE DEF Below
    <3> QED BY <2>1, <2>2 DEF StrictSubsetOrdering
  <2> QED BY <1>3, <1>4, <2>1, <2>3
<1>6. \A x \in S : m =< x
  BY <1>5
<1>7. m \in Lowest(S)
  BY <1>6 DEF Lowest
<1>8. Lowest(S) = {m}
  BY <1>7, LowestLeast
<1> QED BY <1>6, <1>8

LEMMA GreatestOf ==
  ASSUME NEW S \in SUBSET Cluster, S # {}
  PROVE  \E m \in S : \A x \in S : x =< m
<1> DEFINE T == {CLUSTER_MAP_SIZE - x : x \in S}
<1>1. T \in SUBSET Nat /\ T # {}
  BY ClusterFacts, ClusterAssumption
<1>2. PICK n \in T : \A y \in T : n =< y
  BY <1>1, LeastOf
<1>3. PICK m \in S : n = CLUSTER_MAP_SIZE - m
  OBVIOUS
<1>4. ASSUME NEW x \in S PROVE x =< m
  <2>1. CLUSTER_MAP_SIZE - x \in T
    OBVIOUS
  <2>2. CLUSTER_MAP_SIZE - m =< CLUSTER_MAP_SIZE - x
    BY <1>2, <1>3, <2>1
  <2> QED BY <2>2, ClusterFacts, ClusterAssumption
<1> QED BY <1>4

LEMMA ClusterSets ==
  ASSUME NEW S \in SUBSET Cluster
  PROVE  IsFiniteSet(S) /\ Cardinality(S) \in Nat /\ S \in SUBSET Nat
<1>1. IsFiniteSet(Cluster) /\ Cluster \subseteq Nat
  BY ClusterAssumption, FS_Interval DEF Cluster
<1> QED BY <1>1, FS_Subset, FS_CardinalityType

----------------------------------------------------------------------------
(* Chains that go up. *)

\* The links of a set of clusters, each to the next one above.
Upwards(f, S) ==
  \A c \in S :
    LET rest == {x \in S : x > c}
    IN  f[c] \in (IF rest = {} THEN {FAT32_FAT_END_OF_FILE} ELSE Lowest(rest))

\* Clusters linked upwards form one chain, from the lowest.
LEMMA PickedChain ==
  ASSUME NEW f, NEW S \in SUBSET DataCluster, NEW h \in Lowest(S), Upwards(f, S)
  PROVE  Chain(f, h) = S
<1>1. S \in SUBSET Cluster /\ S \in SUBSET Nat /\ S \in SUBSET Int
  BY DataFacts, ClusterSets
<1>2. h \in S /\ \A x \in S : h =< x
  BY <1>1, LowestLeast
<1>3. Closed(f, S)
  <2> SUFFICES ASSUME NEW c \in S, f[c] \in DataCluster PROVE f[c] \in S
    BY DEF Closed
  <2> DEFINE rest == {x \in S : x > c}
  <2>1. rest # {}
    <3>1. f[c] # CLUSTER_MAP_SIZE
      BY ClusterAssumption DEF DataCluster
    <3> QED BY <3>1 DEF Upwards
  <2>2. f[c] \in Lowest(rest)
    BY <2>1 DEF Upwards
  <2> QED BY <2>2, LowestIn
<1>4. Chain(f, h) \subseteq S
  BY <1>2, <1>3, ChainLeast
<1>5. ASSUME NEW T \in SUBSET DataCluster, h \in T, Closed(f, T)
      PROVE  S \subseteq T
  <2>1. SUFFICES ASSUME S \ T # {} PROVE FALSE
    OBVIOUS
  <2>2. PICK m \in S \ T : \A x \in S \ T : m =< x
    BY <1>1, <2>1, LeastOf
  <2> DEFINE B == {x \in S : x < m}
  <2>3. h \in B
    BY <1>1, <1>2, <1>5, <2>2
  <2>4. PICK y \in B : \A x \in B : x =< y
    BY <1>1, <2>3, GreatestOf
  <2>5. y \in T
    BY <1>1, <2>2, <2>4
  <2> DEFINE rest == {x \in S : x > y}
  <2>6. m \in rest /\ \A x \in rest : m =< x
    BY <1>1, <2>2, <2>4
  <2>7. Lowest(rest) = {m}
    <3>1. rest \in SUBSET Int /\ m \in Lowest(rest)
      BY <1>1, <2>6 DEF Lowest
    <3> HIDE DEF rest
    <3> QED BY <3>1, LowestLeast
  <2>8. f[y] = m
    BY <2>4, <2>6, <2>7 DEF Upwards
  <2> QED BY <1>5, <2>2, <2>5, <2>8 DEF Closed
<1>6. S \subseteq Chain(f, h)
  BY <1>5 DEF Chain
<1> QED BY <1>4, <1>6

\* A chain holds nothing below its first cluster.
LEMMA ChainFloor ==
  ASSUME NEW f, Ascending(f), NEW h \in DataCluster
  PROVE  \A x \in Chain(f, h) : h =< x
<1> DEFINE T == {y \in DataCluster : h =< y}
<1>1. T \in SUBSET DataCluster /\ h \in T
  BY DataFacts
<1>2. Closed(f, T)
  <2> SUFFICES ASSUME NEW c \in T, f[c] \in DataCluster PROVE f[c] \in T
    BY DEF Closed
  <2>1. f[c] # FAT32_FAT_EMPTY_ENTRY /\ f[c] \in Int /\ c \in Int /\ h \in Int
    BY DataFacts
  <2>2. c < f[c]
    BY <2>1 DEF Ascending
  <2> QED BY <2>1, <2>2
<1>3. Chain(f, h) \subseteq T
  <2> HIDE DEF T
  <2> QED BY <1>1, <1>2, ChainLeast
<1> QED BY <1>3

\* Every cluster of a chain but the first is linked from one of the chain.
LEMMA ChainLinked ==
  ASSUME NEW f, NEW h \in DataCluster, NEW c \in Chain(f, h), c # h
  PROVE  \E y \in Chain(f, h) : f[y] = c
<1> SUFFICES ASSUME \A y \in Chain(f, h) : f[y] # c PROVE FALSE
  OBVIOUS
<1> DEFINE T == Chain(f, h) \ {c}
<1>1. T \in SUBSET DataCluster /\ h \in T
  BY ChainHead, ChainClosed
<1>2. Closed(f, T)
  BY ChainClosed DEF Closed
<1>3. Chain(f, h) \subseteq T
  <2> HIDE DEF T
  <2> QED BY <1>1, <1>2, ChainLeast
<1> QED BY <1>3

\* No cluster of a chain lies between a cluster and the one it is linked to.
LEMMA ChainNext ==
  ASSUME NEW f, Ascending(f), NEW h \in DataCluster,
         \A x \in Chain(f, h) : f[x] \in Nat \ {0}
  PROVE  \A x, y \in Chain(f, h) : x < y => f[x] =< y
<1> DEFINE S == Chain(f, h)
           Skipped == {y \in S : \E x \in S : x < y /\ y < f[x]}
<1>1. S \subseteq DataCluster /\ S \subseteq Int
  BY ChainClosed, DataFacts
<1>2. \A x \in S : f[x] \in DataCluster => f[x] \in S
  BY ChainClosed DEF Closed
<1>3. Skipped = {}
  <2> SUFFICES ASSUME Skipped # {} PROVE FALSE
    OBVIOUS
  <2>1. Skipped \in SUBSET Nat
    BY <1>1, DataFacts, ClusterSets, ChainClosed
  <2>2. PICK y \in Skipped : \A z \in Skipped : y =< z
    <3> HIDE DEF Skipped
    <3> QED BY <2>1, LeastOf
  <2>3. PICK x \in S : x < y /\ y < f[x]
    OBVIOUS
  <2>4. y # h
    BY <1>1, <2>3, ChainFloor, DataFacts
  <2>5. PICK z \in S : f[z] = y
    BY <2>4, ChainLinked
  <2>6. z < y
    <3>1. z \in DataCluster /\ f[z] # FAT32_FAT_EMPTY_ENTRY
      BY <1>1
    <3> QED BY <2>5, <3>1 DEF Ascending
  <2>7. x \in Int /\ y \in Int /\ z \in Int /\ x # z
    BY <1>1, <2>3, <2>5
  <2>8. CASE z < x
    <3>1. x \in Skipped
      BY <2>3, <2>5, <2>8
    <3> QED BY <2>2, <2>3, <2>7, <3>1
  <2>9. CASE x < z
    <3>1. z \in Skipped
      <4>1. f[x] \in Int /\ z < f[x]
        BY <2>3, <2>6, <2>7
      <4> QED BY <2>9, <4>1
    <3> QED BY <2>2, <2>6, <2>7, <3>1
  <2> QED BY <2>7, <2>8, <2>9
<1>4. ASSUME NEW x \in S, NEW y \in S, x < y, ~ (f[x] =< y) PROVE FALSE
  <2>1. y < f[x]
    BY <1>1, <1>4
  <2> QED BY <1>3, <1>4, <2>1
<1> QED BY <1>4

\* What is left of a chain after its first cluster.
LEMMA ChainTail ==
  ASSUME NEW f, NEW c \in DataCluster
  PROVE  \A x \in Chain(f, c) :
            x = c \/ (f[c] \in DataCluster /\ x \in Chain(f, f[c]))
<1>1. CASE f[c] \in DataCluster
  <2> DEFINE T == {c} \cup Chain(f, f[c])
  <2>1. T \in SUBSET DataCluster /\ c \in T
    BY ChainClosed
  <2>2. f[c] \in T
    BY <1>1, ChainHead
  <2>3. Closed(f, T)
    BY <2>2, ChainClosed DEF Closed
  <2>4. Chain(f, c) \subseteq T
    <3> HIDE DEF T
    <3> QED BY <2>1, <2>3, ChainLeast
  <2> QED BY <1>1, <2>4
<1>2. CASE f[c] \notin DataCluster
  <2>1. Closed(f, {c})
    BY <1>2 DEF Closed
  <2>2. Chain(f, c) \subseteq {c}
    BY <2>1, ChainLeast
  <2> QED BY <2>2
<1> QED BY <1>1, <1>2

----------------------------------------------------------------------------
(* Sizes. *)

\* The count of clusters is the rounded quotient as long as it fits.
LEMMA CeilFits ==
  ASSUME NEW size \in Sizes, Fits(size)
  PROVE  /\ CeilClusters(size) = (size + CLUSTER_SIZE - 1) \div CLUSTER_SIZE
         /\ CeilClusters(size) \in Nat
<1> DEFINE n == (size + CLUSTER_SIZE - 1) \div CLUSTER_SIZE
<1>1. size \in Nat /\ CLUSTER_SIZE \in Nat \ {0} /\ COUNT_RANGE \in Nat \ {0}
  BY SizeAssumption
<1>2. n \in Nat
  BY <1>1
<1>3. n < COUNT_RANGE
  BY <1>1 DEF Fits
<1>4. n % COUNT_RANGE = n
  BY <1>1, <1>2, <1>3
<1> QED BY <1>2, <1>4 DEF CeilClusters

\* What a buffer of so many units holds.
LEMMA ClustersInBuffer ==
  ASSUME NEW r \in Nat, NEW n \in Nat, n =< r \div CLUSTER_SIZE
  PROVE  n * CLUSTER_SIZE =< r
<1>1. CLUSTER_SIZE \in Nat \ {0}
  BY SizeAssumption
<1> DEFINE q == r \div CLUSTER_SIZE
<1>2. q \in Nat /\ q * CLUSTER_SIZE =< r
  BY <1>1
<1> HIDE DEF q
<1>3. n =< q
  BY DEF q
<1>4. n * CLUSTER_SIZE =< q * CLUSTER_SIZE
  BY <1>1, <1>2, <1>3
<1>5. n * CLUSTER_SIZE \in Nat /\ q * CLUSTER_SIZE \in Nat
  BY <1>1, <1>2
<1> QED BY <1>2, <1>4, <1>5

----------------------------------------------------------------------------
(* Steps that leave the tree alone. *)

LEMMA SizesStay ==
  ASSUME SizesFit, SizeMatchesChain, TreeStays
  PROVE  SizesFit' /\ SizeMatchesChain'
<1>1. SizesFit'
  BY DEF SizesFit, TreeStays
<1>2. SizeMatchesChain'
  BY DEF SizeMatchesChain, TreeStays
<1> QED BY <1>1, <1>2

\* A table keeps its entries apart if it is not written, or loses them all.
LEMMA NamesStay ==
  ASSUME NamesApart, Formatted,
         \A c \in Cluster : \/ table'[c] = table[c]
                            \/ \A s \in Slot \ {0, 1} : ~ table'[c][s].used
  PROVE  NamesApart'
<1> SUFFICES ASSUME NEW c \in Cluster, NEW i \in Slot, NEW j \in Slot,
                    i < j, 2 =< j, table'[c][i].used, table'[c][j].used
             PROVE  table'[c][i].name # table'[c][j].name
  BY DEF NamesApart
<1>1. j \in Slot \ {0, 1}
  OBVIOUS
<1>2. table'[c] = table[c]
  BY <1>1
<1> QED BY <1>2 DEF NamesApart

\* Every cluster allocated on the disk is in a chain.
AllUsed ==
  \A c \in DataCluster :
     fat_disk[c] # FAT32_FAT_EMPTY_ENTRY => \E p \in LiveEntries : c \in ChainAt(p)

LEMMA IdleUsesAll ==
  ASSUME NothingLost, pc \in {"idle", "read_walk"}, crashes = 0
  PROVE  AllUsed
  BY DEF NothingLost, AllUsed, Mounted, FormatPhase, WritePhase

LEMMA UsedStays ==
  ASSUME AllUsed, TreeStays, fat_disk' = fat_disk
  PROVE  AllUsed'
  BY DEF AllUsed, TreeStays

LEMMA AllUsedLosesNothing ==
  ASSUME AllUsed', pc' # "off"
  PROVE  NothingLost'
  BY DEF AllUsed, NothingLost

LEMMA IdleFiles ==
  ASSUME FilesInv, Formatted, pc \in {"idle", "read_walk"}, pc' = "idle",
         TreeStays, UNCHANGED <<signed, fat_disk, table, crashes>>
  PROVE  FilesInv'
<1>1. SizesFit' /\ SizeMatchesChain' /\ NamesApart'
  BY SizesStay, NamesStay DEF FilesInv
<1>2. NothingLost'
  <2>1. CASE crashes = 0
    BY <2>1, IdleUsesAll, UsedStays, AllUsedLosesNothing DEF FilesInv
  <2>2. CASE crashes # 0
    BY <2>2 DEF NothingLost
  <2> QED BY <2>1, <2>2
<1> QED BY <1>1, <1>2
        DEF FilesInv, WriteProgress, DataProgress, ReadProgress, WritePhase

LEMMA ClusterWritten ==
  ASSUME TypeOK, NEW c \in Cluster, c # 0, c # 1, NEW t, NEW b,
         WriteCluster(c, t, b)
  PROVE  /\ \A x \in Cluster : table'[x] = IF x = c THEN t ELSE table[x]
         /\ \A x \in Cluster : bytes'[x] = IF x = c THEN b ELSE bytes[x]
         /\ signed' = signed /\ fat_disk' = fat_disk
  BY DEF WriteCluster, TypeOK

----------------------------------------------------------------------------
(* write. *)

LEMMA AcceptedProgress ==
  ASSUME NEW parent \in Opened, NEW name \in Name, NEW size \in Sizes,
         NEW data \in Data \cup {NoData}, Fits(size),
         WriteAccepted(parent, name, size, data), Linked' = {}
  PROVE  WriteProgress'
<1>1. /\ Matches(dir_table', name) = {} /\ request'.name = name
      /\ request'.size = size /\ Cardinality(slot_buf') = Required(size)
  BY DEF WriteAccepted, Picked
<1>2. Matches(dir_table, request.name)' = Matches(dir_table', request'.name)
  BY DEF Matches
<1>3. /\ Fits(request.size)'
      /\ (Cardinality(slot_buf) = Required(request.size))'
  BY <1>1 DEF Fits, Required, CeilClusters
<1> QED BY <1>1, <1>2, <1>3 DEF WriteProgress

LEMMA WriteFolderFiles ==
  ASSUME IInv, FilesInv, NEW parent \in Opened, NEW name \in Name,
         WriteFolder(parent, name)
  PROVE  FilesInv'
<1>1. WriteAccepted(parent, name, 0, NoData)
  BY DEF WriteFolder
<1>2. 0 \in Sizes /\ Fits(0)
  BY SizeAssumption DEF Fits
<1>3. /\ Formatted /\ slot_buf' \subseteq DataCluster
      /\ \A c \in slot_buf' : fat_disk[c] = FAT32_FAT_EMPTY_ENTRY
  BY <1>1, <1>2, AcceptedFacts
<1>4. /\ pc = "idle" /\ pc' = "mkdir_fat" /\ crashes' = crashes
      /\ request'.size = 0
  BY DEF WriteFolder, WriteAccepted
<1>5. TreeStays
  BY WriteFolderSafe
<1> DEFINE init == InitDirectoryTable(name, parent)
<1>6. PICK c \in slot_buf' :
        PutTable(c, [init EXCEPT ![0] = DirEntry(name, c)])
  BY DEF WriteFolder
<1> DEFINE t == [init EXCEPT ![0] = DirEntry(name, c)]
<1>7. \A s \in Slot \ {0, 1} : ~ t[s].used
  BY SlotFacts DEF InitDirectoryTable, NoEntry
<1> HIDE DEF t
<1>8. /\ \A x \in Cluster : table'[x] = IF x = c THEN t ELSE table[x]
      /\ signed' = signed /\ fat_disk' = fat_disk
  <2>1. c \in Cluster /\ c # 0 /\ c # 1
    BY <1>3, DataFacts
  <2>2. WriteCluster(c, t, ZeroChunk)
    BY <1>6 DEF PutTable, t
  <2> QED BY <2>1, <2>2, ClusterWritten DEF IInv
<1>9. NamesApart'
  BY <1>3, <1>7, <1>8, NamesStay DEF FilesInv
<1>10. SizesFit' /\ SizeMatchesChain'
  BY <1>5, SizesStay DEF FilesInv
<1>11. WriteProgress'
  <2>1. Linked' = {}
    BY <1>4 DEF Linked
  <2> QED BY <1>1, <1>2, <2>1, AcceptedProgress
<1>12. NothingLost'
  <2>1. CASE crashes = 0
    BY <1>4, <1>5, <1>8, <2>1, IdleUsesAll, UsedStays, AllUsedLosesNothing
    DEF FilesInv
  <2>2. CASE crashes # 0
    BY <1>4, <2>2 DEF NothingLost
  <2> QED BY <2>1, <2>2
<1> QED BY <1>4, <1>9, <1>10, <1>11, <1>12
        DEF FilesInv, DataProgress, ReadProgress

LEMMA WriteFileFiles ==
  ASSUME IInv, FilesInv, NEW parent \in Opened, NEW name \in Name,
         NEW size \in Sizes, NEW data \in Data, Fits(size),
         WriteFile(parent, name, size, data)
  PROVE  FilesInv'
<1>1. WriteAccepted(parent, name, size, data) /\ size # 0
  BY DEF WriteFile
<1>2. Formatted /\ slot_buf' # {}
  BY <1>1, AcceptedFacts
<1>3. /\ pc = "idle" /\ pc' = "write_fat" /\ todo' = slot_buf'
      /\ crashes' = crashes /\ UNCHANGED <<signed, fat_disk, table>>
      /\ request'.data = data
  BY <1>2 DEF WriteFile, WriteAccepted, disk
<1>4. TreeStays
  BY WriteFileSafe
<1>5. SizesFit' /\ SizeMatchesChain' /\ NamesApart'
  BY <1>2, <1>3, <1>4, SizesStay, NamesStay DEF FilesInv
<1>6. WriteProgress'
  <2>1. Linked' = {}
    BY <1>3 DEF Linked
  <2> QED BY <1>1, <2>1, AcceptedProgress
<1>7. DataProgress'
  BY <1>3 DEF DataProgress
<1>8. NothingLost'
  <2>1. CASE crashes = 0
    BY <1>3, <1>4, <2>1, IdleUsesAll, UsedStays, AllUsedLosesNothing
    DEF FilesInv
  <2>2. CASE crashes # 0
    BY <1>3, <2>2 DEF NothingLost
  <2> QED BY <2>1, <2>2
<1> QED BY <1>3, <1>5, <1>6, <1>7, <1>8 DEF FilesInv, ReadProgress

\* A cell set by a write does not lose what the others keep.
LEMMA LinkLosesNothing ==
  ASSUME NothingLost, Mounted, TreeStays, pc \in WritePhase, pc' \in WritePhase,
         fat_disk \in [Cluster -> Cell], NEW c \in DataCluster, NEW next,
         fat_disk' = [fat_disk EXCEPT ![c] = next],
         Linked \cup {c} \subseteq Linked', crashes' = crashes
  PROVE  NothingLost'
<1> SUFFICES ASSUME crashes = 0, NEW x \in DataCluster,
                    fat_disk'[x] # FAT32_FAT_EMPTY_ENTRY, x # c
             PROVE  (\E p \in LiveEntries' : x \in ChainAt(p)') \/ x \in Linked'
  BY DEF NothingLost, WritePhase
<1>1. fat_disk[x] # FAT32_FAT_EMPTY_ENTRY
  BY DataFacts
<1>2. (\E p \in LiveEntries : x \in ChainAt(p)) \/ x \in Linked
  BY <1>1 DEF NothingLost, WritePhase
<1> QED BY <1>2 DEF TreeStays

LEMMA MkdirFatFiles == ASSUME IInv, FilesInv, MkdirFat PROVE FilesInv'
<1>1. PICK c \in slot_buf : fat' = [fat EXCEPT ![c] = FAT32_FAT_END_OF_FILE]
  BY DEF MkdirFat
<1>2. /\ pc = "mkdir_fat" /\ pc' = "write_parent" /\ crashes' = crashes
      /\ UNCHANGED <<signed, table, request, dir_table, slot_buf>>
      /\ fat_disk' = fat'
  BY DEF MkdirFat, locals
<1>3. request.size = 0 /\ slot_buf = {c} /\ c \in DataCluster /\ c \in Cluster
  BY <1>2, DataFacts DEF IInv, WriteInv, FolderInv, WritePhase
<1>4. TypeOK /\ Formatted /\ Mounted /\ fat = fat_disk
  BY <1>2, MountedIsFormatted
  DEF IInv, Mounted, FormatPhase, MemoryInv, CoherentPhase
<1>5. fat_disk' = [fat_disk EXCEPT ![c] = FAT32_FAT_END_OF_FILE]
  BY <1>1, <1>2, <1>4
<1>6. TreeStays
  BY MkdirFatSafe
<1>7. SizesFit' /\ SizeMatchesChain' /\ NamesApart'
  BY <1>2, <1>4, <1>6, SizesStay, NamesStay DEF FilesInv
<1>8. Linked = {} /\ Linked' = {c}
  BY <1>2, <1>3 DEF Linked
<1>9. WriteProgress'
  <2>1. fat_disk'[c] = FAT32_FAT_END_OF_FILE
    BY <1>3, <1>4, <1>5 DEF TypeOK
  <2>2. {x \in slot_buf' : x > c} = {}
    BY <1>2, <1>3, DataFacts
  <2>3. \A x \in Linked' : fat_disk'[x] \in LinkFrom(x)'
    BY <1>8, <2>1, <2>2 DEF LinkFrom
  <2>4. /\ Matches(dir_table, request.name) = {} /\ Fits(request.size)
        /\ Cardinality(slot_buf) = Required(request.size)
    BY <1>2 DEF FilesInv, WriteProgress, WritePhase
  <2> QED BY <1>2, <2>3, <2>4
          DEF WriteProgress, Matches, Fits, Required, CeilClusters
<1>10. NothingLost'
  <2>1. pc \in WritePhase /\ pc' \in WritePhase
    BY <1>2 DEF WritePhase
  <2> QED BY <1>2, <1>3, <1>4, <1>5, <1>6, <1>8, <2>1, LinkLosesNothing
          DEF FilesInv, TypeOK
<1> QED BY <1>2, <1>3, <1>7, <1>9, <1>10 DEF FilesInv, DataProgress, ReadProgress

LEMMA WriteFatFiles == ASSUME IInv, FilesInv, WriteFat PROVE FilesInv'
<1>1. PICK c \in Lowest(todo), next \in Cell :
        next \in LinkFrom(c) /\ fat' = [fat EXCEPT ![c] = next]
  BY DEF WriteFat
<1>2. /\ pc = "write_fat" /\ pc' = "write_data" /\ crashes' = crashes
      /\ UNCHANGED <<signed, table, bytes, request, dir_table, slot_buf, todo>>
      /\ fat_disk' = fat'
  BY DEF WriteFat, locals
<1>3. slot_buf \subseteq DataCluster /\ todo \subseteq slot_buf
  BY <1>2 DEF IInv, WriteInv, WritePhase
<1>4. c \in slot_buf /\ c \in todo /\ Lowest(todo) = {c}
      /\ c \in DataCluster /\ c \in Cluster
  <2>1. todo \in SUBSET Int
    BY <1>3, DataFacts
  <2> QED BY <1>3, <2>1, LowestLeast, DataFacts
<1>5. TypeOK /\ Formatted /\ Mounted /\ fat = fat_disk
  BY <1>2, MountedIsFormatted
  DEF IInv, Mounted, FormatPhase, MemoryInv, CoherentPhase
<1>6. fat_disk' = [fat_disk EXCEPT ![c] = next]
  BY <1>1, <1>2, <1>5
<1>7. TreeStays
  BY WriteFatSafe
<1>8. SizesFit' /\ SizeMatchesChain' /\ NamesApart'
  BY <1>2, <1>5, <1>7, SizesStay, NamesStay DEF FilesInv
<1>9. Linked = slot_buf \ todo /\ Linked' = (slot_buf \ todo) \cup {c}
  BY <1>2, <1>4 DEF Linked, Lowest
<1>10. WriteProgress'
  <2>1. /\ Matches(dir_table, request.name) = {} /\ Fits(request.size)
        /\ Cardinality(slot_buf) = Required(request.size)
        /\ \A x \in slot_buf \ todo : fat_disk[x] \in LinkFrom(x)
    BY <1>2, <1>9 DEF FilesInv, WriteProgress, WritePhase
  <2>2. \A x : LinkFrom(x)' = LinkFrom(x)
    BY <1>2 DEF LinkFrom, Lowest
  <2>3. ASSUME NEW x \in Linked' PROVE fat_disk'[x] \in LinkFrom(x)'
    <3>1. x \in Cluster
      BY <1>3, <1>4, <1>9, DataFacts
    <3>2. CASE x = c
      BY <1>1, <1>4, <1>5, <1>6, <2>2, <3>2 DEF TypeOK
    <3>3. CASE x # c
      BY <1>4, <1>5, <1>6, <1>9, <2>1, <2>2, <3>1, <3>3 DEF TypeOK
    <3> QED BY <3>2, <3>3
  <2> QED BY <1>2, <2>1, <2>3
          DEF WriteProgress, Matches, Fits, Required, CeilClusters
<1>11. NothingLost'
  <2>1. pc \in WritePhase /\ pc' \in WritePhase
    BY <1>2 DEF WritePhase
  <2> QED BY <1>2, <1>4, <1>5, <1>6, <1>7, <1>9, <2>1, LinkLosesNothing
          DEF FilesInv, TypeOK
<1>12. DataProgress'
  BY <1>2 DEF FilesInv, DataProgress, WritePhase, Rank
<1> QED BY <1>2, <1>8, <1>10, <1>11, <1>12 DEF FilesInv, ReadProgress

LEMMA WriteDataFiles == ASSUME IInv, FilesInv, WriteData PROVE FilesInv'
<1> DEFINE rank == Cardinality(slot_buf \ todo) + 1
<1>1. PICK c \in Lowest(todo) :
        /\ PutBytes(c, [data |-> request.data, part |-> rank])
        /\ todo' = todo \ {c}
  BY DEF WriteData
<1> DEFINE b == [data |-> request.data, part |-> rank]
<1>2. /\ pc = "write_data" /\ crashes' = crashes
      /\ pc' = IF todo' = {} THEN "write_parent" ELSE "write_fat"
      /\ UNCHANGED <<request, dir_table, slot_buf>>
  BY DEF WriteData
<1>3. /\ slot_buf \subseteq DataCluster /\ todo \subseteq slot_buf
      /\ request.size # 0
  BY <1>2 DEF IInv, WriteInv, WritePhase
<1>4. /\ c \in slot_buf /\ c \in todo /\ Lowest(todo) = {c}
      /\ \A y \in todo : c =< y
      /\ c \in Cluster /\ c # 0 /\ c # 1
  <2>1. todo \in SUBSET Int
    BY <1>3, DataFacts
  <2> QED BY <1>3, <2>1, LowestLeast, DataFacts
<1>5. TypeOK /\ Formatted /\ Mounted
  BY <1>2, MountedIsFormatted DEF IInv, Mounted, FormatPhase
<1>6. /\ \A x \in Cluster : table'[x] = IF x = c THEN EmptyTable ELSE table[x]
      /\ \A x \in Cluster : bytes'[x] = IF x = c THEN b ELSE bytes[x]
      /\ fat_disk' = fat_disk
  <2>1. WriteCluster(c, EmptyTable, b)
    BY <1>1 DEF PutBytes
  <2> HIDE DEF b
  <2> QED BY <1>4, <1>5, <2>1, ClusterWritten
<1>7. TreeStays
  BY WriteDataSafe
<1>8. NamesApart'
  BY <1>5, <1>6, NamesStay DEF FilesInv, EmptyTable, NoEntry
<1>9. SizesFit' /\ SizeMatchesChain'
  BY <1>7, SizesStay DEF FilesInv
<1>10. Linked' = Linked
  BY <1>1, <1>2, <1>3, <1>4 DEF Linked
<1>11. WriteProgress'
  <2>1. \A x : LinkFrom(x)' = LinkFrom(x)
    BY <1>2 DEF LinkFrom, Lowest
  <2> QED BY <1>2, <1>6, <1>10, <2>1
          DEF FilesInv, WriteProgress, WritePhase, Matches, Fits, Required,
              CeilClusters
<1>12. DataProgress'
  <2>1. /\ request.data \in Data
        /\ \A x \in slot_buf \ todo, y \in todo : x < y
        /\ \A x \in slot_buf \ todo :
             bytes[x] = [data |-> request.data, part |-> Rank(slot_buf, x)]
    BY <1>2, <1>3 DEF FilesInv, DataProgress, WritePhase
  <2>2. slot_buf \ todo' = (slot_buf \ todo) \cup {c} /\ slot_buf \subseteq Int
    BY <1>1, <1>3, <1>4, DataFacts
  <2>3. \A x \in slot_buf \ todo', y \in todo' : x < y
    BY <1>1, <1>3, <1>4, <2>1, <2>2
  <2>4. Rank(slot_buf, c) = rank
    <3>1. {x \in slot_buf : x =< c} = (slot_buf \ todo) \cup {c}
      <4>1. ASSUME NEW x \in slot_buf
            PROVE  x =< c <=> x \in (slot_buf \ todo) \cup {c}
        <5>1. CASE x \in todo
          BY <1>3, <1>4, <2>2, <5>1
        <5>2. CASE x \notin todo
          BY <1>4, <2>1, <2>2, <5>2
        <5> QED BY <5>1, <5>2
      <4> QED BY <1>4, <4>1
    <3>2. IsFiniteSet(slot_buf \ todo)
      BY <1>5, ClusterSets DEF TypeOK
    <3> QED BY <1>4, <3>1, <3>2, FS_AddElement DEF Rank
  <2>5. ASSUME NEW x \in slot_buf \ todo'
        PROVE  bytes'[x] = [data |-> request.data, part |-> Rank(slot_buf, x)]
    <3>1. x \in Cluster
      BY <1>3, <2>5, DataFacts
    <3> QED BY <1>6, <2>1, <2>2, <2>4, <2>5, <3>1
  <2>6. \A x : Rank(slot_buf, x)' = Rank(slot_buf, x)
    BY <1>2 DEF Rank
  <2> QED BY <1>2, <2>1, <2>3, <2>5, <2>6 DEF DataProgress
<1>13. NothingLost'
  <2>1. pc' \in WritePhase
    BY <1>2 DEF WritePhase
  <2> QED BY <1>2, <1>5, <1>6, <1>7, <1>10, <2>1
          DEF NothingLost, FilesInv, WritePhase, TreeStays
<1> QED BY <1>2, <1>8, <1>9, <1>11, <1>12, <1>13 DEF FilesInv, ReadProgress

\* The clusters of a write that is about to answer are the chain of the entry.
LEMMA NewChain ==
  ASSUME IInv, FilesInv, pc = "write_parent", NEW first \in Lowest(slot_buf)
  PROVE  Chain(fat_disk, first) = slot_buf
<1>1. slot_buf \in SUBSET DataCluster
  BY DEF IInv, WriteInv, WritePhase
<1>2. Upwards(fat_disk, slot_buf)
  BY DEF FilesInv, WriteProgress, WritePhase, Linked, Upwards, LinkFrom
<1> QED BY <1>1, <1>2, PickedChain

LEMMA WriteParentFiles == ASSUME IInv, FilesInv, WriteParent PROVE FilesInv'
<1>1. PICK q \in Place, first \in Lowest(slot_buf) : EntryAdded(q, first)
  BY WriteParentSafe
<1>2. pc = "write_parent" /\ pc' = "idle" /\ crashes' = crashes
  BY DEF WriteParent, Answer
<1>3. /\ request.parent \in Dirs /\ dir_table = table[request.parent]
      /\ Matches(dir_table, request.name) = {} /\ Fits(request.size)
      /\ Cardinality(slot_buf) = Required(request.size)
      /\ request.size \in Sizes
  BY <1>2 DEF IInv, WriteInv, WritePhase, FilesInv, WriteProgress, TypeOK,
              Request
<1>4. Formatted
  BY <1>2, MountedIsFormatted DEF IInv, Mounted, FormatPhase
<1>5. Chain(fat_disk, first) = slot_buf
  BY <1>2, NewChain
<1>6. /\ LiveEntries' = LiveEntries \cup {q}
      /\ \A p \in LiveEntries : At(p)' = At(p) /\ ChainAt(p)' = ChainAt(p)
      /\ At(q)' = NewEntry(first) /\ ChainAt(q)' = slot_buf
      /\ \A c \in Cluster, s \in Slot :
           table'[c][s] = IF c = request.parent /\ s = slot
                          THEN NewEntry(first) ELSE table[c][s]
  BY <1>1, <1>5 DEF EntryAdded
<1>7. NamesApart'
  <2>1. \A s \in Slot : table[request.parent][s].name # request.name
    BY <1>3 DEF Matches
  <2> SUFFICES ASSUME NEW c \in Cluster, NEW i \in Slot, NEW j \in Slot,
                      i < j, 2 =< j, table'[c][i].used, table'[c][j].used
               PROVE  table'[c][i].name # table'[c][j].name
    BY DEF NamesApart
  <2>2. i # j
    BY SlotFacts
  <2>3. CASE c = request.parent /\ i = slot
    BY <1>6, <2>1, <2>2, <2>3 DEF NewEntry
  <2>4. CASE c = request.parent /\ j = slot
    BY <1>6, <2>1, <2>2, <2>4 DEF NewEntry
  <2>5. CASE c # request.parent \/ slot \notin {i, j}
    BY <1>4, <1>6, <2>5 DEF FilesInv, NamesApart
  <2> QED BY <2>3, <2>4, <2>5
<1>8. SizesFit'
  <2>1. At(q)'.size = request.size
    BY <1>6 DEF NewEntry
  <2> QED BY <1>3, <1>6, <2>1 DEF FilesInv, SizesFit, Fits
<1>9. SizeMatchesChain'
  <2>1. /\ At(q)'.size = request.size /\ At(q)'.isdir = (request.size = 0)
        /\ Cardinality(ChainAt(q)') = Required(request.size)
    BY <1>3, <1>6 DEF NewEntry
  <2>2. Required(request.size) =
          IF request.size = 0
          THEN 1 ELSE (request.size + CLUSTER_SIZE - 1) \div CLUSTER_SIZE
    BY <1>3, CeilFits DEF Required
  <2> QED BY <1>6, <2>1, <2>2 DEF FilesInv, SizeMatchesChain
<1>10. NothingLost'
  <2>1. ASSUME crashes = 0 PROVE AllUsed'
    <3>1. fat_disk' = fat_disk
      <4>1. request.parent \in Cluster /\ request.parent # 0
            /\ request.parent # 1 /\ TypeOK
        BY <1>3, DirFacts DEF IInv
      <4>2. PICK t, b : WriteCluster(request.parent, t, b)
        BY DEF WriteParent, PutTable
      <4> QED BY <4>1, <4>2, ClusterWritten
    <3>2. Mounted /\ Linked = slot_buf
      BY <1>2 DEF Mounted, FormatPhase, Linked
    <3> QED BY <1>2, <1>6, <2>1, <3>1, <3>2 DEF FilesInv, NothingLost, AllUsed
  <2>2. CASE crashes = 0
    BY <1>2, <2>1, <2>2, AllUsedLosesNothing
  <2>3. CASE crashes # 0
    BY <1>2, <2>3 DEF NothingLost
  <2> QED BY <2>2, <2>3
<1> QED BY <1>2, <1>7, <1>8, <1>9, <1>10
        DEF FilesInv, WriteProgress, DataProgress, ReadProgress, WritePhase

----------------------------------------------------------------------------
(* delete. *)

LEMMA DeleteEntryFiles ==
  ASSUME IInv, FilesInv, NEW parent \in Opened, NEW name \in Name,
         ~ OwnName(parent, name), DeleteEntry(parent, name)
  PROVE  FilesInv'
<1>1. PICK q \in LiveEntries : EntryRemoved(q, parent)
  BY DeleteEntrySafe
<1>2. /\ pc = "idle" /\ pc' = "delete_walk" /\ crashes' = crashes
      /\ parent \in Dirs
  BY DEF DeleteEntry, Opened
<1>3. Formatted
  BY <1>2, MountedIsFormatted DEF IInv, Mounted, FormatPhase
<1>4. /\ LiveEntries' = LiveEntries \ {q}
      /\ \A p \in LiveEntries' : At(p)' = At(p) /\ ChainAt(p)' = ChainAt(p)
      /\ cur' = At(q).cluster
      /\ \A c \in Cluster, s \in Slot :
           table'[c][s] = IF <<c, s>> = q THEN NoEntry ELSE table[c][s]
  BY <1>1 DEF EntryRemoved
<1>5. fat_disk' = fat_disk
  <2>1. parent \in Cluster /\ parent # 0 /\ parent # 1 /\ TypeOK
    BY <1>2, DirFacts DEF IInv
  <2>2. PICK t, b : WriteCluster(parent, t, b)
    BY DEF DeleteEntry, PutTable
  <2> QED BY <2>1, <2>2, ClusterWritten
<1>6. NamesApart'
  <2> SUFFICES ASSUME NEW c \in Cluster, NEW i \in Slot, NEW j \in Slot,
                      i < j, 2 =< j, table'[c][i].used, table'[c][j].used
               PROVE  table'[c][i].name # table'[c][j].name
    BY DEF NamesApart
  <2>1. \A s \in Slot : table'[c][s].used => table'[c][s] = table[c][s]
    BY <1>4 DEF NoEntry
  <2> QED BY <1>3, <2>1 DEF FilesInv, NamesApart
<1>7. SizesFit'
  BY <1>4 DEF FilesInv, SizesFit
<1>8. SizeMatchesChain'
  BY <1>4 DEF FilesInv, SizeMatchesChain
<1>9. NothingLost'
  <2> SUFFICES ASSUME crashes = 0, NEW x \in DataCluster,
                      fat_disk'[x] # FAT32_FAT_EMPTY_ENTRY
               PROVE  \/ \E p \in LiveEntries' : x \in ChainAt(p)'
                      \/ x \in Chain(fat_disk', cur')
    BY <1>2 DEF NothingLost, Chain, Closed
  <2>1. AllUsed
    BY <1>2, IdleUsesAll DEF FilesInv
  <2>2. PICK p \in LiveEntries : x \in ChainAt(p)
    BY <1>5, <2>1 DEF AllUsed
  <2>3. CASE p = q
    BY <1>4, <1>5, <2>2, <2>3 DEF ChainAt
  <2>4. CASE p # q
    BY <1>4, <2>2, <2>4
  <2> QED BY <2>3, <2>4
<1> QED BY <1>2, <1>6, <1>7, <1>8, <1>9
        DEF FilesInv, WriteProgress, DataProgress, ReadProgress, WritePhase

LEMMA DeleteWalkFiles == ASSUME IInv, FilesInv, DeleteWalk PROVE FilesInv'
<1>1. pc = "delete_walk" /\ crashes' = crashes
  BY DEF DeleteWalk
<1>2. cur \in DataCluster /\ fat[cur] = fat_disk[cur]
  <2>1. PICK D \in SUBSET DataCluster :
          cur \in D /\ \A c \in Cluster : c >= cur => fat[c] = fat_disk[c]
    BY <1>1 DEF IInv, DeleteInv
  <2> QED BY <2>1, DataFacts
<1>3. TypeOK /\ Formatted /\ Mounted
  BY <1>1, MountedIsFormatted DEF IInv, Mounted, FormatPhase
<1>4. cur \in Cluster /\ cur # 0 /\ cur # 1
  BY <1>2, DataFacts
<1>5. /\ cur' = fat[cur] /\ fat' = [fat EXCEPT ![cur] = FAT32_FAT_EMPTY_ENTRY]
      /\ WriteCluster(cur, EmptyTable, ZeroChunk)
      /\ pc' = IF fat[cur] = FAT32_FAT_END_OF_FILE
               THEN "delete_fat" ELSE "delete_walk"
  BY <1>4 DEF DeleteWalk, PutTable
<1>6. /\ \A x \in Cluster : table'[x] = IF x = cur THEN EmptyTable ELSE table[x]
      /\ fat_disk' = fat_disk
  BY <1>3, <1>4, <1>5, ClusterWritten
<1>7. TreeStays
  BY DeleteWalkSafe
<1>8. NamesApart'
  BY <1>3, <1>6, NamesStay DEF FilesInv, EmptyTable, NoEntry
<1>9. SizesFit' /\ SizeMatchesChain'
  BY <1>7, SizesStay DEF FilesInv
<1>10. NothingLost'
  <2> SUFFICES ASSUME crashes = 0, NEW x \in DataCluster,
                      fat_disk[x] # FAT32_FAT_EMPTY_ENTRY
               PROVE  \/ \E p \in LiveEntries' : x \in ChainAt(p)'
                      \/ fat'[x] = FAT32_FAT_EMPTY_ENTRY
                      \/ pc' = "delete_walk" /\ x \in Chain(fat_disk', cur')
    BY <1>1, <1>5, <1>6 DEF NothingLost, Chain, Closed
  <2>1. \/ \E p \in LiveEntries : x \in ChainAt(p)
        \/ fat[x] = FAT32_FAT_EMPTY_ENTRY
        \/ x \in Chain(fat_disk, cur)
    BY <1>1, <1>3 DEF FilesInv, NothingLost, WritePhase
  <2>2. CASE \E p \in LiveEntries : x \in ChainAt(p)
    BY <1>7, <2>2 DEF TreeStays
  <2>3. CASE fat[x] = FAT32_FAT_EMPTY_ENTRY
    BY <1>3, <1>4, <1>5, <2>3, DataFacts DEF TypeOK
  <2>4. CASE x \in Chain(fat_disk, cur)
    <3>1. CASE x = cur
      BY <1>3, <1>4, <1>5, <3>1 DEF TypeOK
    <3>2. CASE x # cur
      <4>1. fat_disk[cur] \in DataCluster /\ x \in Chain(fat_disk, fat_disk[cur])
        BY <1>2, <2>4, <3>2, ChainTail
      <4>2. fat_disk[cur] # CLUSTER_MAP_SIZE
        BY <4>1, ClusterAssumption DEF DataCluster
      <4> QED BY <1>2, <1>5, <1>6, <4>1, <4>2
    <3> QED BY <3>1, <3>2
  <2> QED BY <2>1, <2>2, <2>3, <2>4
<1> QED BY <1>5, <1>8, <1>9, <1>10
        DEF FilesInv, WriteProgress, DataProgress, ReadProgress, WritePhase

LEMMA DeleteFatFiles == ASSUME IInv, FilesInv, DeleteFat PROVE FilesInv'
<1>1. /\ pc = "delete_fat" /\ pc' = "idle" /\ crashes' = crashes
      /\ UNCHANGED <<signed, table, fat>> /\ fat_disk' = fat
  BY DEF DeleteFat, Answer
<1>2. Formatted /\ Mounted
  BY <1>1, MountedIsFormatted DEF IInv, Mounted, FormatPhase
<1>3. TreeStays
  BY DeleteFatSafe
<1>4. SizesFit' /\ SizeMatchesChain' /\ NamesApart'
  BY <1>1, <1>2, <1>3, SizesStay, NamesStay DEF FilesInv
<1>5. NothingLost'
  <2> SUFFICES ASSUME crashes = 0, NEW x \in DataCluster,
                      fat[x] # FAT32_FAT_EMPTY_ENTRY
               PROVE  \E p \in LiveEntries' : x \in ChainAt(p)'
    BY <1>1 DEF NothingLost
  <2>1. fat_disk[x] = fat[x]
    BY <1>1, DataFacts DEF IInv, DeleteInv
  <2>2. \E p \in LiveEntries : x \in ChainAt(p)
    BY <1>1, <1>2, <2>1 DEF FilesInv, NothingLost, WritePhase
  <2> QED BY <1>3, <2>2 DEF TreeStays
<1> QED BY <1>1, <1>4, <1>5
        DEF FilesInv, WriteProgress, DataProgress, ReadProgress, WritePhase

----------------------------------------------------------------------------
(* read. *)

LEMMA ReadBeginFiles ==
  ASSUME IInv, FilesInv, NEW parent \in Opened, NEW name \in Name,
         NEW size \in Sizes, ReadBegin(parent, name, size)
  PROVE  FilesInv'
<1>1. /\ TreeStays
      /\ \E q \in LiveEntries :
           /\ q[1] = parent /\ At(q).name = name /\ ~ At(q).isdir
           /\ size \div CLUSTER_SIZE >= CeilClusters(At(q).size)
           /\ cur' = At(q).cluster
  BY ReadBeginSafe
<1>2. PICK q \in LiveEntries :
        /\ q[1] = parent /\ At(q).name = name /\ ~ At(q).isdir
        /\ size \div CLUSTER_SIZE >= CeilClusters(At(q).size)
        /\ cur' = At(q).cluster
  BY <1>1
<1>3. /\ pc = "idle" /\ pc' = "read_walk" /\ crashes' = crashes /\ out' = << >>
      /\ request' = Lookup(parent, name, size)
      /\ UNCHANGED <<signed, fat_disk, table, bytes>>
  BY DEF ReadBegin, disk
<1>4. Formatted /\ DiskInv
  BY <1>3, MountedIsFormatted DEF IInv, Mounted, FormatPhase
<1>5. SizesFit' /\ SizeMatchesChain' /\ NamesApart'
  BY <1>1, <1>3, <1>4, SizesStay, NamesStay DEF FilesInv
<1>6. NothingLost'
  <2>1. CASE crashes = 0
    BY <1>1, <1>3, <2>1, IdleUsesAll, UsedStays, AllUsedLosesNothing
    DEF FilesInv
  <2>2. CASE crashes # 0
    BY <1>3, <2>2 DEF NothingLost
  <2> QED BY <2>1, <2>2
<1>7. ReadProgress'
  <2>1. cur' \in DataCluster /\ ChainAt(q) = Chain(fat_disk, cur')
    BY <1>2, <1>4 DEF DiskInv, DiskChains, ChainAt
  <2>2. cur' \in ChainAt(q)
    BY <2>1, ChainHead
  <2>3. \A x \in ChainAt(q) : ~ (x < cur')
    <3>1. \A x \in ChainAt(q) : cur' =< x /\ x \in DataCluster
      BY <1>4, <2>1, ChainFloor, ChainClosed DEF DiskInv
    <3> QED BY <2>1, <3>1, DataFacts
  <2>4. Len(out') = Cardinality({x \in ChainAt(q) : x < cur'})
    <3>1. {x \in ChainAt(q) : x < cur'} = {}
      BY <2>3
    <3> QED BY <1>3, <3>1, FS_EmptySet
  <2>5. /\ q \in LiveEntries' /\ At(q)' = At(q) /\ ChainAt(q)' = ChainAt(q)
    BY <1>1 DEF TreeStays
  <2>6. CeilClusters(At(q).size)' = CeilClusters(At(q).size)
    BY <2>5 DEF CeilClusters
  <2>7. 1 .. Len(out') = {}
    BY <1>3
  <2>8. /\ request'.parent = parent /\ request'.name = name
        /\ request'.size = size
    BY <1>3 DEF Lookup
  <2> QED BY <1>2, <1>3, <2>2, <2>4, <2>5, <2>6, <2>7, <2>8 DEF ReadProgress
<1> QED BY <1>3, <1>5, <1>6, <1>7
        DEF FilesInv, WriteProgress, DataProgress, WritePhase

\* The links of a live chain.
LEMMA LiveLinks ==
  ASSUME IInv, Formatted, NEW p \in LiveEntries
  PROVE  /\ Ascending(fat_disk) /\ At(p).cluster \in DataCluster
         /\ ChainAt(p) \in SUBSET Cluster
         /\ \A x \in ChainAt(p) : fat_disk[x] \in Nat \ {0}
         /\ \A x, y \in ChainAt(p) : x < y => fat_disk[x] =< y
<1>1. TypeOK /\ DiskInv
  BY DEF IInv
<1>2. Ascending(fat_disk) /\ At(p).cluster \in DataCluster
  BY <1>1 DEF DiskInv, DiskChains
<1>3. ChainAt(p) \in SUBSET Cluster
  BY ChainClosed, DataFacts DEF ChainAt
<1>4. \A x \in ChainAt(p) : fat_disk[x] \in Nat \ {0}
  BY <1>1, <1>3, ClusterAssumption DEF DiskInv, DiskChains, TypeOK, Cell
<1>5. \A x, y \in ChainAt(p) : x < y => fat_disk[x] =< y
  BY <1>2, <1>4, ChainNext DEF ChainAt
<1> QED BY <1>2, <1>3, <1>4, <1>5

LEMMA RankFacts ==
  ASSUME NEW S \in SUBSET Cluster, NEW n \in Int
  PROVE  /\ \A c \in S : c < n => Rank(S, c) \in 1 .. Cardinality({x \in S : x < n})
         /\ n \in S => Rank(S, n) = Cardinality({x \in S : x < n}) + 1
<1> DEFINE B == {x \in S : x < n}
<1>1. S \in SUBSET Nat /\ IsFiniteSet(S) /\ IsFiniteSet(B)
  BY ClusterSets
<1>2. ASSUME NEW c \in S, c < n PROVE Rank(S, c) \in 1 .. Cardinality(B)
  <2> DEFINE A == {x \in S : x =< c}
  <2>1. A \in SUBSET B
    <3>1. \A x \in S : x =< c => x < n
      BY <1>1, <1>2
    <3> QED BY <3>1
  <2>2. IsFiniteSet(A) /\ Cardinality(A) =< Cardinality(B)
    BY <1>1, <2>1, FS_Subset
  <2>3. A # {} /\ Cardinality(A) \in Nat /\ Cardinality(B) \in Nat
    BY <1>1, <2>2, FS_CardinalityType
  <2>4. Cardinality(A) # 0
    BY <2>2, <2>3, FS_EmptySet
  <2> QED BY <2>2, <2>3, <2>4 DEF Rank
<1>3. ASSUME n \in S PROVE Rank(S, n) = Cardinality(B) + 1
  <2>1. \A x \in S : x =< n <=> x < n \/ x = n
    BY <1>1
  <2>2. {x \in S : x =< n} = B \cup {n} /\ n \notin B
    <3>1. ASSUME NEW x
          PROVE  x \in {z \in S : z =< n} <=> x \in B \cup {n}
      BY <1>3, <2>1
    <3>2. n \notin B
      BY <1>1, <1>3
    <3> QED BY <3>1, <3>2
  <2> QED BY <1>1, <2>2, FS_AddElement DEF Rank
<1> QED BY <1>2, <1>3

LEMMA ReadClusterFiles == ASSUME IInv, FilesInv, ReadCluster PROVE FilesInv'
<1>1. /\ pc = "read_walk" /\ cur # FAT32_FAT_END_OF_FILE /\ crashes' = crashes
      /\ UNCHANGED <<signed, fat_disk, table, bytes, fat, request>>
  BY DEF ReadCluster, disk
<1>2. TypeOK /\ Formatted /\ fat = fat_disk
  BY <1>1, MountedIsFormatted
  DEF IInv, Mounted, FormatPhase, MemoryInv, CoherentPhase
<1>3. PICK p \in LiveEntries :
       /\ p[1] = request.parent /\ At(p).name = request.name /\ ~ At(p).isdir
       /\ request.size \div CLUSTER_SIZE >= CeilClusters(At(p).size)
       /\ cur \in ChainAt(p) \cup {FAT32_FAT_END_OF_FILE}
       /\ Len(out) = Cardinality({x \in ChainAt(p) : x < cur})
       /\ \A i \in 1 .. Len(out) :
            \E c \in ChainAt(p) :
               c < cur /\ Rank(ChainAt(p), c) = i /\ out[i] = bytes[c]
  BY <1>1 DEF FilesInv, ReadProgress
<1> DEFINE S == ChainAt(p)
<1>4. /\ Ascending(fat_disk) /\ At(p).cluster \in DataCluster
      /\ S \in SUBSET Cluster /\ cur \in S
      /\ \A x \in S : fat_disk[x] \in Nat \ {0}
      /\ \A y \in S : cur < y => fat_disk[cur] =< y
  BY <1>1, <1>2, <1>3, LiveLinks
<1>5. /\ S \subseteq Nat /\ cur \in Cluster /\ cur \in Nat
      /\ S \subseteq DataCluster
  BY <1>4, ClusterSets, ChainClosed DEF ChainAt
<1>6. /\ pc' = "read_walk" /\ cur' = fat_disk[cur]
      /\ out' = Append(out, bytes[cur])
  BY <1>1, <1>2, <1>5 DEF ReadCluster
<1>7. /\ cur < fat_disk[cur] /\ fat_disk[cur] =< FAT32_FAT_END_OF_FILE
      /\ fat_disk[cur] \in Nat
  BY <1>4, <1>5 DEF Ascending
<1>8. cur' \in S \cup {FAT32_FAT_END_OF_FILE}
  <2>1. CASE fat_disk[cur] # FAT32_FAT_END_OF_FILE
    <3>1. fat_disk[cur] \in DataCluster
      BY <1>4, <1>5, <1>7, <2>1, ClusterAssumption DEF DataCluster
    <3> QED BY <1>4, <1>6, <3>1, ChainClosed DEF ChainAt, Closed
  <2> QED BY <1>6, <2>1
<1>9. \A x \in S : x < cur' <=> x < cur \/ x = cur
  BY <1>4, <1>5, <1>6, <1>7
<1>10. out \in Seq(Chunk) /\ bytes[cur] \in Chunk
  BY <1>2, <1>5 DEF TypeOK
<1> DEFINE below == {x \in S : x < cur}
           below2 == {x \in S : x < cur'}
<1>11. Rank(S, cur) = Len(out) + 1
  <2>1. Rank(S, cur) = Cardinality({x \in S : x < cur}) + 1
    <3>1. S \in SUBSET Cluster /\ cur \in S /\ cur \in Int
      BY <1>4, <1>5
    <3> HIDE DEF S
    <3> QED BY ONLY <3>1, RankFacts, Zenon
  <2>2. Len(out) = Cardinality({x \in S : x < cur})
    BY <1>3
  <2> QED BY <2>1, <2>2
<1>12. Len(out') = Cardinality(below2)
  <2>1. below2 = below \cup {cur} /\ cur \notin below
    BY <1>4, <1>5, <1>9
  <2>2. IsFiniteSet(below)
    BY <1>4, ClusterSets
  <2>3. Cardinality(below2) = Cardinality(below) + 1
    BY <2>1, <2>2, FS_AddElement
  <2> QED BY <1>3, <1>6, <1>10, <2>3
<1>13. \A i \in 1 .. Len(out') :
         \E c \in S : c < cur' /\ Rank(S, c) = i /\ out'[i] = bytes[c]
  <2> SUFFICES ASSUME NEW i \in 1 .. Len(out')
               PROVE  \E c \in S : c < cur' /\ Rank(S, c) = i /\ out'[i] = bytes[c]
    OBVIOUS
  <2> HIDE DEF S
  <2>1. Len(out') = Len(out) + 1 /\ Len(out) \in Nat
    BY <1>6, <1>10
  <2>2. CASE i = Len(out) + 1
    BY <1>4, <1>5, <1>6, <1>9, <1>10, <1>11, <2>2
  <2>3. CASE i # Len(out) + 1
    <3>1. i \in 1 .. Len(out)
      BY <2>1, <2>3
    <3>2. PICK c \in S : c < cur /\ Rank(S, c) = i /\ out[i] = bytes[c]
      BY <1>3, <3>1 DEF S
    <3>3. out'[i] = out[i]
      BY <1>6, <1>10, <3>1
    <3> QED BY <1>9, <3>2, <3>3
  <2> QED BY <2>2, <2>3
<1>14. TreeStays
  BY ReadClusterSafe
<1>15. ReadProgress'
  <2>1. p \in LiveEntries' /\ At(p)' = At(p) /\ ChainAt(p)' = S
    BY <1>14 DEF TreeStays
  <2>2. CeilClusters(At(p).size)' = CeilClusters(At(p).size)
    BY <2>1 DEF CeilClusters
  <2>3. \A c : Rank(ChainAt(p), c)' = Rank(S, c)
    BY <2>1 DEF Rank
  <2> HIDE DEF S
  <2> QED BY <1>1, <1>3, <1>6, <1>8, <1>12, <1>13, <2>1, <2>2, <2>3
          DEF ReadProgress
<1>16. SizesFit' /\ SizeMatchesChain' /\ NamesApart'
  BY <1>1, <1>2, <1>14, SizesStay, NamesStay DEF FilesInv
<1>17. NothingLost'
  <2>1. CASE crashes = 0
    BY <1>1, <1>6, <1>14, <2>1, IdleUsesAll, UsedStays, AllUsedLosesNothing
    DEF FilesInv
  <2>2. CASE crashes # 0
    BY <1>1, <2>2 DEF NothingLost
  <2> QED BY <2>1, <2>2
<1> QED BY <1>6, <1>15, <1>16, <1>17
        DEF FilesInv, WriteProgress, DataProgress, WritePhase

----------------------------------------------------------------------------
(* Power. *)

LEMMA CrashFiles == ASSUME IInv, FilesInv, Crash \/ TornFat PROVE FilesInv'
<1>1. /\ pc' = "off" /\ crashes' = crashes + 1
      /\ pc # "off" /\ pc \notin FormatPhase
      /\ UNCHANGED <<signed, table>>
  BY DEF Crash, PowerLoss, TornFat, Forget, disk, FormatPhase
<1>2. TreeStays
  BY CrashSafe
<1>3. Formatted /\ TypeOK
  BY <1>1, MountedIsFormatted DEF IInv, Mounted
<1>4. SizesFit' /\ SizeMatchesChain' /\ NamesApart'
  BY <1>1, <1>2, <1>3, SizesStay, NamesStay DEF FilesInv
<1>5. crashes' # 0
  BY <1>1, <1>3, BoundAssumption DEF TypeOK
<1> QED BY <1>1, <1>4, <1>5
        DEF FilesInv, WriteProgress, DataProgress, ReadProgress, WritePhase,
            NothingLost

\* An empty disk has nothing to keep apart.
LEMMA BlankFiles ==
  ASSUME LiveEntries' = {}, pc' \in FormatPhase \cup {"idle"}
  PROVE  /\ SizesFit' /\ SizeMatchesChain' /\ NamesApart'
         /\ WriteProgress' /\ DataProgress' /\ ReadProgress'
<1>1. NamesApart'
  <2> SUFFICES ASSUME NEW c \in Cluster, NEW i \in Slot, NEW j \in Slot,
                      i < j, 2 =< j, table'[c][j].used
               PROVE  FALSE
    BY DEF NamesApart
  <2>1. <<c, j>> \in LiveEntries'
    <3>1. j \notin {0, 1}
      OBVIOUS
    <3> QED BY <3>1 DEF LiveEntries, Place, At
  <2> QED BY <2>1
<1> QED BY <1>1 DEF SizesFit, SizeMatchesChain, WriteProgress, DataProgress,
                    ReadProgress, WritePhase, FormatPhase

LEMMA BlankHasNoEntriesNext ==
  (~ Formatted)' /\ BlankDisk' => (LiveEntries = {} /\ LiveDirs = {})'
  BY BlankHasNoEntries, PTL

LEMMA BootFiles == ASSUME IInv, FilesInv, Boot PROVE FilesInv'
<1>1. CASE BootFormat \/ FormatFat \/ FormatName
  <2>1. pc' \in FormatPhase
    BY <1>1 DEF BootFormat, FormatFat, FormatName, FormatPhase
  <2>2. (~ Formatted)' /\ BlankDisk'
    BY <2>1, BootSafe DEF Boot, Formatted, IInv, DiskInv
  <2>3. LiveEntries' = {}
    BY <2>2, BlankHasNoEntriesNext
  <2>4. NothingLost'
    BY <2>1 DEF NothingLost, Mounted, FormatPhase
  <2> QED BY <2>1, <2>3, <2>4, BlankFiles DEF FilesInv
<1>2. CASE FormatRoot
  <2>1. LiveEntries' = {} /\ fat_disk' = NewFat /\ pc' = "idle"
    BY <1>2, FormatRootSafe DEF FormatRoot
  <2>2. AllUsed'
    BY <2>1, DataFacts DEF AllUsed, NewFat
  <2> QED BY <2>1, <2>2, BlankFiles, AllUsedLosesNothing DEF FilesInv
<1>3. CASE BootLoad
  <2>1. /\ pc = "off" /\ pc' = "idle" /\ signed /\ crashes' = crashes
        /\ UNCHANGED <<signed, table, fat_disk>>
    BY <1>3 DEF BootLoad, disk
  <2>2. Formatted /\ DiskInv
    BY <2>1 DEF Formatted, FormatPhase, IInv
  <2>3. TreeStays
    BY <2>1, <2>2, DiskStays DEF TreeStays, FormatPhase
  <2>4. SizesFit' /\ SizeMatchesChain' /\ NamesApart'
    BY <2>1, <2>2, <2>3, SizesStay, NamesStay DEF FilesInv
  <2>5. NothingLost'
    BY <2>1 DEF FilesInv, NothingLost
  <2> QED BY <2>1, <2>4, <2>5
          DEF FilesInv, WriteProgress, DataProgress, ReadProgress, WritePhase
<1> QED BY <1>1, <1>2, <1>3 DEF Boot

----------------------------------------------------------------------------
(* All steps. *)

LEMMA AnswerFiles ==
  ASSUME IInv, FilesInv, pc \in {"idle", "read_walk"}, pc' = "idle", TypeOK',
         UNCHANGED <<disk, fat, crashes>>
  PROVE  FilesInv'
<1>1. TreeStays /\ UNCHANGED <<signed, fat_disk, table>>
  BY AnswerSafe DEF disk
<1>2. Formatted
  BY MountedIsFormatted DEF IInv, Mounted, FormatPhase
<1> QED BY <1>1, <1>2, IdleFiles

LEMMA CarefulRequestFiles ==
  ASSUME IInv, FilesInv, CarefulRequest
  PROVE  FilesInv'
<1>1. TypeOK'
  BY CarefulRequestType DEF IInv
<1>2. ASSUME NEW parent \in Opened, NEW name \in Name, NEW size \in Sizes,
             \/ WriteReject(parent, name, size)
             \/ DeleteReject(parent, name)
             \/ ReadReject(parent, name, size)
      PROVE  FilesInv'
  <2>1. pc = "idle" /\ pc' = "idle" /\ UNCHANGED <<disk, fat, crashes>>
    BY <1>2 DEF WriteReject, DeleteReject, ReadReject, Answer
  <2> QED BY <1>1, <2>1, AnswerFiles
<1>3. ASSUME NEW parent \in Dirs, NEW name \in Name, NEW roomy \in BOOLEAN,
             ReadDirectory(parent, name, roomy)
      PROVE  FilesInv'
  <2>1. pc = "idle" /\ pc' = "idle" /\ UNCHANGED <<disk, fat, crashes>>
    BY <1>3 DEF ReadDirectory, Answer
  <2> QED BY <1>1, <2>1, AnswerFiles
<1>4. 0 \in Sizes
  BY SizeAssumption
<1> QED BY <1>2, <1>3, <1>4, WriteFileFiles, WriteFolderFiles, DeleteEntryFiles,
           ReadBeginFiles
        DEF CarefulRequest

LEMMA DriverFiles == ASSUME IInv, FilesInv, Driver PROVE FilesInv'
<1>1. CASE ReadDone
  <2>1. /\ pc = "read_walk" /\ pc' = "idle"
        /\ UNCHANGED <<disk, fat, crashes>>
    BY <1>1 DEF ReadDone, Answer
  <2>2. TypeOK'
    BY DriverType DEF IInv
  <2> QED BY <2>1, <2>2, AnswerFiles
<1> QED BY <1>1, MkdirFatFiles, WriteFatFiles, WriteDataFiles, WriteParentFiles,
           DeleteWalkFiles, DeleteFatFiles, ReadClusterFiles
        DEF Driver

LEMMA StutterFiles == ASSUME FilesInv, UNCHANGED vars PROVE FilesInv'
<1>1. UNCHANGED <<signed, fat_disk, table, bytes, fat, pc, request, dir_table,
                  slot, slot_buf, todo, cur, out, listing, reply, crashes>>
  BY DEF vars, disk, locals
<1>2. LiveEntries' = LiveEntries /\ \A p : At(p)' = At(p)
  BY <1>1 DEF LiveEntries, At
<1>3. \A p : ChainAt(p)' = ChainAt(p)
  BY <1>1, PrimedChain DEF ChainAt, At
<1>4. \A x : LinkFrom(x)' = LinkFrom(x)
  BY <1>1 DEF LinkFrom, Lowest
<1>5. Linked' = Linked
  BY <1>1 DEF Linked, Lowest
<1>6. \A S, x : Rank(S, x)' = Rank(S, x)
  BY DEF Rank
<1>7. NamesApart' /\ SizesFit' /\ SizeMatchesChain'
  BY <1>1, <1>2, <1>3
  DEF FilesInv, NamesApart, Formatted, FormatPhase, SizesFit, Fits,
      SizeMatchesChain
<1>8. WriteProgress'
  BY <1>1, <1>4, <1>5
  DEF FilesInv, WriteProgress, WritePhase, Matches, Fits, Required,
      CeilClusters
<1>9. DataProgress'
  BY <1>1 DEF FilesInv, DataProgress, WritePhase, Rank
<1>10. ReadProgress'
  <2>1. \A p : CeilClusters(At(p).size)' = CeilClusters(At(p).size)
    BY <1>2 DEF CeilClusters
  <2>2. \A p, x : Rank(ChainAt(p), x)' = Rank(ChainAt(p), x)
    BY <1>3 DEF Rank
  <2> QED BY <1>1, <1>2, <1>3, <2>1, <2>2 DEF FilesInv, ReadProgress
<1>11. NothingLost'
  <2>1. Chain(fat_disk, cur)' = Chain(fat_disk, cur)
    BY <1>1 DEF Chain, Closed
  <2> QED BY <1>1, <1>2, <1>3, <1>5, <2>1
          DEF FilesInv, NothingLost, Mounted, FormatPhase, WritePhase
<1> QED BY <1>7, <1>8, <1>9, <1>10, <1>11 DEF FilesInv

LEMMA InitFiles == Init => FilesInv
<1> SUFFICES ASSUME Init PROVE FilesInv
  OBVIOUS
<1>1. ~ Formatted /\ BlankDisk
  BY ClusterFacts, SlotFacts DEF Init, Formatted, BlankDisk, EmptyTable, NoEntry
<1>2. LiveEntries = {}
  BY <1>1, BlankHasNoEntries
<1> QED BY <1>1, <1>2
        DEF Init, FilesInv, NamesApart, SizesFit, SizeMatchesChain,
            WriteProgress, DataProgress, ReadProgress, NothingLost, WritePhase,
            Mounted, FormatPhase

----------------------------------------------------------------------------
(* What files hold. *)

\* Nothing is written to the clusters of a file that is there.
BytesStay ==
  \A p \in LiveEntries : ~ At(p).isdir => \A c \in ChainAt(p) : bytes'[c] = bytes[c]

\* The tables are in clusters of no file.
LEMMA DirInNoFile ==
  ASSUME IInv, NEW d \in Dirs, NEW p \in LiveEntries, ~ At(p).isdir
  PROVE  d \notin ChainAt(p)
<1>1. DiskInv
  BY DEF IInv
<1>2. CASE d = ROOT_CLUSTER_NUMBER
  BY <1>2, ChainClosed, DataFacts DEF ChainAt
<1>3. CASE d # ROOT_CLUSTER_NUMBER
  <2>1. PICK q \in LiveDirs : At(q).cluster = d
    BY <1>3 DEF Dirs
  <2>2. q \in LiveEntries /\ q # p /\ d \in ChainAt(q)
    BY <1>1, <2>1, LiveCluster DEF LiveDirs
  <2> QED BY <1>1, <2>2 DEF DiskInv, NoCrossLinks
<1> QED BY <1>2, <1>3

\* A cluster written is in no file.
LEMMA WriteKeepsBytes ==
  ASSUME TypeOK, NEW c \in Cluster, c # 0, c # 1, NEW t, NEW b,
         WriteCluster(c, t, b),
         \A p \in LiveEntries : ~ At(p).isdir => c \notin ChainAt(p)
  PROVE  BytesStay
<1>1. \A x \in Cluster : bytes'[x] = IF x = c THEN b ELSE bytes[x]
  BY ClusterWritten
<1>2. \A p : ChainAt(p) \subseteq Cluster
  BY ChainClosed, DataFacts DEF ChainAt
<1> QED BY <1>1, <1>2 DEF BytesStay

LEMMA FilledStays ==
  ASSUME NEW p \in LiveEntries, ~ At(p).isdir, NEW d, Filled(p, d), BytesStay,
         At(p)' = At(p), ChainAt(p)' = ChainAt(p)
  PROVE  Filled(p, d)'
<1>1. \A c : Rank(ChainAt(p), c)' = Rank(ChainAt(p), c)
  BY DEF Rank
<1>2. \A c \in ChainAt(p) : bytes'[c] = bytes[c]
  BY DEF BytesStay
<1> QED BY <1>1, <1>2 DEF Filled

LEMMA WholeStays ==
  ASSUME FilesWhole, BytesStay,
         \A p \in LiveEntries' : /\ p \in LiveEntries
                                 /\ At(p)' = At(p) /\ ChainAt(p)' = ChainAt(p)
  PROVE  FilesWhole'
<1> SUFFICES ASSUME NEW p \in LiveEntries', ~ At(p)'.isdir
             PROVE  \E d \in Data : Filled(p, d)'
  BY DEF FilesWhole
<1>1. p \in LiveEntries /\ ~ At(p).isdir
  OBVIOUS
<1>2. PICK d \in Data : Filled(p, d)
  BY <1>1 DEF FilesWhole
<1> QED BY <1>1, <1>2, FilledStays

LEMMA DriverBytes == ASSUME IInv, Driver PROVE BytesStay
<1>1. TypeOK /\ DiskInv
  BY DEF IInv
<1>2. CASE MkdirFat \/ WriteFat \/ DeleteFat \/ ReadCluster \/ ReadDone
  BY <1>2
  DEF MkdirFat, WriteFat, DeleteFat, ReadCluster, ReadDone, BytesStay, disk
<1>3. CASE WriteData
  <2>1. PICK c \in todo : \E b : PutBytes(c, b)
    BY <1>3, LowestIn DEF WriteData
  <2>2. /\ c \in DataCluster /\ NotInUse(slot_buf) /\ c \in slot_buf
    BY <1>3, <2>1 DEF WriteData, IInv, WriteInv, WritePhase
  <2>3. c \in Cluster /\ c # 0 /\ c # 1
    BY <2>2, DataFacts
  <2>4. \A p \in LiveEntries : c \notin ChainAt(p)
    BY <2>2 DEF NotInUse
  <2> QED BY <1>1, <2>1, <2>3, <2>4, WriteKeepsBytes DEF PutBytes
<1>4. CASE DeleteWalk
  <2>1. PICK D \in SUBSET DataCluster : cur \in D /\ NotInUse(D)
    BY <1>4 DEF DeleteWalk, IInv, DeleteInv
  <2>2. cur \in Cluster /\ cur # 0 /\ cur # 1
    BY <2>1, DataFacts
  <2>3. PutTable(cur, EmptyTable)
    BY <1>4, <2>2 DEF DeleteWalk
  <2>4. \A p \in LiveEntries : cur \notin ChainAt(p)
    BY <2>1 DEF NotInUse
  <2> QED BY <1>1, <2>2, <2>3, <2>4, WriteKeepsBytes DEF PutTable
<1>5. CASE WriteParent
  <2>1. request.parent \in Dirs
    BY <1>5 DEF WriteParent, IInv, WriteInv, WritePhase
  <2>2. request.parent \in Cluster /\ request.parent # 0 /\ request.parent # 1
    BY <1>1, <2>1, DirFacts
  <2>3. PICK t : WriteCluster(request.parent, t, ZeroChunk)
    BY <1>5 DEF WriteParent, PutTable
  <2> QED BY <1>1, <2>1, <2>2, <2>3, DirInNoFile, WriteKeepsBytes
<1> QED BY <1>2, <1>3, <1>4, <1>5 DEF Driver

LEMMA CarefulRequestBytes == ASSUME IInv, CarefulRequest PROVE BytesStay
<1>1. TypeOK /\ DiskInv
  BY DEF IInv
<1>2. CASE bytes' = bytes
  BY <1>2 DEF BytesStay
<1>3. ASSUME NEW parent \in Opened, NEW name \in Name,
             WriteFolder(parent, name)
      PROVE  BytesStay
  <2>1. WriteAccepted(parent, name, 0, NoData)
    BY <1>3 DEF WriteFolder
  <2>2. PICK c \in slot_buf' : \E t : WriteCluster(c, t, ZeroChunk)
    BY <1>3 DEF WriteFolder, PutTable
  <2>3. 0 \in Sizes /\ Fits(0)
    BY SizeAssumption DEF Fits
  <2>4. slot_buf' \subseteq DataCluster /\ NotInUse(slot_buf')
    BY <2>1, <2>3, AcceptedFacts
  <2>5. c \in Cluster /\ c # 0 /\ c # 1
    BY <2>4, DataFacts
  <2>6. \A p \in LiveEntries : c \notin ChainAt(p)
    BY <2>4 DEF NotInUse
  <2> QED BY <1>1, <2>2, <2>5, <2>6, WriteKeepsBytes
<1>4. ASSUME NEW parent \in Opened, NEW name \in Name,
             DeleteEntry(parent, name)
      PROVE  BytesStay
  <2>1. parent \in Dirs
    BY <1>4 DEF DeleteEntry, Opened
  <2>2. parent \in Cluster /\ parent # 0 /\ parent # 1
    BY <1>1, <2>1, DirFacts
  <2>3. PICK t : WriteCluster(parent, t, ZeroChunk)
    BY <1>4 DEF DeleteEntry, PutTable
  <2> QED BY <1>1, <2>1, <2>2, <2>3, DirInNoFile, WriteKeepsBytes
<1>5. ASSUME NEW parent, NEW name, NEW size, NEW data, NEW roomy,
             \/ WriteReject(parent, name, size)
             \/ WriteFile(parent, name, size, data)
             \/ DeleteReject(parent, name)
             \/ ReadReject(parent, name, size) \/ ReadBegin(parent, name, size)
             \/ ReadDirectory(parent, name, roomy)
      PROVE  bytes' = bytes
  BY <1>5 DEF WriteReject, WriteFile, DeleteReject, ReadReject, ReadBegin,
              ReadDirectory, disk
<1> QED BY <1>2, <1>3, <1>4, <1>5 DEF CarefulRequest

LEMMA NextBytes == ASSUME IInv, Next PROVE BytesStay
<1>1. CASE BootFormat \/ FormatFat \/ BootLoad \/ Crash \/ TornFat
  BY <1>1 DEF BootFormat, FormatFat, BootLoad, Crash, PowerLoss, TornFat, disk,
              BytesStay
<1>2. CASE FormatName \/ FormatRoot
  <2>1. ~ Formatted /\ BlankDisk
    BY <1>2 DEF FormatName, FormatRoot, Formatted, FormatPhase, IInv, DiskInv
  <2> QED BY <2>1, BlankHasNoEntries DEF BytesStay
<1> QED BY <1>1, <1>2, DriverBytes, CarefulRequestBytes DEF Next, Boot

\* What a step may do to the tree: link one entry, unlink one, or nothing.
LEMMA TreeChanges ==
  ASSUME IInv, Next
  PROVE  \/ TreeStays
         \/ /\ WriteParent
            /\ \E q \in Place, first \in Lowest(slot_buf) : EntryAdded(q, first)
         \/ /\ pc = "idle" /\ pc' = "delete_walk"
            /\ ~ OwnName(request'.parent, request'.name)
            /\ \E q \in LiveEntries : /\ EntryRemoved(q, request'.parent)
                                      /\ At(q).name = request'.name
         \/ LiveEntries = {} /\ LiveEntries' = {} /\ ~ Formatted
<1>1. CASE WriteParent
  BY <1>1, WriteParentSafe
<1>2. CASE Driver /\ ~ WriteParent
  <2>1. CASE ReadDone
    <3>1. TypeOK'
      BY <1>2, DriverType DEF IInv
    <3> QED BY <2>1, <3>1, AnswerSafe DEF ReadDone, Answer
  <2> QED BY <1>2, <2>1, MkdirFatSafe, WriteFatSafe, WriteDataSafe,
             DeleteWalkSafe, DeleteFatSafe, ReadClusterSafe DEF Driver
<1>3. CASE CarefulRequest
  <2>1. TypeOK'
    BY <1>3, CarefulRequestType DEF IInv
  <2>2. ASSUME NEW parent \in Opened, NEW name \in Name,
               ~ OwnName(parent, name), DeleteEntry(parent, name)
        PROVE  /\ pc = "idle" /\ pc' = "delete_walk"
               /\ ~ OwnName(request'.parent, request'.name)
               /\ \E q \in LiveEntries : /\ EntryRemoved(q, request'.parent)
                                         /\ At(q).name = request'.name
    <3>1. /\ pc = "idle" /\ pc' = "delete_walk"
          /\ request'.parent = parent /\ request'.name = name
      BY <2>2 DEF DeleteEntry, Lookup
    <3>2. PICK q \in LiveEntries :
            EntryRemoved(q, parent) /\ At(q).name = name
      BY <2>2, DeleteEntrySafe
    <3> QED BY <2>2, <3>1, <3>2
  <2>3. ASSUME pc = "idle", pc' = "idle", UNCHANGED <<disk, fat>>
        PROVE  TreeStays
    BY <2>1, <2>3, AnswerSafe
  <2>4. ASSUME NEW parent \in Cluster, NEW name \in Name, NEW size \in Sizes,
               \/ WriteReject(parent, name, size)
               \/ DeleteReject(parent, name)
               \/ ReadReject(parent, name, size)
        PROVE  TreeStays
    BY <2>3, <2>4 DEF WriteReject, DeleteReject, ReadReject, Answer
  <2>5. ASSUME NEW parent \in Dirs, NEW name \in Name, NEW roomy \in BOOLEAN,
               ReadDirectory(parent, name, roomy)
        PROVE  TreeStays
    <3>1. pc = "idle" /\ UNCHANGED <<disk, fat>>
      BY <2>5 DEF ReadDirectory
    <3>2. \E code : Answer("read_directory", parent, name, code)
      BY <2>5, Zenon DEF ReadDirectory
    <3> QED BY <2>3, <3>1, <3>2 DEF Answer
  <2>6. 0 \in Sizes
    BY SizeAssumption
  <2> QED BY <1>3, <2>2, <2>4, <2>5, <2>6, ParentInCluster, WriteFileSafe,
             WriteFolderSafe, ReadBeginSafe
          DEF CarefulRequest
<1>4. CASE BootLoad
  <2>1. Formatted /\ DiskInv /\ UNCHANGED <<signed, table, fat_disk>>
        /\ pc' \notin FormatPhase
    BY <1>4 DEF BootLoad, Formatted, FormatPhase, IInv, disk
  <2> QED BY <2>1, DiskStays DEF TreeStays
<1>5. CASE Boot /\ ~ BootLoad
  <2>1. ~ Formatted
    BY <1>5 DEF Boot, BootFormat, FormatFat, FormatName, FormatRoot, Formatted,
                FormatPhase
  <2>2. LiveEntries = {}
    BY <2>1, BlankHasNoEntries DEF IInv, DiskInv
  <2>3. LiveEntries' = {}
    <3>1. CASE FormatRoot
      BY <3>1, FormatRootSafe
    <3>2. CASE ~ FormatRoot
      <4>1. pc' \in FormatPhase
        BY <1>5, <3>2
        DEF Boot, BootFormat, FormatFat, FormatName, FormatPhase
      <4>2. (~ Formatted)' /\ BlankDisk'
        BY <1>5, <4>1, BootSafe DEF Formatted, IInv, DiskInv
      <4> QED BY <4>2, BlankHasNoEntriesNext
    <3> QED BY <3>1, <3>2
  <2> QED BY <2>1, <2>2, <2>3
<1>6. CASE Crash \/ TornFat
  BY <1>6, CrashSafe
<1> QED BY <1>1, <1>2, <1>3, <1>4, <1>5, <1>6 DEF Next

\* The entry that a write links names the data of its request.
LEMMA AddedIsFilled ==
  ASSUME IInv, FilesInv, WriteParent, NEW q \in Place,
         NEW first \in Lowest(slot_buf), EntryAdded(q, first),
         request.size # 0
  PROVE  \E d \in Data : d = request.data /\ Filled(q, d)'
<1>1. pc = "write_parent"
  BY DEF WriteParent
<1>2. PICK d \in Data : d = request.data
  BY <1>1 DEF FilesInv, DataProgress, WritePhase
<1>3. \A c \in slot_buf : bytes[c] = [data |-> d, part |-> Rank(slot_buf, c)]
  <2>1. slot_buf \ todo = slot_buf
    BY <1>1 DEF FilesInv, DataProgress, WritePhase
  <2> QED BY <1>1, <1>2, <2>1 DEF FilesInv, DataProgress, WritePhase
<1>4. TypeOK /\ DiskInv /\ request.parent \in Dirs /\ NotInUse(slot_buf)
      /\ slot_buf \subseteq DataCluster
  BY <1>1 DEF IInv, WriteInv, WritePhase
<1>5. request.parent \in Cluster /\ request.parent # 0 /\ request.parent # 1
  BY <1>4, DirFacts
<1>6. PICK t : WriteCluster(request.parent, t, ZeroChunk)
  BY DEF WriteParent, PutTable
<1>7. \A c \in slot_buf : bytes'[c] = bytes[c]
  <2> SUFFICES ASSUME NEW c \in slot_buf PROVE bytes'[c] = bytes[c]
    OBVIOUS
  <2>1. c \in Cluster /\ c # request.parent
    BY <1>4, NotADir, DataFacts
  <2> QED BY <1>4, <1>5, <1>6, <2>1, ClusterWritten
<1>8. ChainAt(q)' = slot_buf
  BY <1>1, NewChain DEF EntryAdded
<1>9. \A c : Rank(ChainAt(q), c)' = Rank(slot_buf, c)
  BY <1>8 DEF Rank
<1> QED BY <1>2, <1>3, <1>7, <1>8, <1>9 DEF Filled

LEMMA NextWhole ==
  ASSUME IInv, FilesInv, FilesWhole, Next
  PROVE  FilesWhole'
<1>1. BytesStay
  BY NextBytes
<1>2. CASE TreeStays
  BY <1>1, <1>2, WholeStays DEF TreeStays
<1>3. ASSUME NEW q \in LiveEntries, EntryRemoved(q, request'.parent)
      PROVE  FilesWhole'
  BY <1>1, <1>3, WholeStays DEF EntryRemoved
<1>4. CASE LiveEntries' = {}
  BY <1>4 DEF FilesWhole
<1>5. ASSUME WriteParent, NEW q \in Place, NEW first \in Lowest(slot_buf),
             EntryAdded(q, first)
      PROVE  FilesWhole'
  <2> SUFFICES ASSUME NEW p \in LiveEntries', ~ At(p)'.isdir
               PROVE  \E d \in Data : Filled(p, d)'
    BY DEF FilesWhole
  <2>1. CASE p = q
    <3>1. request.size # 0
      <4>1. At(q)'.isdir = (request.size = 0)
        BY <1>5 DEF EntryAdded, NewEntry
      <4> QED BY <2>1, <4>1
    <3> QED BY <1>5, <2>1, <3>1, AddedIsFilled
  <2>2. CASE p # q
    <3>1. p \in LiveEntries /\ At(p)' = At(p) /\ ChainAt(p)' = ChainAt(p)
      BY <1>5, <2>2 DEF EntryAdded
    <3>2. PICK d \in Data : Filled(p, d)
      BY <3>1 DEF FilesWhole
    <3> QED BY <1>1, <3>1, <3>2, FilledStays
  <2> QED BY <2>1, <2>2
<1> QED BY <1>2, <1>3, <1>4, <1>5, TreeChanges

\* The buffer counts as read only after the answer of a read.
LEMMA NotAnsweredRead ==
  ASSUME Next
  PROVE  \/ ReadDone
         \/ reply'.op # "read" \/ reply'.code # 0
         \/ reply' = reply /\ pc # "idle"
<1>1. CASE Boot \/ Crash \/ TornFat
  BY <1>1 DEF Boot, BootFormat, FormatFat, FormatName, FormatRoot, BootLoad,
              Crash, PowerLoss, TornFat, Forget, NoReply
<1>2. CASE Driver
  BY <1>2 DEF Driver, MkdirFat, WriteFat, WriteData, WriteParent, DeleteWalk,
              DeleteFat, ReadCluster, Answer
<1>3. ASSUME NEW parent, NEW name, NEW size, NEW data,
             \/ WriteFile(parent, name, size, data) \/ WriteFolder(parent, name)
             \/ DeleteEntry(parent, name) \/ ReadBegin(parent, name, size)
      PROVE  reply'.op # "read"
  BY <1>3 DEF WriteFile, WriteFolder, WriteAccepted, DeleteEntry, ReadBegin,
              NoReply
<1>4. ASSUME NEW parent, NEW name, NEW size, NEW roomy,
             \/ WriteReject(parent, name, size)
             \/ DeleteReject(parent, name)
             \/ ReadReject(parent, name, size)
             \/ ReadDirectory(parent, name, roomy)
      PROVE  reply'.op # "read" \/ reply'.code # 0
  <2>1. CASE WriteReject(parent, name, size) \/ DeleteReject(parent, name)
    BY <2>1 DEF WriteReject, DeleteReject, Answer
  <2>2. CASE ReadReject(parent, name, size)
    BY <2>2 DEF ReadReject, Answer
  <2>3. CASE ReadDirectory(parent, name, roomy)
    <3>1. \E code : Answer("read_directory", parent, name, code)
      BY <2>3, Zenon DEF ReadDirectory
    <3> QED BY <3>1 DEF Answer
  <2> QED BY <1>4, <2>1, <2>2, <2>3
<1> QED BY <1>1, <1>2, <1>3, <1>4 DEF Next, CarefulRequest

LEMMA ReadDoneWhole ==
  ASSUME IInv, FilesInv, FilesWhole, ReadDone
  PROVE  ReadWhole'
<1>1. /\ pc = "read_walk" /\ pc' = "idle" /\ cur = FAT32_FAT_END_OF_FILE
      /\ reply'.parent = request.parent /\ reply'.name = request.name
      /\ UNCHANGED <<disk, fat, out>>
  BY DEF ReadDone, Answer
<1>2. TypeOK'
  BY DriverType DEF IInv, Driver
<1>3. TreeStays
  BY <1>1, <1>2, AnswerSafe
<1>4. BytesStay
  BY <1>1 DEF BytesStay, disk
<1>5. PICK p \in LiveEntries :
        /\ p[1] = request.parent /\ At(p).name = request.name /\ ~ At(p).isdir
        /\ Len(out) = Cardinality({x \in ChainAt(p) : x < cur})
        /\ \A i \in 1 .. Len(out) :
             \E c \in ChainAt(p) : Rank(ChainAt(p), c) = i /\ out[i] = bytes[c]
  BY <1>1 DEF FilesInv, ReadProgress
<1>6. PICK d \in Data : Filled(p, d)
  BY <1>5 DEF FilesWhole
<1>7. {x \in ChainAt(p) : x < cur} = ChainAt(p)
  <2>1. ChainAt(p) \subseteq DataCluster
    BY ChainClosed DEF ChainAt
  <2>2. \A x \in DataCluster : x < FAT32_FAT_END_OF_FILE
    BY ClusterAssumption DEF DataCluster
  <2> QED BY <1>1, <2>1, <2>2
<1>8. p \in LiveEntries' /\ At(p)' = At(p) /\ ChainAt(p)' = ChainAt(p)
  BY <1>3 DEF TreeStays
<1>9. Filled(p, d)'
  BY <1>4, <1>5, <1>6, <1>8, FilledStays
<1>10. Len(out') = Cardinality(ChainAt(p)')
  BY <1>1, <1>5, <1>7, <1>8
<1>11. \A i \in 1 .. Len(out') : out'[i] = [data |-> d, part |-> i]
  BY <1>1, <1>5, <1>6 DEF Filled
<1> QED BY <1>1, <1>5, <1>8, <1>9, <1>10, <1>11 DEF ReadWhole

LEMMA StutterContents == ASSUME ContentsInv, UNCHANGED vars PROVE ContentsInv'
<1>1. UNCHANGED <<fat_disk, table, bytes, pc, out, reply>>
  BY DEF vars, disk
<1>2. LiveEntries' = LiveEntries /\ \A p : At(p)' = At(p)
  BY <1>1 DEF LiveEntries, At
<1>3. \A p : ChainAt(p)' = ChainAt(p)
  BY <1>1, PrimedChain DEF ChainAt, At
<1>4. \A p, c : Rank(ChainAt(p), c)' = Rank(ChainAt(p), c)
  BY <1>3 DEF Rank
<1>5. \A p, d : Filled(p, d)' = Filled(p, d)
  BY <1>1, <1>3, <1>4 DEF Filled
<1> QED BY <1>1, <1>2, <1>3, <1>5 DEF ContentsInv, FilesWhole, ReadWhole

LEMMA InitContents == Init => ContentsInv
<1> SUFFICES ASSUME Init PROVE ContentsInv
  OBVIOUS
<1>1. ~ Formatted /\ BlankDisk
  BY ClusterFacts, SlotFacts DEF Init, Formatted, BlankDisk, EmptyTable, NoEntry
<1>2. LiveEntries = {}
  BY <1>1, BlankHasNoEntries
<1> QED BY <1>2 DEF Init, ContentsInv, FilesWhole, ReadWhole, NoReply

----------------------------------------------------------------------------
(* One step. *)

LEMMA FilesStep == IInv /\ FilesInv /\ [Next]_vars => FilesInv'
<1> SUFFICES ASSUME IInv, FilesInv, [Next]_vars PROVE FilesInv'
  OBVIOUS
<1>1. CASE Next
  BY <1>1, BootFiles, CarefulRequestFiles, DriverFiles, CrashFiles DEF Next
<1>2. CASE UNCHANGED vars
  BY <1>2, StutterFiles
<1> QED BY <1>1, <1>2

LEMMA ContentsStep ==
  IInv /\ FilesInv /\ ContentsInv /\ [Next]_vars => ContentsInv'
<1> SUFFICES ASSUME IInv, FilesInv, ContentsInv, [Next]_vars
             PROVE  ContentsInv'
  OBVIOUS
<1>1. CASE Next
  <2>1. FilesWhole'
    BY <1>1, NextWhole DEF ContentsInv
  <2>2. ReadWhole'
    BY <1>1, NotAnsweredRead, ReadDoneWhole DEF ContentsInv, ReadWhole
  <2> QED BY <2>1, <2>2 DEF ContentsInv
<1>2. CASE UNCHANGED vars
  BY <1>2, StutterContents
<1> QED BY <1>1, <1>2

----------------------------------------------------------------------------
(* The theorems. *)

(***************************************************************************)
(* Names, sizes and contents: what each phase of write, delete and read    *)
(* has done of the file under way, and what is true of every other.        *)
(***************************************************************************)
THEOREM FilesSafety == Spec => []FilesInv
BY FilesStep, Safety, InitFiles, PTL DEF Spec

(***************************************************************************)
(* No directory holds a name twice, nor its own name or its parent's below *)
(* the dot entries: the search of write looks at every entry before a new  *)
(* one is made.                                                            *)
(***************************************************************************)
THEOREM NamesStayUnique == Spec => []UniqueNames
<1>1. IInv /\ FilesInv => UniqueNames
  <2> SUFFICES ASSUME FilesInv, IInv PROVE UniqueNames
    OBVIOUS
  <2>1. Dirs \subseteq Cluster
    BY DirFacts DEF IInv
  <2> QED BY <2>1 DEF FilesInv, NamesApart, UniqueNames
<1> QED BY <1>1, Safety, FilesSafety, PTL

(***************************************************************************)
(* The size in an entry always counts the clusters of its chain, whenever  *)
(* power is lost: write names the chain only when all of it is linked, and *)
(* delete breaks it only when nothing names it.                            *)
(***************************************************************************)
THEOREM SizesStayTrue == Spec => []SizeMatchesChain
<1>1. FilesInv => SizeMatchesChain
  BY DEF FilesInv
<1> QED BY <1>1, FilesSafety, PTL

(***************************************************************************)
(* While power is never lost, an idle driver has every allocated cluster   *)
(* in the chain of an entry: delete gives all of a chain back, and write   *)
(* links all it took.                                                      *)
(***************************************************************************)
THEOREM NoClusterLost == Spec => []NoLeaks
<1>1. IInv /\ FilesInv => NoLeaks
  <2> SUFFICES ASSUME IInv, FilesInv, pc = "idle", crashes = 0
               PROVE  AllUsed /\ fat = fat_disk
    BY DEF NoLeaks, AllUsed
  <2>1. AllUsed
    BY IdleUsesAll DEF FilesInv
  <2> QED BY <2>1 DEF IInv, MemoryInv, CoherentPhase
<1> QED BY <1>1, Safety, FilesSafety, PTL

(***************************************************************************)
(* The loop of read never writes behind the caller's buffer: the count of  *)
(* clusters compared with the buffer, cut to eight bits, is the length of  *)
(* the chain the loop walks.                                               *)
(***************************************************************************)
THEOREM ReadsStayInBuffer == Spec => []ReadFitsBuffer
<1>1. IInv /\ FilesInv => ReadFitsBuffer
  <2> SUFFICES ASSUME IInv, FilesInv, pc = "read_walk"
               PROVE  Len(out) * CLUSTER_SIZE =< request.size
    BY DEF ReadFitsBuffer
  <2>1. PICK p \in LiveEntries :
          /\ ~ At(p).isdir
          /\ request.size \div CLUSTER_SIZE >= CeilClusters(At(p).size)
          /\ Len(out) = Cardinality({x \in ChainAt(p) : x < cur})
    BY DEF FilesInv, ReadProgress
  <2>2. /\ TypeOK /\ request.size \in Nat /\ CLUSTER_SIZE \in Nat \ {0}
        /\ At(p).size \in Sizes /\ Fits(At(p).size)
    <3>1. TypeOK /\ Fits(At(p).size)
      BY DEF IInv, FilesInv, SizesFit
    <3>2. p[1] \in Cluster /\ p[2] \in Slot
      BY DEF LiveEntries, Place
    <3>3. request.size \in Sizes
      BY <3>1 DEF TypeOK, Request
    <3>4. table[p[1]][p[2]] \in Entry
      BY <3>1, <3>2 DEF TypeOK, Table
    <3> QED BY <3>1, <3>3, <3>4, SizeAssumption DEF Entry, At
  <2>3. /\ Cardinality(ChainAt(p)) = CeilClusters(At(p).size)
        /\ CeilClusters(At(p).size) \in Nat
    BY <2>1, <2>2, CeilFits DEF FilesInv, SizeMatchesChain
  <2>4. Len(out) =< Cardinality(ChainAt(p)) /\ Len(out) \in Nat
    <3>1. ChainAt(p) \in SUBSET Cluster
      BY ChainClosed, DataFacts DEF ChainAt
    <3>2. /\ IsFiniteSet(ChainAt(p))
          /\ {x \in ChainAt(p) : x < cur} \in SUBSET ChainAt(p)
      BY <3>1, ClusterSets
    <3>3. /\ Cardinality({x \in ChainAt(p) : x < cur}) =< Cardinality(ChainAt(p))
          /\ Cardinality({x \in ChainAt(p) : x < cur}) \in Nat
      BY <3>2, FS_Subset, FS_CardinalityType
    <3> QED BY <2>1, <3>3
  <2>5. Len(out) =< request.size \div CLUSTER_SIZE
    BY <2>1, <2>2, <2>3, <2>4
  <2> QED BY <2>2, <2>4, <2>5, ClustersInBuffer
<1> QED BY <1>1, Safety, FilesSafety, PTL

(***************************************************************************)
(* A file holds what one write was given, each part of it once and in its  *)
(* place, as long as it is there: no other write, no delete, no power loss *)
(* touches its clusters.  A read that answers 0 has put exactly that in    *)
(* the caller's buffer.                                                    *)
(***************************************************************************)
THEOREM FilesKeepContents == Spec => []ContentsInv
BY ContentsStep, Safety, FilesSafety, InitContents, PTL DEF Spec

=============================================================================
