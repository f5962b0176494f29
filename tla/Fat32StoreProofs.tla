-------------------------- MODULE Fat32StoreProofs --------------------------
(***************************************************************************)
(* The driver implements FileStore, for every value of the constants: each *)
(* of its steps, and each power loss, is one step of the store of whole    *)
(* files, or none.                                                         *)
(***************************************************************************)
EXTENDS Fat32Store, Fat32FilesProofs

USE DEF FAT_CLUSTER_NUMBER, ROOT_CLUSTER_NUMBER, FAT32_FAT_EMPTY_ENTRY,
        FAT32_FAT_END_OF_FILE, CLUSTER_0_VALUE

----------------------------------------------------------------------------
(* The clusters of a file in the order of its bytes. *)

\* Every place in a chain is the rank of one of its clusters.
LEMMA RankOnto ==
  ASSUME NEW S \in SUBSET Cluster, NEW i \in 1 .. Cardinality(S)
  PROVE  \E c \in S : Rank(S, c) = i
<1> DEFINE T == {c \in S : Rank(S, c) >= i}
<1>1. /\ Cardinality(S) \in Nat /\ IsFiniteSet(S)
      /\ S \in SUBSET Nat /\ S \in SUBSET Int
  BY ClusterSets
<1>2. \A c \in S : Rank(S, c) \in Nat
  <2>1. ASSUME NEW c \in S PROVE {x \in S : x =< c} \in SUBSET Cluster
    OBVIOUS
  <2> QED BY <2>1, ClusterSets DEF Rank
<1>3. T # {}
  <2>1. S # {}
    BY FS_EmptySet
  <2>2. PICK m \in S : \A x \in S : x =< m
    BY <2>1, GreatestOf
  <2>3. {x \in S : x =< m} = S
    BY <2>2
  <2>4. Rank(S, m) >= i
    BY <1>1, <2>3 DEF Rank
  <2> QED BY <2>4
<1>4. PICK l \in T : \A x \in T : l =< x
  <2>1. T \in SUBSET Nat
    BY <1>1
  <2> QED BY <1>3, <2>1, LeastOf
<1>5. Rank(S, l) = i
  <2> SUFFICES ASSUME Rank(S, l) # i PROVE FALSE
    BY <1>4
  <2> DEFINE B == {x \in S : x < l}
  <2>1. Rank(S, l) = Cardinality(B) + 1 /\ B \in SUBSET Cluster
    BY <1>1, <1>4, RankFacts
  <2>2. Cardinality(B) \in Nat /\ Cardinality(B) >= i
    BY <1>2, <1>4, <2>1, ClusterSets
  <2>3. B # {}
    BY <2>2, FS_EmptySet
  <2>4. PICK y \in B : \A x \in B : x =< y
    BY <2>1, <2>3, GreatestOf
  <2>5. {x \in S : x =< y} = B
    <3>1. ASSUME NEW x \in S PROVE x =< y <=> x < l
      <4>1. x \in Int /\ y \in Int /\ l \in Int /\ y < l
        BY <1>1, <1>4, <2>4
      <4>2. x < l => x =< y
        BY <2>4
      <4> QED BY <4>1, <4>2
    <3> QED BY <3>1
  <2>6. y \in T /\ y < l
    BY <2>2, <2>4, <2>5 DEF Rank
  <2> QED BY <1>1, <1>4, <2>6
<1> QED BY <1>4, <1>5

LEMMA InOrderAt ==
  ASSUME NEW S \in SUBSET Cluster, NEW i \in 1 .. Cardinality(S)
  PROVE  InOrder(S)[i] \in S /\ Rank(S, InOrder(S)[i]) = i
<1>1. PICK c \in S : Rank(S, c) = i
  BY RankOnto
<1>2. \A x \in S : /\ Rank(S, x) = Cardinality({y \in S : y < x}) + 1
                   /\ Cardinality({y \in S : y < x}) \in Nat
  <2> TAKE x \in S
  <2>1. x \in Int /\ {y \in S : y < x} \in SUBSET Cluster
    BY ClusterFacts
  <2> QED BY <2>1, RankFacts, ClusterSets
<1>3. \E x \in S : Cardinality({y \in S : y < x}) = i - 1
  BY <1>1, <1>2
<1>4. InOrder(S)[i] = CHOOSE x \in S : Cardinality({y \in S : y < x}) = i - 1
  BY DEF InOrder
<1>5. InOrder(S)[i] \in S /\ Cardinality({y \in S : y < InOrder(S)[i]}) = i - 1
  BY <1>3, <1>4
<1> QED BY <1>2, <1>5

----------------------------------------------------------------------------
(* The tree, as a function of what is on the disk. *)

ChunksOf(f, b, first) ==
  LET order == InOrder(Chain(f, first)) IN [i \in DOMAIN order |-> b[order[i]]]

NodeOf(f, b, e) ==
  IF e.isdir
  THEN [kind |-> "folder", handle |-> e.cluster]
  ELSE [kind |-> "file",
        holds |-> [size |-> e.size, chunks |-> ChunksOf(f, b, e.cluster)]]

TreeOf(D, t, f, b) ==
  [d \in D |->
     [n \in {t[d][i].name : i \in UsedSlots(t[d])} |->
        NodeOf(f, b, EntryNamed(t[d], n))]]

LEMMA TreeNow ==
  /\ DiskTree = TreeOf(Dirs, table, fat_disk, bytes)
  /\ DiskTree' = TreeOf(Dirs', table', fat_disk', bytes')
<1>1. DiskTree = TreeOf(Dirs, table, fat_disk, bytes)
  BY DEF DiskTree, TreeOf, Node, NodeOf, Chunks, ChunksOf
<1>2. DiskTree' = TreeOf(Dirs', table', fat_disk', bytes')
  BY DEF DiskTree, TreeOf, Node, NodeOf, Chunks, ChunksOf, UsedSlots, EntryNamed
<1> QED BY <1>1, <1>2

\* The clusters that hold the data of one request are its chunks in order.
PartsOf(d, n) == [i \in 1 .. n |-> [data |-> d, part |-> i]]

FilledFrom(f, b, first, d) ==
  \A c \in Chain(f, first) :
     b[c] = [data |-> d, part |-> Rank(Chain(f, first), c)]

LEMMA FilledChunks ==
  ASSUME NEW f, NEW b, NEW first, NEW d, FilledFrom(f, b, first, d)
  PROVE  ChunksOf(f, b, first) = PartsOf(d, Cardinality(Chain(f, first)))
<1> DEFINE S == Chain(f, first)
<1>1. S \in SUBSET Cluster
  BY DataFacts, ChainClosed
<1>2. DOMAIN InOrder(S) = 1 .. Cardinality(S)
  BY DEF InOrder
<1>3. ASSUME NEW i \in 1 .. Cardinality(S)
      PROVE  b[InOrder(S)[i]] = [data |-> d, part |-> i]
  BY <1>1, InOrderAt DEF FilledFrom
<1> QED BY <1>2, <1>3 DEF ChunksOf, PartsOf

\* What is in other clusters makes no difference to a file.
LEMMA SameChunks ==
  ASSUME NEW f, NEW b, NEW g, NEW a, NEW first,
         Chain(g, first) = Chain(f, first),
         \A c \in Chain(f, first) : a[c] = b[c]
  PROVE  ChunksOf(g, a, first) = ChunksOf(f, b, first)
<1> DEFINE S == Chain(f, first)
<1>1. S \in SUBSET Cluster
  BY DataFacts, ChainClosed
<1>2. DOMAIN InOrder(S) = 1 .. Cardinality(S)
  BY DEF InOrder
<1>3. ASSUME NEW i \in 1 .. Cardinality(S)
      PROVE  a[InOrder(S)[i]] = b[InOrder(S)[i]]
  BY <1>1, InOrderAt
<1> QED BY <1>2, <1>3 DEF ChunksOf

Apart(t) ==
  \A i, j \in UsedSlots(t) : t[i].name = t[j].name => i = j

\* Each folder holds, under the name of each of its entries, what it stands for.
LEMMA TreeFacts ==
  ASSUME NEW D, NEW t, NEW f, NEW b, NEW d \in D, Apart(t[d])
  PROVE  /\ DOMAIN TreeOf(D, t, f, b) = D
         /\ DOMAIN TreeOf(D, t, f, b)[d] = {t[d][i].name : i \in UsedSlots(t[d])}
         /\ \A i \in UsedSlots(t[d]) :
              TreeOf(D, t, f, b)[d][t[d][i].name] = NodeOf(f, b, t[d][i])
<1>1. ASSUME NEW i \in UsedSlots(t[d])
      PROVE  EntryNamed(t[d], t[d][i].name) = t[d][i]
  <2>1. (CHOOSE j \in UsedSlots(t[d]) : t[d][j].name = t[d][i].name) = i
    BY DEF Apart
  <2> QED BY <2>1 DEF EntryNamed
<1> QED BY <1>1 DEF TreeOf

\* Two trees are the same when their folders are.
FolderHolds(F, t, f, b) ==
  /\ Apart(t)
  /\ F = [n \in {t[i].name : i \in UsedSlots(t)} |-> F[n]]
  /\ \A i \in UsedSlots(t) : F[t[i].name] = NodeOf(f, b, t[i])

IsFunctionOn(T, D) == T = [d \in D |-> T[d]]

LEMMA TreeIs ==
  ASSUME NEW D, NEW t, NEW f, NEW b, NEW T, IsFunctionOn(T, D),
         \A d \in D : FolderHolds(T[d], t[d], f, b)
  PROVE  TreeOf(D, t, f, b) = T
<1> DEFINE U == TreeOf(D, t, f, b)
<1>1. U = [d \in D |-> U[d]]
  BY DEF TreeOf
<1>2. ASSUME NEW d \in D PROVE U[d] = T[d]
  <2> DEFINE N == {t[d][i].name : i \in UsedSlots(t[d])}
  <2>1. U[d] = [n \in N |-> U[d][n]] /\ T[d] = [n \in N |-> T[d][n]]
    BY DEF TreeOf, FolderHolds
  <2>2. ASSUME NEW n \in N PROVE U[d][n] = T[d][n]
    <3>1. PICK i \in UsedSlots(t[d]) : t[d][i].name = n
      OBVIOUS
    <3>2. U[d][t[d][i].name] = NodeOf(f, b, t[d][i])
      <4>1. Apart(t[d])
        BY DEF FolderHolds
      <4>2. \A j \in UsedSlots(t[d]) :
              TreeOf(D, t, f, b)[d][t[d][j].name] = NodeOf(f, b, t[d][j])
        BY <4>1, TreeFacts
      <4> QED BY <4>2
    <3>3. T[d][t[d][i].name] = NodeOf(f, b, t[d][i])
      BY DEF FolderHolds
    <3> QED BY <3>1, <3>2, <3>3
  <2> HIDE DEF N, U
  <2> QED BY <2>1, <2>2
<1> HIDE DEF U
<1>3. U = T
  BY <1>1, <1>2 DEF IsFunctionOn
<1> QED BY <1>3 DEF U

----------------------------------------------------------------------------
(* What the store's words mean of the disk. *)

\* The entries of a folder have names of their own.
LEMMA FoldersApart ==
  ASSUME IInv, FilesInv, NEW d \in Dirs
  PROVE  /\ Apart(table[d])
         /\ \A i : i \in UsedSlots(table[d]) <=> <<d, i>> \in LiveEntries
<1>1. d \in Cluster
  BY ParentInCluster
<1>2. ASSUME NEW i
      PROVE  i \in UsedSlots(table[d]) <=> <<d, i>> \in LiveEntries
  BY <1>1 DEF UsedSlots, LiveEntries, Place, At
<1>3. CASE Formatted
  <2>1. ASSUME NEW i \in UsedSlots(table[d]), NEW j \in UsedSlots(table[d]), i < j
        PROVE  table[d][i].name # table[d][j].name
    <3>1. i \in Slot /\ j \in Slot /\ 2 =< j /\ table[d][i].used /\ table[d][j].used
      BY <2>1 DEF UsedSlots, Slot
    <3> QED BY <1>1, <1>3, <2>1, <3>1 DEF FilesInv, NamesApart
  <2>2. \A i, j \in UsedSlots(table[d]) : i # j => i < j \/ j < i
    BY DEF UsedSlots, Slot
  <2> QED BY <1>2, <2>1, <2>2 DEF Apart
<1>4. CASE ~ Formatted
  <2>1. LiveEntries = {}
    BY <1>4, BlankHasNoEntries DEF IInv, DiskInv
  <2> QED BY <1>2, <2>1 DEF Apart
<1> QED BY <1>3, <1>4

LEMMA FoldersApartNext ==
  ASSUME IInv', FilesInv', NEW d \in Dirs'
  PROVE  /\ Apart(table'[d])
         /\ \A i : i \in UsedSlots(table'[d]) <=> <<d, i>> \in LiveEntries'
<1>1. d \in Cluster
  BY DEF Dirs
<1>2. ASSUME NEW i
      PROVE  i \in UsedSlots(table'[d]) <=> <<d, i>> \in LiveEntries'
  BY <1>1 DEF UsedSlots, LiveEntries, Place, At
<1>3. CASE Formatted'
  <2>1. ASSUME NEW i \in UsedSlots(table'[d]), NEW j \in UsedSlots(table'[d]), i < j
        PROVE  table'[d][i].name # table'[d][j].name
    <3>1. /\ i \in Slot /\ j \in Slot /\ 2 =< j
          /\ table'[d][i].used /\ table'[d][j].used
      BY <2>1 DEF UsedSlots, Slot
    <3> QED BY <1>1, <1>3, <2>1, <3>1 DEF FilesInv, NamesApart
  <2>2. \A i, j \in UsedSlots(table'[d]) : i # j => i < j \/ j < i
    BY DEF UsedSlots, Slot
  <2> QED BY <1>2, <2>1, <2>2 DEF Apart
<1>4. CASE (~ Formatted)'
  <2>1. LiveEntries' = {}
    BY <1>4, BlankHasNoEntriesNext DEF IInv, DiskInv
  <2> QED BY <1>2, <2>1 DEF Apart
<1> QED BY <1>3, <1>4

\* The folders of the tree are those of the disk, and hold its entries.
LEMMA TreeHolds ==
  ASSUME IInv, FilesInv, NEW d \in Dirs
  PROVE  /\ DOMAIN DiskTree = Dirs
         /\ \A n : n \in DOMAIN DiskTree[d] <=>
                     \E i \in UsedSlots(table[d]) : table[d][i].name = n
         /\ \A i \in UsedSlots(table[d]) :
              DiskTree[d][table[d][i].name] = NodeOf(fat_disk, bytes, table[d][i])
<1>1. Apart(table[d]) /\ DiskTree = TreeOf(Dirs, table, fat_disk, bytes)
  BY FoldersApart, TreeNow
<1>2. DOMAIN DiskTree[d] = {table[d][i].name : i \in UsedSlots(table[d])}
  BY <1>1, TreeFacts
<1> QED BY <1>1, <1>2, TreeFacts

LEMMA ExistsIs ==
  ASSUME NEW h PROVE Store!Exists(h) <=> h \in Dirs
BY TreeNow DEF Store!Exists, TreeOf

\* The entry of a name, if there is one, is what the tree has there.
LEMMA HasIs ==
  ASSUME IInv, FilesInv, NEW h \in Dirs, NEW n
  PROVE  /\ Store!Has(h, n) <=> \E i \in UsedSlots(table[h]) : table[h][i].name = n
         /\ \A i \in UsedSlots(table[h]) : table[h][i].name = n =>
              /\ DiskTree[h][n] = NodeOf(fat_disk, bytes, table[h][i])
              /\ \A j \in UsedSlots(table[h]) : table[h][j].name = n => j = i
<1>1. Store!Has(h, n) <=> \E i \in UsedSlots(table[h]) : table[h][i].name = n
  BY ExistsIs, TreeHolds DEF Store!Has
<1>2. ASSUME NEW i \in UsedSlots(table[h]), table[h][i].name = n
      PROVE  /\ DiskTree[h][n] = NodeOf(fat_disk, bytes, table[h][i])
             /\ \A j \in UsedSlots(table[h]) : table[h][j].name = n => j = i
  BY <1>2, TreeHolds, FoldersApart DEF Apart
<1> QED BY <1>1, <1>2

LEMMA HasFileIs ==
  ASSUME IInv, FilesInv, NEW h, NEW n
  PROVE  Store!HasFile(h, n) <=>
           /\ h \in Dirs
           /\ \E i \in UsedSlots(table[h]) :
                 table[h][i].name = n /\ ~ table[h][i].isdir
<1>1. \A e : NodeOf(fat_disk, bytes, e).kind = "file" <=> ~ e.isdir
  BY DEF NodeOf
<1>2. CASE h \in Dirs
  BY <1>1, <1>2, HasIs DEF Store!HasFile
<1>3. CASE h \notin Dirs
  BY <1>3, ExistsIs DEF Store!HasFile, Store!Has
<1> QED BY <1>2, <1>3

LEMMA LinksIs ==
  ASSUME IInv, FilesInv, NEW h, NEW n, NEW k
  PROVE  Store!Links(h, n, k) <=>
           /\ h \in Dirs
           /\ \E i \in UsedSlots(table[h]) :
                 /\ table[h][i].name = n /\ table[h][i].isdir
                 /\ table[h][i].cluster = k
<1>1. ASSUME NEW e
      PROVE  NodeOf(fat_disk, bytes, e) = Store!Folder(k) <=>
               e.isdir /\ e.cluster = k
  <2>1. CASE e.isdir
    BY <2>1 DEF NodeOf, Store!Folder
  <2>2. CASE ~ e.isdir
    BY <2>2 DEF NodeOf, Store!Folder
  <2> QED BY <2>1, <2>2
<1>2. CASE h \in Dirs
  BY <1>1, <1>2, HasIs DEF Store!Links
<1>3. CASE h \notin Dirs
  BY <1>3, ExistsIs DEF Store!Links, Store!Has
<1> QED BY <1>2, <1>3

\* What links a folder has its entry 0 and its entry 1 right.
LEMMA LinkedFolder ==
  ASSUME IInv, FilesInv, NEW g \in Dirs, NEW i \in UsedSlots(table[g]),
         table[g][i].isdir
  PROVE  LET k == table[g][i].cluster
         IN  /\ k \in Dirs /\ k # ROOT_CLUSTER_NUMBER
             /\ table[g][i].name \in Name
             /\ table[k][0].name = table[g][i].name /\ table[k][0].cluster = k
             /\ table[k][1].name = table[g][0].name /\ table[k][1].cluster = g
<1> DEFINE p == <<g, i>>
<1>1. p \in LiveDirs /\ p \in LiveEntries /\ p[1] = g /\ At(p) = table[g][i]
  BY FoldersApart DEF LiveDirs, At
<1> HIDE DEF p
<1>2. At(p).cluster \in DataCluster /\ At(p).cluster \in Dirs
  BY <1>1, DataFacts DEF IInv, DiskInv, DiskChains, Dirs
<1>3. At(p).name \in Name
  BY <1>1 DEF IInv, DiskInv, LiveNames
<1>4. /\ table[At(p).cluster][0].name = At(p).name
      /\ table[At(p).cluster][0].cluster = At(p).cluster
      /\ table[At(p).cluster][1].name = table[p[1]][0].name
      /\ table[At(p).cluster][1].cluster = p[1]
  BY <1>1 DEF IInv, DiskInv, DotEntriesSound
<1> QED BY <1>1, <1>2, <1>3, <1>4, DataFacts

\* A folder is linked, unless it is the root.
LEMMA FolderLinked ==
  ASSUME IInv, FilesInv, NEW k \in Dirs, k # ROOT_CLUSTER_NUMBER
  PROVE  \E g \in Dirs : \E i \in UsedSlots(table[g]) :
            table[g][i].isdir /\ table[g][i].cluster = k
<1>1. PICK p \in LiveDirs : At(p).cluster = k
  BY DEF Dirs
<1>2. p \in LiveEntries /\ At(p).isdir
  BY <1>1 DEF LiveDirs
<1>3. p[1] \in Dirs /\ p = <<p[1], p[2]>> /\ At(p) = table[p[1]][p[2]]
  BY <1>2, PlaceFacts DEF IInv, DiskInv, DirectoriesLinked, At
<1>4. p[2] \in UsedSlots(table[p[1]])
  BY <1>2, <1>3, FoldersApart
<1> QED BY <1>1, <1>2, <1>3, <1>4

LEMMA TitledIs ==
  ASSUME IInv, FilesInv, Formatted, NEW k \in Dirs, NEW n
  PROVE  Store!Titled(k, n) <=> n = table[k][0].name
<1>0. DOMAIN DiskTree = Dirs
  BY TreeNow DEF TreeOf
<1>1. ASSUME NEW g \in Dirs, Store!Links(g, n, k)
      PROVE  n = table[k][0].name /\ k # ROOT_CLUSTER_NUMBER
  <2>1. PICK i \in UsedSlots(table[g]) :
          table[g][i].name = n /\ table[g][i].isdir /\ table[g][i].cluster = k
    BY <1>1, LinksIs
  <2> QED BY <2>1, LinkedFolder
<1>2. CASE k = ROOT_CLUSTER_NUMBER
  <2>1. table[k][0].name = RootName
    BY <1>2 DEF IInv, DiskInv, RootTable
  <2> QED BY <1>0, <1>1, <1>2, <2>1 DEF Store!Titled
<1>3. CASE k # ROOT_CLUSTER_NUMBER
  <2>0. PICK g \in Dirs : \E i \in UsedSlots(table[g]) :
          table[g][i].isdir /\ table[g][i].cluster = k
    BY <1>3, FolderLinked
  <2>1. PICK i \in UsedSlots(table[g]) :
          table[g][i].isdir /\ table[g][i].cluster = k
    BY <2>0
  <2>2. table[k][0].name = table[g][i].name
    BY <2>1, LinkedFolder
  <2>3. n = table[k][0].name => Store!Links(g, n, k)
    BY <2>1, <2>2, LinksIs
  <2> QED BY <1>0, <1>1, <1>3, <2>3 DEF Store!Titled
<1> QED BY <1>2, <1>3

\* The entries of a folder that a name matches, and what it means there.
LEMMA MatchMeans ==
  ASSUME IInv, FilesInv, Formatted, NEW h \in Dirs, NEW n \in Name,
         NEW i \in Matches(table[h], n)
  PROVE  /\ table[h][i].used
         /\ ~ table[h][i].isdir => i \in UsedSlots(table[h]) /\ Store!HasFile(h, n)
         /\ table[h][i].isdir =>
              \E k \in Dirs :
                 /\ Store!Means(h, n, k)
                 /\ \/ h = ROOT_CLUSTER_NUMBER /\ i \in {0, 1}
                    \/ k = table[h][i].cluster
<1>1. /\ i \in Slot /\ table[h][i].name = n /\ h \in Cluster
      /\ Store!Exists(h)
  BY ParentInCluster, ExistsIs DEF Matches
<1>2. table[h][i].used
  BY <1>1, NameAssumption DEF IInv, DiskInv, UnusedBlank, NoEntry
<1>3. CASE i \notin {0, 1}
  <2>1. i \in UsedSlots(table[h])
    BY <1>1, <1>2, <1>3 DEF UsedSlots
  <2>2. CASE table[h][i].isdir
    <3>1. Store!Links(h, n, table[h][i].cluster) /\ table[h][i].cluster \in Dirs
      BY <1>1, <2>1, <2>2, LinksIs, LinkedFolder
    <3> QED BY <1>1, <1>2, <2>2, <3>1 DEF Store!Means
  <2>3. CASE ~ table[h][i].isdir
    BY <1>1, <1>2, <2>1, <2>3, HasFileIs
  <2> QED BY <2>2, <2>3
<1>4. CASE i \in {0, 1} /\ h = ROOT_CLUSTER_NUMBER
  <2>1. table[h][i].isdir /\ n = table[h][0].name
    BY <1>1, <1>4, SlotFacts DEF IInv, DiskInv, RootTable
  <2>2. Store!Titled(h, n)
    BY <2>1, TitledIs
  <2> QED BY <1>1, <1>2, <1>4, <2>1, <2>2 DEF Store!Means
<1>5. CASE i \in {0, 1} /\ h # ROOT_CLUSTER_NUMBER
  <2>0. PICK g \in Dirs : \E j \in UsedSlots(table[g]) :
          table[g][j].isdir /\ table[g][j].cluster = h
    BY <1>5, FolderLinked
  <2>1. PICK j \in UsedSlots(table[g]) :
          table[g][j].isdir /\ table[g][j].cluster = h
    BY <2>0
  <2>2. /\ table[g][j].name \in Name /\ table[h][0].cluster = h
        /\ table[h][1].name = table[g][0].name /\ table[h][1].cluster = g
    BY <2>1, LinkedFolder
  <2>3. table[h][i].isdir
    <3>1. <<g, j>> \in LiveDirs /\ At(<<g, j>>).cluster = h
      BY <2>1, FoldersApart DEF LiveDirs, At
    <3> QED BY <1>5, <3>1 DEF IInv, DiskInv, DotEntriesSound
  <2>4. CASE i = 0
    <3>1. Store!Titled(h, n)
      BY <1>1, <2>4, TitledIs
    <3> QED BY <1>1, <1>2, <2>2, <2>3, <2>4, <3>1 DEF Store!Means
  <2>5. CASE i = 1
    <3>1. Store!Titled(g, n)
      BY <1>1, <2>2, <2>5, TitledIs
    <3>2. Store!Links(g, table[g][j].name, h)
      BY <2>1, LinksIs
    <3>3. Store!Within(h, g)
      BY <2>2, <3>2 DEF Store!Within
    <3> QED BY <1>1, <1>2, <2>2, <2>3, <2>5, <3>1, <3>3 DEF Store!Means
  <2> QED BY <1>5, <2>4, <2>5
<1> QED BY <1>3, <1>4, <1>5

\* A name that nothing matches is free.
LEMMA NoMatchFree ==
  ASSUME IInv, FilesInv, Formatted, NEW h \in Dirs, NEW n,
         Matches(table[h], n) = {}
  PROVE  ~ Store!Taken(h, n)
<1>1. \A i \in Slot : table[h][i].name # n
  BY DEF Matches
<1>2. UsedSlots(table[h]) \subseteq Slot /\ 0 \in Slot /\ 1 \in Slot
  BY SlotFacts DEF UsedSlots
<1>3. ~ Store!HasFile(h, n)
  BY <1>1, <1>2, HasFileIs
<1>4. ASSUME NEW k \in DOMAIN DiskTree PROVE ~ Store!Means(h, n, k)
  <2>0. k \in Dirs
    BY TreeNow DEF TreeOf
  <2>1. ~ Store!Links(h, n, k)
    BY <1>1, <1>2, LinksIs
  <2>2. ~ (k = h /\ Store!Titled(h, n))
    BY <1>1, <1>2, TitledIs
  <2>3. ASSUME Store!Within(h, k), Store!Titled(k, n) PROVE FALSE
    <3>1. PICK m : Store!Links(k, m, h)
      BY <2>3 DEF Store!Within
    <3>2. PICK i \in UsedSlots(table[k]) :
            table[k][i].isdir /\ table[k][i].cluster = h
      BY <3>1, LinksIs
    <3>3. table[h][1].name = table[k][0].name
      BY <2>0, <3>2, LinkedFolder
    <3>4. n = table[k][0].name
      BY <2>0, <2>3, TitledIs
    <3> QED BY <1>1, <1>2, <3>3, <3>4
  <2> QED BY <2>1, <2>2, <2>3 DEF Store!Means
<1> QED BY <1>3, <1>4 DEF Store!Taken

----------------------------------------------------------------------------
(* Kinds of steps. *)

LEMMA DiskSame ==
  ASSUME UNCHANGED <<fat_disk, table, bytes>>
  PROVE  DiskTree' = DiskTree
<1>1. Dirs' = Dirs
  BY DEF Dirs, LiveDirs, LiveEntries, At
<1> QED BY <1>1, TreeNow

\* An entry whose cells and bytes stay stands for the same.
LEMMA SameNode ==
  ASSUME NEW p \in LiveEntries, BytesStay,
         At(p)' = At(p), ChainAt(p)' = ChainAt(p)
  PROVE  NodeOf(fat_disk', bytes', At(p)) = NodeOf(fat_disk, bytes, At(p))
<1> DEFINE first == At(p).cluster
<1>1. CASE At(p).isdir
  BY <1>1 DEF NodeOf
<1>2. CASE ~ At(p).isdir
  <2>1. Chain(fat_disk', first) = Chain(fat_disk, first)
    <3>1. ChainAt(p)' = Chain(fat_disk', At(p)'.cluster)
      BY DEF ChainAt
    <3> QED BY <3>1 DEF ChainAt
  <2>2. \A c \in Chain(fat_disk, first) : bytes'[c] = bytes[c]
    BY <1>2 DEF BytesStay, ChainAt
  <2> HIDE DEF first
  <2>3. ChunksOf(fat_disk', bytes', first) = ChunksOf(fat_disk, bytes, first)
    BY <2>1, <2>2, SameChunks
  <2> QED BY <1>2, <2>3 DEF NodeOf, first
<1> QED BY <1>1, <1>2

\* An entry that stays, in a folder that does, stands for what the tree had.
LEMMA SameSlot ==
  ASSUME IInv, FilesInv, BytesStay, NEW d \in Dirs, NEW i,
         <<d, i>> \in LiveEntries, At(<<d, i>>)' = At(<<d, i>>),
         ChainAt(<<d, i>>)' = ChainAt(<<d, i>>)
  PROVE  /\ i \in UsedSlots(table[d]) /\ table'[d][i] = table[d][i]
         /\ NodeOf(fat_disk', bytes', table'[d][i])
              = DiskTree[d][table[d][i].name]
<1> DEFINE p == <<d, i>>
<1>1. At(p) = table[d][i] /\ At(p)' = table'[d][i]
  BY DEF At
<1>2. NodeOf(fat_disk', bytes', At(p)) = NodeOf(fat_disk, bytes, At(p))
  BY SameNode
<1>3. i \in UsedSlots(table[d])
  BY FoldersApart
<1> QED BY <1>1, <1>2, <1>3, TreeHolds

\* So does every folder that gains no entry.
LEMMA SameSlots ==
  ASSUME IInv, FilesInv, BytesStay, NEW d \in Dirs, d \in Dirs',
         IInv', FilesInv',
         \A p \in LiveEntries' : p[1] = d =>
            p \in LiveEntries /\ At(p)' = At(p) /\ ChainAt(p)' = ChainAt(p)
  PROVE  \A i \in UsedSlots(table'[d]) :
            /\ i \in UsedSlots(table[d]) /\ table'[d][i] = table[d][i]
            /\ NodeOf(fat_disk', bytes', table'[d][i])
                 = DiskTree[d][table[d][i].name]
<1> TAKE i \in UsedSlots(table'[d])
<1>1. <<d, i>> \in LiveEntries'
  BY FoldersApartNext
<1>2. /\ <<d, i>> \in LiveEntries /\ At(<<d, i>>)' = At(<<d, i>>)
      /\ ChainAt(<<d, i>>)' = ChainAt(<<d, i>>)
  BY <1>1
<1> QED BY <1>2, SameSlot

\* A folder of the tree is a function of names.
LEMMA FolderIsFunction ==
  ASSUME NEW d \in Dirs
  PROVE  /\ DiskTree = [g \in Dirs |-> DiskTree[g]]
         /\ DiskTree[d] = [n \in {table[d][i].name : i \in UsedSlots(table[d])} |->
                             DiskTree[d][n]]
<1>1. DiskTree = [g \in Dirs |-> DiskTree[g]]
  BY DEF DiskTree
<1>2. DiskTree[d] = [n \in {table[d][i].name : i \in UsedSlots(table[d])} |->
                       DiskTree[d][n]]
  BY DEF DiskTree
<1> QED BY <1>1, <1>2

LEMMA TreeUnmoved ==
  ASSUME IInv, FilesInv, IInv', FilesInv', TreeStays, BytesStay
  PROVE  DiskTree' = DiskTree
<1>1. Dirs' = Dirs /\ LiveEntries' = LiveEntries
  BY DEF TreeStays
<1>2. ASSUME NEW d \in Dirs'
      PROVE  FolderHolds(DiskTree[d], table'[d], fat_disk', bytes')
  <2>1. d \in Dirs
    BY <1>1
  <2>2. \A i \in UsedSlots(table'[d]) :
            /\ i \in UsedSlots(table[d]) /\ table'[d][i] = table[d][i]
            /\ NodeOf(fat_disk', bytes', table'[d][i])
                 = DiskTree[d][table[d][i].name]
    BY <2>1, SameSlots DEF TreeStays
  <2>3. UsedSlots(table'[d]) = UsedSlots(table[d])
    BY <1>1, <2>1, FoldersApart, FoldersApartNext
  <2>4. {table'[d][i].name : i \in UsedSlots(table'[d])}
          = {table[d][i].name : i \in UsedSlots(table[d])}
    BY <2>2, <2>3
  <2> QED BY <2>1, <2>2, <2>4, FoldersApartNext, FolderIsFunction
          DEF FolderHolds
<1>3. IsFunctionOn(DiskTree, Dirs')
  BY <1>1 DEF DiskTree, IsFunctionOn
<1>4. TreeOf(Dirs', table', fat_disk', bytes') = DiskTree
  BY <1>2, <1>3, TreeIs
<1> QED BY <1>4, TreeNow

\* A step inside of an operation is none of the store.
LEMMA WithinOperation ==
  ASSUME AnswerInv, pc # "idle", DiskTree' = DiskTree, reply' = reply,
         \/ /\ pc \in {"delete_walk", "delete_fat"}
            /\ pc' \in {"delete_walk", "delete_fat"} /\ request' = request
         \/ /\ pc \notin {"delete_walk", "delete_fat"}
            /\ pc' \notin {"delete_walk", "delete_fat"}
  PROVE  UNCHANGED Store!vars
<1>1. reply = NoReply
  BY DEF AnswerInv
<1>2. Answered' = Answered /\ Returned' = Returned
  BY <1>1 DEF Answered, Returned, NoReply
<1>3. Removing' = Removing
  BY DEF Removing
<1> QED BY <1>2, <1>3 DEF Store!vars

\* A request that is taken up forgets the last answer.
LEMMA RequestBegins ==
  ASSUME pc = "idle", pc' \notin {"delete_walk", "delete_fat"},
         reply' = NoReply, DiskTree' = DiskTree
  PROVE  Store!Next
<1>1. Answered' = [op |-> "none"] /\ Returned' = [kind |-> "nothing"]
  BY DEF Answered, Returned, NoReply
<1>2. Removing' = Removing
  BY DEF Removing
<1>3. Store!Begin
  BY <1>1, <1>2 DEF Store!Begin, Store!NoAnswer, Store!Nothing
<1> QED BY <1>3 DEF Store!Next

\* A failure code is the truth about the tree.
LEMMA RequestRefused ==
  ASSUME pc = "idle", UNCHANGED disk,
         NEW op \in {"read", "read_directory", "write", "delete"},
         NEW parent \in Cluster, NEW name \in Name, NEW code \in {-1, 1, 2},
         Answer(op, parent, name, code), Store!Refusal(op, parent, name, code)
  PROVE  Store!Next
<1>1. DiskTree' = DiskTree
  BY DiskSame DEF disk
<1>2. reply' = [op |-> op, parent |-> parent, name |-> name, code |-> code]
      /\ pc' = "idle"
  BY DEF Answer
<1>3. Removing' = Removing
  BY <1>2 DEF Removing
<1>4. Answered' = reply' /\ Returned' = [kind |-> "nothing"]
  BY <1>2 DEF Answered, Returned
<1>5. Store!Refuse(op, parent, name, code)
  BY <1>1, <1>2, <1>3, <1>4 DEF Store!Refuse, Store!Says, Store!Nothing
<1> QED BY <1>5 DEF Store!Next

----------------------------------------------------------------------------
(* Answers. *)

\* No step of an operation answers but its last one.
LEMMA AnswerStep == IInv /\ AnswerInv /\ [Next]_vars => AnswerInv'
<1> SUFFICES ASSUME AnswerInv, [Next]_vars PROVE AnswerInv'
  OBVIOUS

<1>1. CASE Boot
  BY <1>1 DEF Boot, BootFormat, FormatFat, FormatName, FormatRoot, BootLoad,
              AnswerInv, locals
<1>2. CASE CarefulRequest
  <2>1. ASSUME NEW op, NEW parent, NEW name, NEW code,
               Answer(op, parent, name, code)
        PROVE  AnswerInv'
    BY <2>1 DEF Answer, AnswerInv
  <2>2. ASSUME NEW parent, NEW name, NEW size, NEW data,
               WriteAccepted(parent, name, size, data),
               pc' \in {"mkdir_fat", "write_parent", "write_fat"}
        PROVE  AnswerInv'
    BY <2>2 DEF WriteAccepted, AnswerInv
  <2>3. ASSUME NEW parent, NEW name,
               WriteFolder(parent, name)
        PROVE  AnswerInv'
    BY <2>2, <2>3 DEF WriteFolder
  <2>4. ASSUME NEW parent, NEW name, NEW size, NEW data,
               WriteFile(parent, name, size, data)
        PROVE  AnswerInv'
    BY <2>2, <2>4 DEF WriteFile
  <2>5. ASSUME NEW parent, NEW name \in Name, DeleteEntry(parent, name)
        PROVE  AnswerInv'
    BY <2>5 DEF DeleteEntry, Lookup, AnswerInv
  <2>6. ASSUME NEW parent, NEW name, NEW size, ReadBegin(parent, name, size)
        PROVE  AnswerInv'
    BY <2>6 DEF ReadBegin, AnswerInv
  <2>7. ASSUME NEW parent, NEW name, NEW size,
               \/ WriteReject(parent, name, size)
               \/ DeleteReject(parent, name)
               \/ ReadReject(parent, name, size)
        PROVE  AnswerInv'
    BY <2>1, <2>7 DEF WriteReject, DeleteReject, ReadReject
  <2>8. ASSUME NEW parent, NEW name, NEW roomy,
               ReadDirectory(parent, name, roomy)
        PROVE  AnswerInv'
    <3>1. \E code : Answer("read_directory", parent, name, code)
      BY <2>8, Zenon DEF ReadDirectory
    <3> QED BY <2>1, <3>1
  <2> QED BY <1>2, <2>3, <2>4, <2>5, <2>6, <2>7, <2>8 DEF CarefulRequest
<1>3. CASE Driver
  BY <1>3 DEF Driver, MkdirFat, WriteFat, WriteData, WriteParent, DeleteWalk,
              DeleteFat, ReadCluster, ReadDone, AnswerInv, Answer, locals
<1>4. CASE Crash \/ TornFat
  BY <1>4 DEF Crash, PowerLoss, TornFat, Forget, AnswerInv
<1>5. CASE UNCHANGED vars
  BY <1>5 DEF vars, locals, AnswerInv
<1> QED BY <1>1, <1>2, <1>3, <1>4, <1>5 DEF Next

----------------------------------------------------------------------------
(* Steps that leave the tree alone. *)

\* All that is known of the driver in every state.
StoreInv == IInv /\ FilesInv /\ ContentsInv /\ AnswerInv

\* Only the answer of a write and the first step of a delete change the tree.
LEMMA TreeMoves ==
  ASSUME StoreInv, StoreInv', Next, ~ WriteParent,
         pc # "idle" \/ pc' # "delete_walk"
  PROVE  DiskTree' = DiskTree
<1>1. BytesStay
  BY NextBytes DEF StoreInv
<1>2. TreeStays
  <2>1. CASE LiveEntries = {} /\ LiveEntries' = {}
    <3>1. LiveDirs = {} /\ LiveDirs' = {}
      BY <2>1 DEF LiveDirs
    <3>2. Dirs = {ROOT_CLUSTER_NUMBER} /\ Dirs' = {ROOT_CLUSTER_NUMBER}
      BY <3>1, ClusterFacts DEF Dirs
    <3> QED BY <2>1, <3>2 DEF TreeStays
  <2> QED BY <2>1, TreeChanges DEF StoreInv
<1> QED BY <1>1, <1>2, TreeUnmoved DEF StoreInv

LEMMA BootIsNone ==
  ASSUME StoreInv, StoreInv', Boot
  PROVE  UNCHANGED Store!vars
<1>1. /\ pc # "idle" /\ pc # "write_parent" /\ reply' = reply
      /\ pc \notin {"delete_walk", "delete_fat"}
      /\ pc' \notin {"delete_walk", "delete_fat"}
  BY DEF Boot, BootFormat, FormatFat, FormatName, FormatRoot, BootLoad
<1>2. DiskTree' = DiskTree
  BY <1>1, TreeMoves DEF Next, WriteParent
<1> QED BY <1>1, <1>2, WithinOperation DEF StoreInv

\* Links, data and what delete gives back are written before or after the
\* effect.
LEMMA MiddleIsNone ==
  ASSUME StoreInv, StoreInv',
         MkdirFat \/ WriteFat \/ WriteData \/ DeleteWalk \/ ReadCluster
  PROVE  UNCHANGED Store!vars
<1>1. /\ pc # "idle" /\ pc # "write_parent" /\ reply' = reply
  BY DEF MkdirFat, WriteFat, WriteData, DeleteWalk, ReadCluster
<1>2. \/ /\ pc \in {"delete_walk", "delete_fat"}
         /\ pc' \in {"delete_walk", "delete_fat"} /\ request' = request
      \/ /\ pc \notin {"delete_walk", "delete_fat"}
         /\ pc' \notin {"delete_walk", "delete_fat"}
  <2>1. pc' # "wild"
    BY DEF StoreInv, IInv, MemoryInv
  <2> QED BY <2>1 DEF MkdirFat, WriteFat, WriteData, DeleteWalk, ReadCluster
<1>3. DiskTree' = DiskTree
  BY <1>1, TreeMoves DEF Next, Driver, WriteParent
<1> QED BY <1>1, <1>2, <1>3, WithinOperation DEF StoreInv

LEMMA CrashIsPowerLoss ==
  ASSUME StoreInv, StoreInv', Crash \/ TornFat
  PROVE  Store!Next
<1>1. pc' = "off" /\ reply' = NoReply
  BY DEF Crash, PowerLoss, TornFat, Forget
<1>2. DiskTree' = DiskTree
  <2>1. BytesStay /\ TreeStays
    BY NextBytes, CrashSafe DEF StoreInv, Next
  <2> QED BY <2>1, TreeUnmoved DEF StoreInv
<1>3. Answered' = [op |-> "none"] /\ Returned' = [kind |-> "nothing"]
  BY <1>1 DEF Answered, Returned, NoReply
<1>4. Removing' = {}
  BY <1>1 DEF Removing
<1>5. Store!PowerLoss
  BY <1>2, <1>3, <1>4 DEF Store!PowerLoss, Store!NoAnswer, Store!Nothing
<1> QED BY <1>5 DEF Store!Next

\* A write or a read that is taken up.
LEMMA AcceptedBegins ==
  ASSUME StoreInv, StoreInv', CarefulRequest, NEW parent, NEW name, NEW size,
         NEW data,
         \/ WriteFolder(parent, name)
         \/ WriteFile(parent, name, size, data)
         \/ ReadBegin(parent, name, size)
  PROVE  Store!Next
<1>1. /\ pc = "idle" /\ reply' = NoReply
      /\ pc' \notin {"delete_walk", "delete_fat"}
  BY DEF WriteFolder, WriteFile, WriteAccepted, ReadBegin
<1>2. DiskTree' = DiskTree
  BY <1>1, TreeMoves DEF Next, WriteParent
<1> QED BY <1>1, <1>2, RequestBegins

LEMMA DeleteFatIsRemoved ==
  ASSUME StoreInv, StoreInv', DeleteFat
  PROVE  Store!Next
<1>1. /\ pc = "delete_fat" /\ pc' = "idle" /\ reply = NoReply
      /\ reply' = [op |-> "delete", parent |-> request.parent,
                   name |-> request.name, code |-> 0]
  BY DEF DeleteFat, Answer, StoreInv, AnswerInv
<1>2. DiskTree' = DiskTree
  BY <1>1, TreeMoves DEF Next, Driver, WriteParent
<1>3. /\ Returned = [kind |-> "nothing"] /\ Returned' = [kind |-> "nothing"]
      /\ Answered' = reply'
  BY <1>1 DEF Returned, Answered, NoReply
<1>4. Removing = {<<request.parent, request.name>>} /\ Removing' = {}
  BY <1>1 DEF Removing
<1>5. Store!Removed(request.parent, request.name)
  BY <1>1, <1>2, <1>3, <1>4 DEF Store!Removed, Store!Says
<1>6. request.parent \in Cluster /\ request.name \in Name
  BY <1>1 DEF StoreInv, AnswerInv, IInv, TypeOK, Request
<1> QED BY <1>5, <1>6 DEF Store!Next

----------------------------------------------------------------------------
(* Requests that are turned down. *)

\* The cell of a folder marks an end: no other number a client may use does.
LEMMA IdleFacts ==
  ASSUME StoreInv, pc = "idle"
  PROVE  /\ Formatted /\ IInv /\ FilesInv
         /\ \A parent \in Opened :
              /\ parent \in Cluster
              /\ fat[parent] = FAT32_FAT_END_OF_FILE <=> parent \in Dirs
              /\ parent \in Dirs <=> Store!Exists(parent)
<1>1. IInv /\ FilesInv /\ DiskInv /\ fat = fat_disk
  BY DEF StoreInv, IInv, MemoryInv, CoherentPhase
<1>2. Formatted
  BY <1>1, MountedIsFormatted DEF Mounted, FormatPhase
<1>3. ASSUME NEW d \in Dirs PROVE fat[d] = FAT32_FAT_END_OF_FILE
  <2>1. CASE d = ROOT_CLUSTER_NUMBER
    BY <1>1, <1>2, <2>1 DEF DiskInv, Reserved
  <2>2. CASE \E p \in LiveDirs : At(p).cluster = d
    BY <1>1, <2>2 DEF DiskInv, OneClusterDirs
  <2> QED BY <2>1, <2>2 DEF Dirs
<1>4. ASSUME NEW parent \in Opened
      PROVE  /\ parent \in Cluster
             /\ fat[parent] = FAT32_FAT_END_OF_FILE <=> parent \in Dirs
             /\ parent \in Dirs <=> Store!Exists(parent)
  <2>1. parent \in Cluster
        /\ (parent \in Dirs \/ fat[parent] # FAT32_FAT_END_OF_FILE)
    BY DEF Opened
  <2>2. fat[parent] = FAT32_FAT_END_OF_FILE <=> parent \in Dirs
    BY <1>3, <2>1
  <2>3. parent \in Dirs <=> Store!Exists(parent)
    BY ExistsIs
  <2> QED BY <2>1, <2>2, <2>3
<1> QED BY <1>1, <1>2, <1>4

\* What the first match of a name stands for.
LEMMA FirstMatch ==
  ASSUME StoreInv, pc = "idle", NEW parent \in Dirs, NEW name \in Name,
         NEW i \in Matches(table[parent], name)
  PROVE  /\ i \in Slot /\ table[parent][i].name = name
         /\ table[parent][i].used
         /\ ~ table[parent][i].isdir => Store!HasFile(parent, name)
         /\ table[parent][i].isdir =>
              \E k \in DOMAIN DiskTree : Store!Means(parent, name, k)
         /\ table[parent][i].isdir
            /\ ~ (parent = ROOT_CLUSTER_NUMBER /\ OwnName(parent, name)) =>
              /\ table[parent][i].cluster \in Dirs
              /\ Store!Means(parent, name, table[parent][i].cluster)
<1>1. IInv /\ FilesInv /\ Formatted
  BY IdleFacts
<1>2. i \in Slot /\ table[parent][i].name = name
  BY DEF Matches
<1>3. DOMAIN DiskTree = Dirs
  BY TreeNow DEF TreeOf
<1>4. table[parent][i].used
      /\ (~ table[parent][i].isdir => Store!HasFile(parent, name))
  BY <1>1, MatchMeans
<1>5. ASSUME table[parent][i].isdir
      PROVE  \E k \in Dirs :
                 /\ Store!Means(parent, name, k)
                 /\ \/ parent = ROOT_CLUSTER_NUMBER /\ i \in {0, 1}
                    \/ k = table[parent][i].cluster
  BY <1>1, <1>5, MatchMeans
<1>6. ASSUME parent = ROOT_CLUSTER_NUMBER, i \in {0, 1}
      PROVE  OwnName(parent, name)
  <2>1. table[parent][i].name = RootName /\ table[parent][0].name = RootName
    BY <1>1, <1>6 DEF IInv, DiskInv, RootTable
  <2> QED BY <1>2, <2>1 DEF OwnName
<1> QED BY <1>2, <1>3, <1>4, <1>5, <1>6

LEMMA MatchedIsTaken ==
  ASSUME StoreInv, pc = "idle", NEW parent \in Dirs, NEW name \in Name
  PROVE  Store!Taken(parent, name) <=> Matches(table[parent], name) # {}
<1>1. ASSUME NEW i \in Matches(table[parent], name)
      PROVE  Store!Taken(parent, name)
  BY FirstMatch DEF Store!Taken
<1>2. IInv /\ FilesInv /\ Formatted
  BY IdleFacts
<1> QED BY <1>1, <1>2, NoMatchFree

LEMMA WriteRefused ==
  ASSUME StoreInv, NEW parent \in Opened, NEW name \in Name, NEW size \in Sizes,
         WriteReject(parent, name, size)
  PROVE  Store!Next
<1>1. pc = "idle" /\ UNCHANGED disk
  BY DEF WriteReject
<1>2. PICK code \in {-1, 1, 2} :
        WriteError(parent, name, size, code) /\ Answer("write", parent, name, code)
  BY DEF WriteReject
<1>3. Store!Refusal("write", parent, name, code)
  <2>1. CASE fat[parent] # FAT32_FAT_END_OF_FILE
    <3>1. code = 2 /\ ~ Store!Exists(parent)
      BY <1>1, <1>2, <2>1, IdleFacts DEF WriteError
    <3> QED BY <3>1 DEF Store!Refusal
  <2>2. CASE fat[parent] = FAT32_FAT_END_OF_FILE
    <3>1. parent \in Dirs /\ Store!Exists(parent)
      BY <1>1, <2>2, IdleFacts
    <3>2. CASE code = 1
      <4>1. Store!Taken(parent, name)
        BY <1>1, <1>2, <3>1, <3>2, MatchedIsTaken DEF WriteError
      <4> QED BY <3>2, <4>1 DEF Store!Refusal
    <3>3. CASE code = -1
      <4>1. ~ Store!Taken(parent, name)
        BY <1>1, <1>2, <3>1, <3>3, MatchedIsTaken DEF WriteError
      <4> QED BY <3>1, <3>3, <4>1 DEF Store!Refusal
    <3> QED BY <1>2, <2>2, <3>2, <3>3 DEF WriteError
  <2> QED BY <2>1, <2>2
<1> QED BY <1>1, <1>2, <1>3, IdleFacts, RequestRefused

LEMMA DeleteRefused ==
  ASSUME StoreInv, NEW parent \in Opened, NEW name \in Name,
         ~ OwnName(parent, name), DeleteReject(parent, name)
  PROVE  Store!Next
<1>1. pc = "idle" /\ UNCHANGED disk
  BY DEF DeleteReject
<1>2. PICK code \in {1, 2} :
        DeleteError(parent, name, code) /\ Answer("delete", parent, name, code)
  BY DEF DeleteReject
<1>3. Store!Refusal("delete", parent, name, code)
  <2>1. CASE fat[parent] # FAT32_FAT_END_OF_FILE
    <3>1. code = 2 /\ ~ Store!Exists(parent)
      BY <1>1, <1>2, <2>1, IdleFacts DEF DeleteError
    <3> QED BY <3>1 DEF Store!Refusal
  <2>2. CASE fat[parent] = FAT32_FAT_END_OF_FILE
    <3>1. parent \in Dirs /\ Store!Exists(parent)
      BY <1>1, <2>2, IdleFacts
    <3>2. CASE code = 1
      <4>1. ~ Store!Taken(parent, name)
        BY <1>1, <1>2, <2>2, <3>1, <3>2, MatchedIsTaken DEF DeleteError
      <4> QED BY <3>1, <3>2, <4>1 DEF Store!Refusal
    <3>3. CASE code = 2
      <4>1. PICK i \in Lowest(Matches(table[parent], name)) :
              /\ table[parent][i].isdir
              /\ NonEmptyDirectory(table[table[parent][i].cluster])
        BY <1>2, <2>2, <3>3 DEF DeleteError
      <4> DEFINE k == table[parent][i].cluster
      <4>2. k \in Dirs /\ Store!Means(parent, name, k)
        BY <1>1, <3>1, <4>1, FirstMatch, LowestIn
      <4>3. PICK j \in UsedSlots(table[k]) : TRUE
        BY <4>1 DEF NonEmptyDirectory, UsedSlots
      <4> HIDE DEF k
      <4>4. table[k][j].name \in DOMAIN DiskTree[k] /\ k \in DOMAIN DiskTree
        BY <1>1, <4>2, IdleFacts, TreeHolds
      <4>5. DiskTree[k] # Store!Empty
        BY <4>4 DEF Store!Empty
      <4> QED BY <3>3, <4>2, <4>4, <4>5 DEF Store!Refusal
    <3> QED BY <3>2, <3>3
  <2> QED BY <2>1, <2>2
<1> QED BY <1>1, <1>2, <1>3, IdleFacts, RequestRefused

LEMMA ReadRefused ==
  ASSUME StoreInv, NEW parent \in Opened, NEW name \in Name, NEW size \in Sizes,
         ReadReject(parent, name, size)
  PROVE  Store!Next
<1>1. pc = "idle" /\ UNCHANGED disk
  BY DEF ReadReject
<1>2. PICK code \in {-1, 1, 2} :
        ReadError(parent, name, size, code) /\ Answer("read", parent, name, code)
  BY DEF ReadReject
<1>3. Store!Refusal("read", parent, name, code)
  <2>1. CASE fat[parent] # FAT32_FAT_END_OF_FILE
    <3>1. code = 2 /\ ~ Store!Exists(parent)
      BY <1>1, <1>2, <2>1, IdleFacts DEF ReadError
    <3> QED BY <3>1 DEF Store!Refusal
  <2>2. CASE fat[parent] = FAT32_FAT_END_OF_FILE
    <3>1. parent \in Dirs /\ Store!Exists(parent)
      BY <1>1, <2>2, IdleFacts
    <3>2. CASE code = 2
      <4>1. ~ Store!Taken(parent, name)
        BY <1>1, <1>2, <2>2, <3>1, <3>2, MatchedIsTaken DEF ReadError
      <4> QED BY <3>1, <3>2, <4>1 DEF Store!Refusal
    <3>3. CASE code # 2
      <4>1. PICK i \in Lowest(Matches(table[parent], name)) :
              \/ table[parent][i].isdir /\ code = 1
              \/ ~ table[parent][i].isdir /\ code = -1
        BY <1>2, <2>2, <3>3 DEF ReadError
      <4>2. CASE code = 1
        <5>1. \E k \in DOMAIN DiskTree : Store!Means(parent, name, k)
          BY <1>1, <3>1, <4>1, <4>2, FirstMatch, LowestIn
        <5> QED BY <4>2, <5>1 DEF Store!Refusal
      <4>3. CASE code = -1
        <5>1. Store!HasFile(parent, name)
          BY <1>1, <3>1, <4>1, <4>3, FirstMatch, LowestIn
        <5> QED BY <4>3, <5>1 DEF Store!Refusal
      <4> QED BY <4>1, <4>2, <4>3
    <3> QED BY <3>2, <3>3
  <2> QED BY <2>1, <2>2
<1> QED BY <1>1, <1>2, <1>3, IdleFacts, RequestRefused

\* What read_directory returns of a folder is what the tree shows of it.
Listed(t) ==
  [n \in {t[i].name : i \in UsedSlots(t)} |->
     LET e == EntryNamed(t, n)
     IN  IF e.isdir THEN [kind |-> "folder", handle |-> e.cluster]
         ELSE [kind |-> "file", size |-> e.size]]

LEMMA ListedIsShown ==
  ASSUME NEW k \in Dirs
  PROVE  Listed(table[k]) =
           [m \in DOMAIN DiskTree[k] |-> Store!Shown(DiskTree[k][m])]
<1>1. ASSUME NEW e
      PROVE  Store!Shown(Node(e)) =
               IF e.isdir THEN [kind |-> "folder", handle |-> e.cluster]
               ELSE [kind |-> "file", size |-> e.size]
  BY DEF Store!Shown, Node
<1> DEFINE N == {table[k][i].name : i \in UsedSlots(table[k])}
<1>2. DiskTree[k] = [n \in N |-> Node(EntryNamed(table[k], n))]
  BY DEF DiskTree
<1> HIDE DEF N
<1>3. [m \in DOMAIN DiskTree[k] |-> Store!Shown(DiskTree[k][m])]
        = [n \in N |-> Store!Shown(Node(EntryNamed(table[k], n)))]
  BY <1>2
<1> QED BY <1>1, <1>3 DEF Listed, N

LEMMA ReadDirectoryIsList ==
  ASSUME StoreInv, NEW parent \in Dirs, NEW name \in Name, NEW roomy \in BOOLEAN,
         ~ (parent = ROOT_CLUSTER_NUMBER /\ OwnName(parent, name)),
         ReadDirectory(parent, name, roomy)
  PROVE  Store!Next
<1> DEFINE t    == table[parent]
           M    == Matches(t, name)
           hits == Lowest({i \in M : t[i].used})
<1>1. pc = "idle" /\ UNCHANGED disk
  BY DEF ReadDirectory
<1>2. /\ parent \in Cluster /\ Store!Exists(parent)
      /\ Store!Taken(parent, name) <=> M # {}
  BY <1>1, ParentInCluster, ExistsIs, MatchedIsTaken
<1>3. hits = Lowest(M)
  <2>1. {i \in M : t[i].used} = M
    BY <1>1, FirstMatch
  <2> QED BY <2>1
<1>4. \/ hits = {} /\ Answer("read_directory", parent, name, 2)
      \/ \E i \in hits :
           \/ ~ t[i].isdir /\ Answer("read_directory", parent, name, 1)
           \/ t[i].isdir /\ Answer("read_directory", parent, name, -1)
           \/ /\ t[i].isdir /\ Answer("read_directory", parent, name, 0)
              /\ listing' = table[t[i].cluster]
  BY Zenon DEF ReadDirectory
<1>5. ASSUME NEW code \in {-1, 1, 2},
             Answer("read_directory", parent, name, code),
             Store!Refusal("read_directory", parent, name, code)
      PROVE  Store!Next
  BY <1>1, <1>2, <1>5, RequestRefused
<1>6. CASE hits = {} /\ Answer("read_directory", parent, name, 2)
  <2>1. M = {}
    <3>1. M \in SUBSET Nat
      BY SlotFacts DEF Matches
    <3> QED BY <1>3, <1>6, <3>1, LeastOf
  <2>2. Store!Refusal("read_directory", parent, name, 2)
    BY <1>2, <2>1 DEF Store!Refusal
  <2> QED BY <1>5, <1>6, <2>2
<1>7. ASSUME NEW i \in hits,
             \/ ~ t[i].isdir /\ Answer("read_directory", parent, name, 1)
             \/ t[i].isdir /\ Answer("read_directory", parent, name, -1)
      PROVE  Store!Next
  <2>1. i \in M
    BY <1>3, LowestIn
  <2>2. CASE ~ t[i].isdir /\ Answer("read_directory", parent, name, 1)
    <3>1. Store!HasFile(parent, name)
      BY <1>1, <2>1, <2>2, FirstMatch
    <3>2. Store!Refusal("read_directory", parent, name, 1)
      BY <3>1 DEF Store!Refusal
    <3> QED BY <1>5, <2>2, <3>2
  <2>3. CASE t[i].isdir /\ Answer("read_directory", parent, name, -1)
    <3>1. \E k \in DOMAIN DiskTree : Store!Means(parent, name, k)
      BY <1>1, <2>1, <2>3, FirstMatch
    <3>2. Store!Refusal("read_directory", parent, name, -1)
      BY <3>1 DEF Store!Refusal
    <3> QED BY <1>5, <2>3, <3>2
  <2> QED BY <1>7, <2>2, <2>3
<1>8. ASSUME NEW i \in hits, t[i].isdir,
             Answer("read_directory", parent, name, 0),
             listing' = table[t[i].cluster]
      PROVE  Store!Next
  <2> DEFINE k == t[i].cluster
  <2>1. k \in Dirs /\ Store!Means(parent, name, k)
    BY <1>1, <1>3, <1>8, FirstMatch, LowestIn
  <2> HIDE DEF k
  <2>2. reply' = [op |-> "read_directory", parent |-> parent, name |-> name,
                  code |-> 0]
        /\ pc' = "idle"
    BY <1>8 DEF Answer
  <2>3. Answered' = reply' /\ Removing' = Removing
    BY <1>1, <2>2 DEF Answered, Removing
  <2>4. Returned' = [kind |-> "listing", entries |-> Listed(table[k])]
    <3>1. listing' = table[k]
      BY <1>8 DEF k
    <3>2. Returned' = [kind |-> "listing", entries |-> Listed(listing')]
      BY <2>2 DEF Returned, Listed, UsedSlots, EntryNamed
    <3> QED BY <3>1, <3>2
  <2>5. DiskTree' = DiskTree
    BY <1>1, DiskSame DEF disk
  <2>6. Store!List(parent, name, k)
    BY <2>1, <2>2, <2>3, <2>4, <2>5, ListedIsShown DEF Store!List, Store!Says
  <2>7. k \in Cluster
    BY <2>1, ParentInCluster
  <2> QED BY <1>2, <2>6, <2>7 DEF Store!Next
<1> QED BY <1>4, <1>6, <1>7, <1>8

----------------------------------------------------------------------------
(* The answer of a read. *)

LEMMA ReadDoneIsRead ==
  ASSUME StoreInv, StoreInv', ReadDone
  PROVE  Store!Next
<1> DEFINE h == request.parent
           n == request.name
<1>1. /\ IInv /\ FilesInv /\ TypeOK
      /\ pc = "read_walk" /\ pc' = "idle" /\ UNCHANGED <<disk, fat, out>>
      /\ reply' = [op |-> "read", parent |-> h, name |-> n, code |-> 0]
  BY DEF ReadDone, Answer, StoreInv, IInv
<1>2. TreeStays
  <2>1. TypeOK'
    BY DEF StoreInv, IInv
  <2> QED BY <1>1, <2>1, AnswerSafe
<1>3. PICK p \in LiveEntries', d \in Data :
        /\ p[1] = h /\ At(p)'.name = n /\ ~ At(p)'.isdir
        /\ Filled(p, d)'
        /\ Len(out') = Cardinality(ChainAt(p))'
        /\ \A i \in 1 .. Len(out') : out'[i] = [data |-> d, part |-> i]
  BY <1>1 DEF StoreInv, ContentsInv, ReadWhole
<1>4. /\ p \in LiveEntries /\ At(p)' = At(p) /\ ChainAt(p)' = ChainAt(p)
      /\ bytes' = bytes /\ out' = out
  BY <1>1, <1>2 DEF TreeStays, disk
<1>5. \A c \in ChainAt(p) : bytes[c] = [data |-> d, part |-> Rank(ChainAt(p), c)]
  BY <1>3, <1>4 DEF Filled, Rank
<1> DEFINE s     == p[2]
           first == table[h][s].cluster
<1>6. /\ h \in Dirs /\ s \in UsedSlots(table[h]) /\ At(p) = table[h][s]
  <2>1. p[1] \in Dirs /\ p = <<p[1], p[2]>> /\ At(p) = table[p[1]][p[2]]
    BY <1>1, <1>4, PlaceFacts DEF IInv, DiskInv, DirectoriesLinked, At
  <2>2. p[2] \in UsedSlots(table[p[1]])
    BY <1>1, <1>4, <2>1, FoldersApart
  <2> QED BY <1>3, <2>1, <2>2
<1>7. /\ table[h][s].name = n /\ ~ table[h][s].isdir
      /\ ChainAt(p) = Chain(fat_disk, first)
  BY <1>3, <1>4, <1>6 DEF ChainAt
<1>8. Store!HasFile(h, n) /\ DiskTree[h][n] = NodeOf(fat_disk, bytes, table[h][s])
  BY <1>1, <1>6, <1>7, HasFileIs, HasIs
<1>9. DiskTree[h][n].holds.chunks = ChunksOf(fat_disk, bytes, first)
  BY <1>7, <1>8 DEF NodeOf
<1> HIDE DEF h, n, s, first
<1>10. ChunksOf(fat_disk, bytes, first) = PartsOf(d, Cardinality(ChainAt(p)))
  <2>1. FilledFrom(fat_disk, bytes, first, d)
    BY <1>5, <1>7 DEF FilledFrom
  <2> QED BY <1>7, <2>1, FilledChunks
<1>11. out' = PartsOf(d, Cardinality(ChainAt(p)))
  <2>1. out \in Seq(Chunk) /\ Len(out) = Cardinality(ChainAt(p))
    BY <1>1, <1>3, <1>4 DEF TypeOK
  <2>2. out = [i \in 1 .. Len(out) |-> out[i]]
    BY <2>1
  <2>3. \A i \in 1 .. Len(out) : out[i] = [data |-> d, part |-> i]
    BY <1>3, <1>4
  <2> QED BY <1>4, <2>1, <2>2, <2>3 DEF PartsOf
<1>12. /\ Answered' = reply' /\ Returned' = [kind |-> "data", chunks |-> out']
       /\ Removing' = Removing
  BY <1>1 DEF Answered, Returned, Removing
<1>13. DiskTree' = DiskTree
  BY <1>1, DiskSame DEF disk
<1>14. Store!Read(h, n)
  BY <1>1, <1>8, <1>9, <1>10, <1>11, <1>12, <1>13 DEF Store!Read, Store!Says
<1>15. h \in Cluster /\ n \in Name
  BY <1>1, <1>3, <1>4, <1>6, ParentInCluster DEF IInv, DiskInv, LiveNames
<1> QED BY <1>14, <1>15 DEF Store!Next

----------------------------------------------------------------------------
(* The step of a delete that takes effect. *)

\* Every folder but that of the entry keeps what it holds.
LEMMA LessOneEntry ==
  ASSUME IInv, FilesInv, IInv', FilesInv', BytesStay, NEW h, NEW q,
         EntryRemoved(q, h), NEW d \in Dirs, d \in Dirs'
  PROVE  FolderHolds(IF d = h THEN Store!Without(h, At(q).name) ELSE DiskTree[d],
                     table'[d], fat_disk', bytes')
<1> DEFINE s    == q[2]
           used == UsedSlots(table[d])
           left == UsedSlots(table'[d])
           n    == At(q).name
<1>1. /\ q \in LiveEntries /\ q[1] = h /\ q = <<h, s>> /\ At(q) = table[h][s]
      /\ LiveEntries' = LiveEntries \ {q}
      /\ \A p \in LiveEntries' : At(p)' = At(p) /\ ChainAt(p)' = ChainAt(p)
  BY PlaceFacts DEF EntryRemoved, At
<1>2. /\ Apart(table[d]) /\ Apart(table'[d])
      /\ \A i : i \in used <=> <<d, i>> \in LiveEntries
      /\ \A i : i \in left <=> <<d, i>> \in LiveEntries'
  BY FoldersApart, FoldersApartNext
<1>3. \A i \in left :
         /\ i \in used /\ table'[d][i] = table[d][i]
         /\ NodeOf(fat_disk', bytes', table'[d][i]) = DiskTree[d][table[d][i].name]
  BY <1>1, SameSlots
<1>4. \A i : i \in left <=> i \in used /\ ~ (d = h /\ i = s)
  <2> SUFFICES ASSUME NEW i
               PROVE  i \in left <=> i \in used /\ ~ (d = h /\ i = s)
    OBVIOUS
  <2>1. <<d, i>> = <<h, s>> <=> d = h /\ i = s
    OBVIOUS
  <2>2. <<d, i>> = q <=> d = h /\ i = s
    BY <1>1, <2>1
  <2> HIDE DEF used, left
  <2> QED BY <1>1, <1>2, <2>2
<1>5. DOMAIN DiskTree[d] = {table[d][i].name : i \in used}
  BY FolderIsFunction
<1>6. CASE d # h
  <2>1. {table'[d][i].name : i \in left} = {table[d][i].name : i \in used}
    BY <1>3, <1>4, <1>6
  <2> QED BY <1>2, <1>3, <1>6, <2>1, FolderIsFunction DEF FolderHolds
<1>7. CASE d = h
  <2> DEFINE F == Store!Without(h, n)
  <2>1. s \in used /\ n = table[d][s].name
    BY <1>1, <1>2, <1>7
  <2>2. {table'[d][i].name : i \in left} = DOMAIN DiskTree[d] \ {n}
    <3>1. \A i \in left : table[d][i].name # n
      BY <1>2, <1>3, <1>4, <1>7, <2>1 DEF Apart
    <3>2. \A i \in used : table[d][i].name # n => i \in left
      BY <1>4, <2>1
    <3> QED BY <1>3, <1>5, <3>1, <3>2
  <2>3. F = [m \in {table'[d][i].name : i \in left} |-> DiskTree[d][m]]
    BY <1>7, <2>2 DEF Store!Without
  <2> HIDE DEF F
  <2>4. /\ F = [m \in {table'[d][i].name : i \in left} |-> F[m]]
        /\ \A i \in left : F[table'[d][i].name] = DiskTree[d][table'[d][i].name]
    BY <2>3
  <2>5. FolderHolds(F, table'[d], fat_disk', bytes')
    BY <1>2, <1>3, <2>4 DEF FolderHolds
  <2> QED BY <1>7, <2>5 DEF F
<1> QED BY <1>6, <1>7

\* An empty folder of the disk is one of the tree.
LEMMA EmptyIs ==
  ASSUME NEW k \in Dirs, ~ NonEmptyDirectory(table[k])
  PROVE  DiskTree[k] = Store!Empty
<1>1. UsedSlots(table[k]) = {}
  BY DEF NonEmptyDirectory, UsedSlots
<1>2. {table[k][i].name : i \in UsedSlots(table[k])} = {}
  BY <1>1
<1>3. DiskTree[k] = [n \in {} |-> DiskTree[k][n]]
  BY <1>2, FolderIsFunction
<1> QED BY <1>3 DEF Store!Empty

LEMMA DeleteEntryIsRemove ==
  ASSUME StoreInv, StoreInv', Next, NEW parent \in Opened, NEW name \in Name,
         ~ OwnName(parent, name), DeleteEntry(parent, name)
  PROVE  Store!Next
<1>1. IInv /\ FilesInv /\ IInv' /\ FilesInv' /\ BytesStay
  BY NextBytes DEF StoreInv
<1>2. /\ pc' = "delete_walk" /\ reply' = NoReply
      /\ request'.parent = parent /\ request'.name = name
  BY DEF DeleteEntry, Lookup
<1>3. /\ Answered' = [op |-> "none"] /\ Returned' = [kind |-> "nothing"]
      /\ Removing' = {<<parent, name>>}
  BY <1>2 DEF Answered, Returned, Removing, NoReply
<1>4. PICK q \in LiveEntries : EntryRemoved(q, parent) /\ At(q).name = name
  BY <1>1, DeleteEntrySafe
<1> DEFINE s == q[2]
           k == At(q).cluster
<1>5. /\ parent \in Dirs /\ At(q) = table[parent][s]
      /\ s \in UsedSlots(table[parent]) /\ q = <<parent, s>>
      /\ LiveEntries' = LiveEntries \ {q}
      /\ \A p \in LiveEntries' : At(p)' = At(p)
  <2>1. q[1] = parent /\ q = <<q[1], q[2]>> /\ q[1] \in Dirs
    BY <1>1, <1>4, PlaceFacts DEF EntryRemoved, IInv, DiskInv, DirectoriesLinked
  <2> QED BY <1>1, <1>4, <2>1, FoldersApart DEF EntryRemoved, At
<1>6. \A d \in Dirs : d \in Dirs' =>
        FolderHolds(IF d = parent THEN Store!Without(parent, name) ELSE DiskTree[d],
                    table'[d], fat_disk', bytes')
  BY <1>1, <1>4, LessOneEntry
<1>7. DOMAIN DiskTree = Dirs /\ parent \in Cluster
  BY <1>5, TreeHolds, ParentInCluster, <1>1
<1>8. CASE ~ At(q).isdir
  <2>1. Store!HasFile(parent, name)
    BY <1>1, <1>4, <1>5, <1>8, HasFileIs
  <2>2. LiveDirs' = LiveDirs
    BY <1>5, <1>8 DEF LiveDirs
  <2>3. Dirs' = Dirs
    BY <1>5, <2>2 DEF Dirs, LiveDirs
  <2> DEFINE T == [DiskTree EXCEPT ![parent] = Store!Without(parent, name)]
  <2>4. IsFunctionOn(T, Dirs')
    BY <1>7, <2>3 DEF IsFunctionOn
  <2>5. \A d \in Dirs' : FolderHolds(T[d], table'[d], fat_disk', bytes')
    BY <1>6, <1>7, <2>3
  <2>6. DiskTree' = T
    <3> HIDE DEF T
    <3> QED BY <2>4, <2>5, TreeIs, TreeNow
  <2>7. Store!RemoveFile(parent, name)
    BY <1>3, <2>1, <2>6 DEF Store!RemoveFile, Store!NoAnswer, Store!Nothing
  <2> QED BY <1>7, <2>7 DEF Store!Next
<1>9. CASE At(q).isdir
  <2>1. Store!Links(parent, name, k)
    BY <1>1, <1>4, <1>5, <1>9, LinksIs
  <2>2. k \in Dirs /\ k # ROOT_CLUSTER_NUMBER
    BY <1>1, <1>5, <1>9, LinkedFolder
  <2>3. DiskTree[k] = Store!Empty
    BY <1>4, <1>9, <2>2, EmptyIs DEF EntryRemoved
  <2>4. Dirs' = Dirs \ {k}
    <3>1. LiveDirs' = LiveDirs \ {q}
      BY <1>5 DEF LiveDirs
    <3>2. \A p \in LiveDirs : p # q => At(p).cluster # k
      BY <1>1, <1>4, LiveCluster DEF IInv, DiskInv, NoCrossLinks, LiveDirs
    <3>3. q \in LiveDirs
      BY <1>4, <1>9 DEF LiveDirs
    <3> HIDE DEF k
    <3>4. \A c \in Cluster : (\E p \in LiveDirs' : At(p)'.cluster = c)
             <=> (\E p \in LiveDirs : At(p).cluster = c) /\ c # k
      <4>1. \A p \in LiveDirs' : At(p)' = At(p)
        BY <1>5 DEF LiveDirs
      <4> QED BY <3>1, <3>2, <3>3, <4>1 DEF k
    <3>5. Dirs' = {c \in Cluster : \/ c = ROOT_CLUSTER_NUMBER
                                   \/ \E p \in LiveDirs' : At(p)'.cluster = c}
      BY DEF Dirs
    <3> QED BY <2>2, <3>4, <3>5 DEF Dirs
  <2> DEFINE T == [g \in DOMAIN DiskTree \ {k} |->
                     IF g = parent THEN Store!Without(parent, name)
                                   ELSE DiskTree[g]]
  <2>5. IsFunctionOn(T, Dirs')
    BY <1>7, <2>4 DEF IsFunctionOn
  <2>6. \A d \in Dirs' : FolderHolds(T[d], table'[d], fat_disk', bytes')
    BY <1>6, <1>7, <2>4
  <2>7. DiskTree' = T
    <3> HIDE DEF T
    <3> QED BY <2>5, <2>6, TreeIs, TreeNow
  <2>8. Store!RemoveFolder(parent, name, k)
    BY <1>3, <2>1, <2>3, <2>7
    DEF Store!RemoveFolder, Store!NoAnswer, Store!Nothing
  <2>9. k \in Cluster
    BY <2>2, ParentInCluster
  <2> QED BY <1>7, <2>8, <2>9 DEF Store!Next
<1> QED BY <1>8, <1>9

----------------------------------------------------------------------------
(* The step of a write that takes effect. *)

\* Every folder but that of the new entry keeps what it holds.
LEMMA MoreOneEntry ==
  ASSUME IInv, FilesInv, IInv', FilesInv', BytesStay,
         NEW q \in Place, NEW first, EntryAdded(q, first),
         NEW d \in Dirs, d \in Dirs', NEW node,
         node = NodeOf(fat_disk', bytes', NewEntry(first))
  PROVE  FolderHolds(IF d = request.parent
                     THEN Store!With(request.parent, request.name, node)
                     ELSE DiskTree[d],
                     table'[d], fat_disk', bytes')
<1> DEFINE h    == request.parent
           n    == request.name
           used == UsedSlots(table[d])
           more == UsedSlots(table'[d])
<1>1. /\ q = <<h, slot>> /\ table'[h][slot] = NewEntry(first)
      /\ LiveEntries' = LiveEntries \cup {q} /\ q \notin LiveEntries
      /\ \A p \in LiveEntries : At(p)' = At(p) /\ ChainAt(p)' = ChainAt(p)
  <2>1. q[1] = h /\ q[2] = slot /\ At(q)' = NewEntry(first) /\ q \notin LiveEntries
    BY DEF EntryAdded
  <2>2. q = <<q[1], q[2]>> /\ At(q)' = table'[q[1]][q[2]]
    BY DEF Place, At
  <2> QED BY <2>1, <2>2 DEF EntryAdded
<1>2. /\ Apart(table[d]) /\ Apart(table'[d])
      /\ \A i : i \in used <=> <<d, i>> \in LiveEntries
      /\ \A i : i \in more <=> <<d, i>> \in LiveEntries'
  BY FoldersApart, FoldersApartNext
<1>3. \A i \in used :
         /\ table'[d][i] = table[d][i]
         /\ NodeOf(fat_disk', bytes', table'[d][i]) = DiskTree[d][table[d][i].name]
  <2> TAKE i \in used
  <2> HIDE DEF used
  <2>1. /\ <<d, i>> \in LiveEntries /\ At(<<d, i>>)' = At(<<d, i>>)
        /\ ChainAt(<<d, i>>)' = ChainAt(<<d, i>>)
    BY <1>1, <1>2
  <2> QED BY <2>1, SameSlot
<1>4. \A i : i \in more <=> i \in used \/ (d = h /\ i = slot)
  <2> SUFFICES ASSUME NEW i
               PROVE  i \in more <=> i \in used \/ (d = h /\ i = slot)
    OBVIOUS
  <2>1. <<d, i>> = <<h, slot>> <=> d = h /\ i = slot
    OBVIOUS
  <2>2. <<d, i>> = q <=> d = h /\ i = slot
    BY <1>1, <2>1
  <2> HIDE DEF used, more
  <2> QED BY <1>1, <1>2, <2>2
<1>5. DOMAIN DiskTree[d] = {table[d][i].name : i \in used}
  BY FolderIsFunction
<1>6. CASE d # h
  <2>1. {table'[d][i].name : i \in more} = {table[d][i].name : i \in used}
    BY <1>3, <1>4, <1>6
  <2> QED BY <1>2, <1>3, <1>4, <1>6, <2>1, FolderIsFunction DEF FolderHolds
<1>7. CASE d = h
  <2> DEFINE F == Store!With(h, n, node)
  <2>1. slot \in more /\ slot \notin used /\ table'[d][slot] = NewEntry(first)
    BY <1>1, <1>2, <1>4, <1>7
  <2>2. table'[d][slot].name = n
    BY <2>1 DEF NewEntry
  <2>3. {table'[d][i].name : i \in more} = DOMAIN DiskTree[d] \cup {n}
    BY <1>3, <1>4, <1>5, <1>7, <2>2
  <2>4. F = [m \in {table'[d][i].name : i \in more} |->
               IF m = n THEN node ELSE DiskTree[d][m]]
    BY <1>7, <2>3 DEF Store!With
  <2> HIDE DEF F
  <2>5. F = [m \in {table'[d][i].name : i \in more} |-> F[m]]
    BY <2>4
  <2>6. ASSUME NEW i \in more
        PROVE  F[table'[d][i].name] = NodeOf(fat_disk', bytes', table'[d][i])
    <3>1. CASE i = slot
      BY <2>1, <2>2, <2>4, <3>1
    <3>2. CASE i # slot
      <4>1. i \in used
        BY <1>4, <3>2
      <4>2. table'[d][i].name # n
        BY <1>2, <2>1, <2>2, <3>2 DEF Apart
      <4>3. F[table'[d][i].name] = DiskTree[d][table'[d][i].name]
        BY <2>4, <4>2
      <4> QED BY <1>3, <4>1, <4>3
    <3> QED BY <3>1, <3>2
  <2>7. FolderHolds(F, table'[d], fat_disk', bytes')
    BY <1>2, <2>5, <2>6 DEF FolderHolds
  <2> QED BY <1>7, <2>7 DEF F
<1> QED BY <1>6, <1>7

\* What is true of the request when its entry is written.
LEMMA WriteAnswers ==
  ASSUME StoreInv, WriteParent
  PROVE  /\ request.parent \in Dirs /\ request.parent \in Cluster
         /\ request.name \in Name
         /\ ~ Store!Taken(request.parent, request.name)
         /\ reply' = [op |-> "write", parent |-> request.parent,
                      name |-> request.name, code |-> 0]
         /\ Answered' = reply' /\ Returned' = Store!Nothing
         /\ Removing' = Removing
<1>1. /\ pc = "write_parent" /\ pc' = "idle"
      /\ reply' = [op |-> "write", parent |-> request.parent,
                   name |-> request.name, code |-> 0]
  BY DEF WriteParent, Answer
<1>2. IInv /\ FilesInv /\ DiskInv
  BY DEF StoreInv, IInv
<1>3. /\ request.parent \in Dirs /\ request.name \in Name
      /\ dir_table = table[request.parent]
      /\ Matches(dir_table, request.name) = {}
  BY <1>1, <1>2 DEF IInv, WriteInv, WritePhase, FilesInv, WriteProgress
<1>4. Formatted
  BY <1>1, <1>2, MountedIsFormatted DEF Mounted, FormatPhase
<1>5. ~ Store!Taken(request.parent, request.name)
  BY <1>2, <1>3, <1>4, NoMatchFree
<1>6. Answered' = reply' /\ Returned' = Store!Nothing /\ Removing' = Removing
  BY <1>1 DEF Answered, Returned, Removing, Store!Nothing
<1> QED BY <1>1, <1>3, <1>5, <1>6, ParentInCluster

\* The contents of a file of a size, filled with a request's data.
ContentOf(s, d) ==
  [size |-> s, chunks |-> PartsOf(d, (s + CLUSTER_SIZE - 1) \div CLUSTER_SIZE)]

LEMMA NewFileIsCreate ==
  ASSUME StoreInv, StoreInv', Next, WriteParent, request.size # 0,
         NEW q \in Place, NEW first \in Lowest(slot_buf), EntryAdded(q, first)
  PROVE  Store!Next
<1> DEFINE h == request.parent
           n == request.name
           N == Cardinality(slot_buf)
           x == [size |-> request.size, chunks |-> PartsOf(request.data, N)]
<1>1. IInv /\ FilesInv /\ IInv' /\ FilesInv' /\ BytesStay /\ TypeOK
      /\ pc = "write_parent"
  BY NextBytes DEF StoreInv, WriteParent, IInv
<1>2. /\ h \in Dirs /\ h \in Cluster /\ n \in Name /\ ~ Store!Taken(h, n)
      /\ reply' = [op |-> "write", parent |-> h, name |-> n, code |-> 0]
      /\ Answered' = reply' /\ Returned' = Store!Nothing
      /\ Removing' = Removing
  BY WriteAnswers
<1>3. x \in Contents
  <2>1. /\ request.size \in Sizes \ {0} /\ Fits(request.size)
        /\ request.data \in Data /\ N = Required(request.size)
    BY <1>1 DEF FilesInv, WriteProgress, DataProgress, WritePhase, TypeOK,
                Request
  <2>2. N = (request.size + CLUSTER_SIZE - 1) \div CLUSTER_SIZE
    BY <2>1, CeilFits DEF Required
  <2> HIDE DEF N
  <2>3. x = ContentOf(request.size, request.data)
    BY <2>2 DEF ContentOf
  <2> HIDE DEF x
  <2>4. Contents = {ContentOf(s, d) : s \in Sizes \ {0}, d \in Data}
    BY DEF Contents, ContentOf, PartsOf
  <2> QED BY <2>1, <2>3, <2>4
<1>4. NodeOf(fat_disk', bytes', NewEntry(first)) = Store!File(x)
  <2>1. Chain(fat_disk, first) = slot_buf /\ At(q)' = NewEntry(first)
        /\ ChainAt(q)' = slot_buf
    BY <1>1, NewChain DEF EntryAdded
  <2>2. Chain(fat_disk', first) = slot_buf
    <3>1. ChainAt(q)' = Chain(fat_disk', At(q)'.cluster)
      BY PrimedChain DEF At
    <3> QED BY <2>1, <3>1 DEF NewEntry
  <2>3. PICK d \in Data : d = request.data /\ Filled(q, d)'
    BY <1>1, AddedIsFilled
  <2>4. \A c \in ChainAt(q)' :
          bytes'[c] = [data |-> d, part |-> Rank(ChainAt(q)', c)]
    BY <2>3 DEF Filled, Rank
  <2>5. FilledFrom(fat_disk', bytes', first, request.data)
    BY <2>1, <2>2, <2>3, <2>4 DEF FilledFrom
  <2>6. ChunksOf(fat_disk', bytes', first) = PartsOf(request.data, N)
    BY <2>2, <2>5, FilledChunks
  <2>7. /\ ~ NewEntry(first).isdir /\ NewEntry(first).cluster = first
        /\ NewEntry(first).size = request.size
    BY DEF NewEntry
  <2> QED BY <2>6, <2>7 DEF NodeOf, Store!File
<1>5. Dirs' = Dirs
  <2>1. LiveDirs' = LiveDirs
    <3>1. ~ At(q)'.isdir
      <4>1. At(q)' = NewEntry(first)
        BY DEF EntryAdded
      <4>2. ~ NewEntry(first).isdir
        BY DEF NewEntry
      <4> QED BY <4>1, <4>2
    <3>2. LiveDirs' = {p \in LiveEntries' : At(p)'.isdir}
      BY DEF LiveDirs
    <3> QED BY <3>1, <3>2 DEF EntryAdded, LiveDirs
  <2>2. \A p \in LiveDirs : At(p)' = At(p)
    BY DEF EntryAdded, LiveDirs
  <2>3. Dirs' = {c \in Cluster : \/ c = ROOT_CLUSTER_NUMBER
                                 \/ \E p \in LiveDirs' : At(p)'.cluster = c}
    BY DEF Dirs
  <2> QED BY <2>1, <2>2, <2>3 DEF Dirs
<1> HIDE DEF h, n, x
<1>6. DOMAIN DiskTree = Dirs
  BY TreeNow DEF TreeOf
<1> DEFINE T == [DiskTree EXCEPT ![h] = Store!With(h, n, Store!File(x))]
<1>7. IsFunctionOn(T, Dirs')
  BY <1>5, <1>6 DEF IsFunctionOn
<1>8. \A d \in Dirs' : FolderHolds(T[d], table'[d], fat_disk', bytes')
  <2> SUFFICES ASSUME NEW d \in Dirs'
               PROVE  FolderHolds(T[d], table'[d], fat_disk', bytes')
    OBVIOUS
  <2>1. FolderHolds(IF d = h THEN Store!With(h, n, Store!File(x))
                             ELSE DiskTree[d],
                    table'[d], fat_disk', bytes')
    BY <1>1, <1>4, <1>5, MoreOneEntry DEF h, n
  <2> QED BY <1>5, <1>6, <2>1
<1>9. DiskTree' = T
  <2> HIDE DEF T
  <2> QED BY <1>7, <1>8, TreeIs, TreeNow
<1>10. Store!Create(h, n, x)
  BY <1>2, <1>9, ExistsIs DEF Store!Create, Store!Says
<1> QED BY <1>2, <1>3, <1>10 DEF Store!Next

LEMMA NewFolderIsMade ==
  ASSUME StoreInv, StoreInv', Next, WriteParent, request.size = 0,
         NEW q \in Place, NEW k \in Lowest(slot_buf), EntryAdded(q, k)
  PROVE  Store!Next
<1> DEFINE h == request.parent
           n == request.name
<1>1. IInv /\ FilesInv /\ IInv' /\ FilesInv' /\ BytesStay /\ DiskInv
      /\ pc = "write_parent"
  BY NextBytes DEF StoreInv, WriteParent, IInv
<1>2. /\ h \in Dirs /\ h \in Cluster /\ n \in Name /\ ~ Store!Taken(h, n)
      /\ reply' = [op |-> "write", parent |-> h, name |-> n, code |-> 0]
      /\ Answered' = reply' /\ Returned' = Store!Nothing
      /\ Removing' = Removing
  BY WriteAnswers
<1>3. /\ k \in slot_buf /\ k \in DataCluster /\ NotInUse(slot_buf)
      /\ \A s \in Slot \ {0, 1} : table[k][s] = NoEntry
  <2>1. k \in slot_buf /\ slot_buf \subseteq DataCluster /\ NotInUse(slot_buf)
    BY <1>1, LowestIn DEF IInv, WriteInv, WritePhase
  <2>2. \E c \in Cluster : /\ slot_buf = {c}
                           /\ \A s \in Slot \ {0, 1} : table[c][s] = NoEntry
    BY <1>1 DEF IInv, FolderInv, WritePhase
  <2> QED BY <2>1, <2>2
<1>4. k \notin Dirs /\ k # h /\ k \in Cluster
  <2>1. k # ROOT_CLUSTER_NUMBER /\ k \in Cluster
    BY <1>3, DataFacts
  <2>2. k \notin Dirs
    BY <1>1, <1>3, <2>1, NotADir
  <2> QED BY <1>2, <2>1, <2>2
<1>5. NodeOf(fat_disk', bytes', NewEntry(k)) = Store!Folder(k)
  BY DEF NodeOf, NewEntry, Store!Folder
<1>6. Dirs' = Dirs \cup {k}
  <2>1. At(q)'.isdir /\ At(q)'.cluster = k /\ q \notin LiveEntries
    <3>1. At(q)' = NewEntry(k) /\ q \notin LiveEntries
      BY DEF EntryAdded
    <3>2. NewEntry(k).isdir /\ NewEntry(k).cluster = k
      BY DEF NewEntry
    <3> QED BY <3>1, <3>2
  <2>2. LiveDirs' = LiveDirs \cup {q}
    <3>1. LiveDirs' = {p \in LiveEntries' : At(p)'.isdir}
      BY DEF LiveDirs
    <3> QED BY <2>1, <3>1 DEF EntryAdded, LiveDirs
  <2>3. \A p \in LiveDirs : At(p)' = At(p)
    BY DEF EntryAdded, LiveDirs
  <2>4. Dirs' = {c \in Cluster : \/ c = ROOT_CLUSTER_NUMBER
                                 \/ \E p \in LiveDirs' : At(p)'.cluster = c}
    BY DEF Dirs
  <2> QED BY <1>4, <2>1, <2>2, <2>3, <2>4 DEF Dirs
<1> HIDE DEF h, n
<1>7. DOMAIN DiskTree = Dirs
  BY TreeNow DEF TreeOf
<1> DEFINE T == [g \in DOMAIN DiskTree \cup {k} |->
                   IF g = k THEN Store!Empty
                   ELSE IF g = h THEN Store!With(h, n, Store!Folder(k))
                   ELSE DiskTree[g]]
<1>8. IsFunctionOn(T, Dirs')
  BY <1>6, <1>7 DEF IsFunctionOn
<1>9. FolderHolds(Store!Empty, table'[k], fat_disk', bytes')
  <2>1. Apart(table'[k])
    BY <1>1, <1>6, FoldersApartNext
  <2>2. UsedSlots(table'[k]) = {}
    <3>1. \A s \in Slot \ {0, 1} : table'[k][s] = NoEntry
      BY <1>3, <1>4 DEF EntryAdded, h
    <3> QED BY <3>1 DEF UsedSlots, NoEntry
  <2>3. {table'[k][i].name : i \in UsedSlots(table'[k])} = {}
    BY <2>2
  <2> QED BY <2>1, <2>2, <2>3 DEF FolderHolds, Store!Empty
<1>10. \A d \in Dirs' : FolderHolds(T[d], table'[d], fat_disk', bytes')
  <2> SUFFICES ASSUME NEW d \in Dirs'
               PROVE  FolderHolds(T[d], table'[d], fat_disk', bytes')
    OBVIOUS
  <2>1. CASE d = k
    BY <1>9, <2>1
  <2>2. CASE d # k
    <3>1. d \in Dirs
      BY <1>6, <2>2
    <3>2. FolderHolds(IF d = h THEN Store!With(h, n, Store!Folder(k))
                               ELSE DiskTree[d],
                      table'[d], fat_disk', bytes')
      BY <1>1, <1>5, <3>1, MoreOneEntry DEF h, n
    <3> QED BY <1>7, <2>2, <3>1, <3>2
  <2> QED BY <2>1, <2>2
<1>11. DiskTree' = T
  <2> HIDE DEF T
  <2> QED BY <1>8, <1>10, TreeIs, TreeNow
<1>12. Store!MakeFolder(h, n, k)
  BY <1>2, <1>4, <1>11, ExistsIs DEF Store!MakeFolder, Store!Says
<1> QED BY <1>2, <1>4, <1>12 DEF Store!Next

----------------------------------------------------------------------------
(* All steps. *)

LEMMA RequestIsStore ==
  ASSUME StoreInv, StoreInv', CarefulRequest
  PROVE  Store!Next
<1>1. Next
  BY DEF Next
<1>2. ASSUME NEW parent \in Opened, NEW name \in Name, ~ OwnName(parent, name),
             DeleteReject(parent, name) \/ DeleteEntry(parent, name)
      PROVE  Store!Next
  BY <1>1, <1>2, DeleteRefused, DeleteEntryIsRemove
<1>3. ASSUME NEW parent \in Opened, NEW name \in Name, NEW size \in Sizes,
             WriteReject(parent, name, size) \/ ReadReject(parent, name, size)
      PROVE  Store!Next
  BY <1>3, WriteRefused, ReadRefused
<1>4. ASSUME NEW parent, NEW name, NEW size, NEW data,
             \/ WriteFolder(parent, name)
             \/ WriteFile(parent, name, size, data)
             \/ ReadBegin(parent, name, size)
      PROVE  Store!Next
  BY <1>4, AcceptedBegins
<1>5. ASSUME NEW parent \in Dirs, NEW name \in Name, NEW roomy \in BOOLEAN,
             ~ (parent = ROOT_CLUSTER_NUMBER /\ OwnName(parent, name)),
             ReadDirectory(parent, name, roomy)
      PROVE  Store!Next
  BY <1>5, ReadDirectoryIsList
<1> QED BY <1>2, <1>3, <1>4, <1>5 DEF CarefulRequest

LEMMA StoreStep ==
  StoreInv /\ StoreInv' /\ [Next]_vars => [Store!Next]_(Store!vars)
<1> SUFFICES ASSUME StoreInv, StoreInv', [Next]_vars
             PROVE  Store!Next \/ UNCHANGED Store!vars
  OBVIOUS
<1>1. CASE Boot
  BY <1>1, BootIsNone
<1>2. CASE CarefulRequest
  BY <1>2, RequestIsStore
<1>3. CASE WriteParent
  <2>1. Next
    BY <1>3 DEF Next, Driver
  <2>2. PICK q \in Place : \E first \in Lowest(slot_buf) : EntryAdded(q, first)
    BY <1>3, WriteParentSafe DEF StoreInv
  <2>3. PICK first \in Lowest(slot_buf) : EntryAdded(q, first)
    BY <2>2
  <2> QED BY <1>3, <2>1, <2>3, NewFileIsCreate, NewFolderIsMade
<1>4. CASE Driver /\ ~ WriteParent
  BY <1>4, MiddleIsNone, DeleteFatIsRemoved, ReadDoneIsRead DEF Driver
<1>5. CASE Crash \/ TornFat
  BY <1>5, CrashIsPowerLoss
<1>6. CASE UNCHANGED vars
  <2>1. UNCHANGED <<disk, pc, request, reply, out, listing>>
    BY <1>6 DEF vars, locals
  <2>2. DiskTree' = DiskTree /\ Removing' = Removing /\ Answered' = Answered
    BY <2>1, DiskSame DEF disk, Removing, Answered
  <2>3. Returned' = Returned
    BY <2>1 DEF Returned, UsedSlots, EntryNamed
  <2> QED BY <2>2, <2>3 DEF Store!vars
<1> QED BY <1>1, <1>2, <1>3, <1>4, <1>5, <1>6 DEF Next

LEMMA InitIsStore == Init => Store!Init
<1> SUFFICES ASSUME Init PROVE Store!Init
  OBVIOUS
<1>1. LiveEntries = {}
  BY DEF Init, LiveEntries, Place, At, EmptyTable, NoEntry
<1>2. Dirs = {ROOT_CLUSTER_NUMBER}
  BY <1>1, ClusterFacts DEF Dirs, LiveDirs
<1>3. UsedSlots(table[ROOT_CLUSTER_NUMBER]) = {}
  BY ClusterFacts DEF Init, UsedSlots, EmptyTable, NoEntry
<1>4. DiskTree[ROOT_CLUSTER_NUMBER] = Store!Empty
  BY <1>2, <1>3, EmptyIs DEF NonEmptyDirectory, UsedSlots
<1>5. DiskTree = [d \in {ROOT_CLUSTER_NUMBER} |-> Store!Empty]
  <2>1. DiskTree = [d \in {ROOT_CLUSTER_NUMBER} |-> DiskTree[d]]
    BY <1>2, FolderIsFunction
  <2> QED BY <1>4, <2>1
<1>6. /\ Answered = [op |-> "none"] /\ Returned = [kind |-> "nothing"]
      /\ Removing = {}
  BY DEF Init, Answered, Returned, Removing, NoReply
<1> QED BY <1>5, <1>6 DEF Store!Init, Store!NoAnswer, Store!Nothing

----------------------------------------------------------------------------
(* The theorem. *)

(***************************************************************************)
(* No answer is given while an operation is under way, and none survives a *)
(* power loss: the caller of read, write or delete has the result only     *)
(* when the function returns.                                              *)
(***************************************************************************)
THEOREM AnswersAtTheEnd == Spec => []AnswerInv
<1>1. Init => AnswerInv
  BY DEF Init, AnswerInv
<1> QED BY <1>1, Safety, AnswerStep, PTL DEF Spec

(***************************************************************************)
(* Every step of the driver, and a power loss before any of its disk       *)
(* writes, is one step of the store of whole files or none: an operation   *)
(* takes effect at the write of the parent's table, a code it answers is   *)
(* the truth about the tree at that moment, and a crash loses no file that *)
(* a write had answered for (fat32.c:152-423).                             *)
(***************************************************************************)
THEOREM DriverIsFileStore == Spec => ImplementsFileStore
<1>1. Spec => []StoreInv
  BY Safety, FilesSafety, FilesKeepContents, AnswersAtTheEnd, PTL DEF StoreInv
<1>2. Spec => []([Store!Next]_(Store!vars))
  BY <1>1, StoreStep, PTL DEF Spec
<1>3. Spec => Store!Init
  BY InitIsStore DEF Spec
<1> QED BY <1>2, <1>3 DEF ImplementsFileStore, Store!Spec

=============================================================================
