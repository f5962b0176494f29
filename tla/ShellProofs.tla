---------------------------- MODULE ShellProofs ----------------------------
(***************************************************************************)
(* The shell, proved for every disk, every set of names and every program: *)
(* its stack never underflows, with both users of Shell, and with the tidy *)
(* one the driver gets only requests it was proved for, the stack is the   *)
(* way from the root, mv loses no file, and every start finds the shell.   *)
(***************************************************************************)
EXTENDS ShellInductive, Fat32StoreProofs, SequenceTheorems

USE DEF FAT_CLUSTER_NUMBER, ROOT_CLUSTER_NUMBER, FAT32_FAT_EMPTY_ENTRY,
        FAT32_FAT_END_OF_FILE, CLUSTER_0_VALUE

----------------------------------------------------------------------------
(* The stack. *)

\* The stack is one, and its bottom is the root.
StackInv == (\E S : parents \in Seq(S)) /\ NoUnderflow

\* Entering any folder leaves the root at the bottom.
LEMMA PushKeepsRoot ==
  ASSUME StackInv, parents' = Pushed
  PROVE  StackInv'
<1>1. PICK S : parents \in Seq(S)
  BY DEF StackInv
<1>2. parents \in Seq(S \cup {currentDirCluster})
  BY <1>1
<1>3. /\ parents' \in Seq(S \cup {currentDirCluster})
      /\ parents' # << >>
      /\ parents = << >> => parents'[1] = currentDirCluster
      /\ parents # << >> => parents'[1] = parents[1]
  BY <1>2 DEF Pushed
<1>4. parents'[1] = ROOT_CLUSTER_NUMBER
  BY <1>3 DEF StackInv, NoUnderflow
<1> QED BY <1>3, <1>4 DEF StackInv, NoUnderflow

\* Going back finds a folder on the stack, and ends in the root when it was
\* the last one.
LEMMA BackKeepsRoot ==
  ASSUME StackInv, NEW back \in Back,
         currentDirCluster' = back[1], parents' = back[2]
  PROVE  StackInv'
<1>1. PICK S : parents \in Seq(S)
  BY DEF StackInv
<1>2. CASE currentDirCluster = ROOT_CLUSTER_NUMBER
  <2>1. UNCHANGED <<currentDirCluster, parents>>
    BY <1>2 DEF Back
  <2> QED BY <2>1 DEF StackInv, NoUnderflow
<1>3. CASE currentDirCluster # ROOT_CLUSTER_NUMBER
  <2>1. parents # << >> /\ parents[1] = ROOT_CLUSTER_NUMBER
    BY <1>3 DEF StackInv, NoUnderflow
  <2>2. Len(parents) \in Nat \ {0}
    BY <1>1, <2>1
  <2>3. back \in {<<c, Popped>> : c \in Top}
    BY <1>3 DEF Back
  <2>4. currentDirCluster' = parents[Len(parents)] /\ parents' = Popped
    BY <2>1, <2>3 DEF Top
  <2>5. CASE Len(parents) = 1
    <3>1. parents' = << >>
      BY <1>1, <2>4, <2>5 DEF Popped
    <3>2. currentDirCluster' = ROOT_CLUSTER_NUMBER
      BY <2>1, <2>4, <2>5
    <3>3. parents' \in Seq({})
      BY <3>1
    <3> QED BY <3>1, <3>2, <3>3 DEF StackInv, NoUnderflow
  <2>6. CASE Len(parents) # 1
    <3>1. parents' \in Seq(S) /\ parents' # << >> /\ parents'[1] = parents[1]
      <4>1. PICK n \in Nat : Len(parents) = n + 1 /\ 1 =< n
        <5>1. ASSUME NEW k \in Nat \ {0}, k # 1
              PROVE  k - 1 \in Nat /\ k = (k - 1) + 1 /\ 1 =< k - 1
          BY <5>1
        <5> QED BY <2>2, <2>6, <5>1
      <4>2. parents' = SubSeq(parents, 1, n)
        BY <2>4, <4>1 DEF Popped
      <4>3. \A i \in 1 .. n : parents[i] \in S
        BY <1>1, <4>1
      <4>4. /\ SubSeq(parents, 1, n) \in Seq(S)
            /\ Len(SubSeq(parents, 1, n)) = n
            /\ SubSeq(parents, 1, n)[1] = parents[1]
        BY <4>1, <4>3, SubSeqProperties
      <4>5. parents' # << >>
        BY <4>1, <4>2, <4>4
      <4> QED BY <4>2, <4>4, <4>5
    <3> QED BY <2>1, <3>1 DEF StackInv, NoUnderflow
  <2> QED BY <2>5, <2>6
<1> QED BY <1>2, <1>3

LEMMA StayKeepsRoot ==
  ASSUME StackInv, UNCHANGED <<currentDirCluster, parents>>
  PROVE  StackInv'
BY DEF StackInv, NoUnderflow

LEMMA RootKeepsRoot ==
  ASSUME currentDirCluster' = ROOT_CLUSTER_NUMBER, parents' = << >>
  PROVE  StackInv'
<1>1. parents' \in Seq({})
  OBVIOUS
<1> QED BY <1>1 DEF StackInv, NoUnderflow

LEMMA ShellInitStack == ShellInit => StackInv
<1>1. ShellInit => \E S : parents \in Seq(S)
  <2>1. << >> \in Seq({})
    OBVIOUS
  <2> QED BY <2>1 DEF ShellInit
<1> QED BY <1>1 DEF ShellInit, StackInv, NoUnderflow

\* Commands.
LEMMA CommandStack ==
  ASSUME StackInv, NEW name, NEW other,
         \/ CdUp \/ Mkdir(name) \/ Cat(name) \/ Cp(name) \/ Cd(name)
         \/ Rm(name) \/ Mv(name, other)
  PROVE  StackInv'
<1>1. CASE CdUp
  <2>1. PICK back \in Back : Prompt(back[1], back[2])
    BY <1>1 DEF CdUp
  <2> QED BY <2>1, BackKeepsRoot DEF Prompt
<1>2. CASE Mkdir(name) \/ Cat(name) \/ Cp(name) \/ Rm(name)
  <2>1. UNCHANGED shell
    BY <1>2 DEF Mkdir, Cat, Cp, Rm
  <2> QED BY <2>1, StayKeepsRoot DEF shell
<1>3. CASE Cd(name)
  <2>1. parents' = Pushed
    BY <1>3 DEF Cd, Prompt
  <2> QED BY <2>1, PushKeepsRoot
<1>4. CASE Mv(name, other)
  <2>1. parents' = Pushed
    BY <1>4 DEF Mv
  <2> QED BY <2>1, PushKeepsRoot
<1> QED BY <1>1, <1>2, <1>3, <1>4

\* What goes on by itself, and losses of power.
LEMMA SystemStack ==
  ASSUME StackInv, System \/ Environment
  PROVE  StackInv'
<1>1. CASE UNCHANGED shell
  BY <1>1, StayKeepsRoot DEF shell
<1>2. CASE Start
  <2>1. CASE step' = "garbage"
    BY <1>1, <1>2, <2>1 DEF Start
  <2>2. CASE step' # "garbage"
    BY <1>2, <2>2, RootKeepsRoot DEF Start, Prompt
  <2> QED BY <2>1, <2>2
<1>3. CASE CpWrite \/ MvWrite
  BY <1>1, <1>3 DEF CpWrite, MvWrite
<1>4. CASE MvRemove
  <2>1. PICK back \in Back :
          currentDirCluster' = back[1] /\ parents' = back[2]
    BY <1>4 DEF MvRemove
  <2> QED BY <2>1, BackKeepsRoot
<1>5. CASE MvGiveUp \/ Return
  BY <1>5, StayKeepsRoot DEF MvGiveUp, Return, Prompt
<1>6. CASE SwitchOff
  BY <1>6, RootKeepsRoot DEF SwitchOff
<1> QED BY <1>1, <1>2, <1>3, <1>4, <1>5, <1>6 DEF System, Environment

LEMMA TidyStack == StackInv /\ [TidyNext]_allvars => StackInv'
<1> SUFFICES ASSUME StackInv, [TidyNext]_allvars PROVE StackInv'
  OBVIOUS
<1>1. CASE System \/ Environment
  BY <1>1, SystemStack
<1>2. CASE TidyUser
  BY <1>2, CommandStack, StayKeepsRoot DEF TidyUser, shell
<1>3. CASE UNCHANGED allvars
  BY <1>3, StayKeepsRoot DEF allvars, shell
<1> QED BY <1>1, <1>2, <1>3 DEF TidyNext

LEMMA RoamingStack == StackInv /\ [RoamingNext]_allvars => StackInv'
<1> SUFFICES ASSUME StackInv, [RoamingNext]_allvars PROVE StackInv'
  OBVIOUS
<1>1. CASE System \/ Environment
  BY <1>1, SystemStack
<1>2. CASE RoamingUser
  BY <1>2, CommandStack, StayKeepsRoot DEF RoamingUser, shell
<1>3. CASE UNCHANGED allvars
  BY <1>3, StayKeepsRoot DEF allvars, shell
<1> QED BY <1>1, <1>2, <1>3 DEF RoamingNext

(***************************************************************************)
(* The stack never underflows, with the user whose requests the driver can *)
(* handle and with the one who types any name.                             *)
(***************************************************************************)
THEOREM StackHoldsRoot ==
  (TidySpec => []NoUnderflow) /\ (RoamingSpec => []NoUnderflow)
<1>1. StackInv => NoUnderflow
  BY DEF StackInv
<1>2. TidySpec => []NoUnderflow
  BY <1>1, ShellInitStack, TidyStack, PTL DEF TidySpec
<1>3. RoamingSpec => []NoUnderflow
  BY <1>1, ShellInitStack, RoamingStack, PTL DEF RoamingSpec
<1> QED BY <1>2, <1>3

----------------------------------------------------------------------------
(* Ways: folders, each the parent of the next, and their names. *)

LEMMA WayFrame ==
  ASSUME NEW s \in Seq(Cluster), NEW t, NEW u, NEW D, NEW E, NEW names,
         Way(s, t, D, names),
         \A i \in 1 .. Len(s) :
            LET d == s[i]
            IN  /\ d \in E /\ u[d][0].name = t[d][0].name
                /\ d # ROOT_CLUSTER_NUMBER => u[d][1].cluster = t[d][1].cluster
  PROVE  Way(s, u, E, names)
<1>1. Len(s) \in Nat
  OBVIOUS
<1>2. \A i \in 1 .. Len(s) - 1 : i \in 1 .. Len(s) /\ i + 1 \in 1 .. Len(s)
  BY <1>1
<1> QED BY <1>2 DEF Way

LEMMA WayRenamed ==
  ASSUME NEW s \in Seq(Cluster), NEW t, NEW D, NEW names, NEW other,
         Way(s, t, D, names), Len(s) =< Len(other) + 1,
         \A i \in 1 .. Len(s) - 1 : other[i] = names[i]
  PROVE  Way(s, t, D, other)
BY DEF Way

LEMMA WayPush ==
  ASSUME NEW s \in Seq(Cluster), s # << >>, NEW c \in Cluster, NEW t, NEW D,
         NEW names, Way(s, t, D, names), c \in D, c # ROOT_CLUSTER_NUMBER,
         t[c][1].cluster = s[Len(s)], Len(s) =< Len(names),
         Len(names) \in Nat, names[Len(s)] = t[s[Len(s)]][0].name
  PROVE  Way(Append(s, c), t, D, names)
<1> DEFINE n == Len(s)
           a == Append(s, c)
<1>1. /\ n \in Nat \ {0} /\ Len(a) = n + 1 /\ a[n + 1] = c
      /\ \A i \in 1 .. n : a[i] = s[i]
  OBVIOUS
<1> HIDE DEF n, a
<1>2. a[1] = ROOT_CLUSTER_NUMBER /\ \A i \in 1 .. Len(a) : a[i] \in D
  BY <1>1 DEF Way, n
<1>3. Len(a) =< Len(names) + 1
  BY <1>1 DEF n
<1>4. ASSUME NEW i \in 1 .. Len(a) - 1
      PROVE  /\ a[i + 1] # ROOT_CLUSTER_NUMBER
             /\ t[a[i + 1]][1].cluster = a[i] /\ names[i] = t[a[i]][0].name
  <2>1. CASE i = n
    BY <1>1, <2>1 DEF n
  <2>2. CASE i # n
    <3>1. i \in 1 .. n - 1 /\ i \in 1 .. n /\ i + 1 \in 1 .. n
      BY <1>1, <2>2
    <3> QED BY <1>1, <3>1 DEF Way, n
  <2> QED BY <2>1, <2>2
<1> QED BY <1>2, <1>3, <1>4 DEF Way, a

LEMMA WayPop ==
  ASSUME NEW s \in Seq(Cluster), s # << >>, NEW c \in Cluster, NEW t, NEW D,
         NEW names, Way(Append(s, c), t, D, names), Len(names) \in Nat
  PROVE  /\ Way(s, t, D, names) /\ s[Len(s)] \in D
         /\ c \in D /\ c # ROOT_CLUSTER_NUMBER /\ t[c][1].cluster = s[Len(s)]
         /\ Len(s) =< Len(names) /\ names[Len(s)] = t[s[Len(s)]][0].name
<1> DEFINE n == Len(s)
           a == Append(s, c)
<1>1. /\ n \in Nat \ {0} /\ Len(a) = n + 1 /\ a[n + 1] = c
      /\ \A i \in 1 .. n : a[i] = s[i]
  OBVIOUS
<1> HIDE DEF n, a
<1>2. Way(a, t, D, names)
  BY DEF a
<1>3. /\ s[1] = ROOT_CLUSTER_NUMBER /\ \A i \in 1 .. n : s[i] \in D
      /\ a[n + 1] \in D
  BY <1>1, <1>2 DEF Way
<1>4. n =< Len(names)
  BY <1>1, <1>2 DEF Way
<1>5. \A i \in 1 .. n : /\ a[i + 1] # ROOT_CLUSTER_NUMBER
                        /\ t[a[i + 1]][1].cluster = s[i]
                        /\ names[i] = t[s[i]][0].name
  BY <1>1, <1>2 DEF Way
<1>6. \A i \in 1 .. n - 1 : i \in 1 .. n /\ a[i + 1] = s[i + 1]
  BY <1>1
<1>7. n \in 1 .. n /\ n =< Len(names) + 1
  BY <1>1, <1>4
<1>8. Way(s, t, D, names)
  BY <1>3, <1>5, <1>6, <1>7 DEF Way, n
<1> QED BY <1>1, <1>3, <1>4, <1>5, <1>7, <1>8 DEF n

----------------------------------------------------------------------------
(* What a step of the driver leaves of a way. *)

\* A folder whose entry is kept keeps its name and its parent.
LEMMA FolderStays ==
  ASSUME IInv, IInv', Formatted, Formatted', NEW d \in Dirs,
         \/ d = ROOT_CLUSTER_NUMBER
         \/ \E p \in LiveDirs : /\ p \in LiveEntries' /\ At(p)' = At(p)
                                /\ At(p).cluster = d
  PROVE  /\ d \in Dirs' /\ table'[d][0].name = table[d][0].name
         /\ d # ROOT_CLUSTER_NUMBER => table'[d][1].cluster = table[d][1].cluster
<1>1. d \in Cluster
  BY DEF Dirs
<1>2. CASE d = ROOT_CLUSTER_NUMBER
  <2>1. table[d][0].name = RootName /\ table'[d][0].name = RootName
    BY <1>2 DEF IInv, DiskInv, RootTable
  <2> QED BY <1>1, <1>2, <2>1 DEF Dirs
<1>3. CASE d # ROOT_CLUSTER_NUMBER
  <2>1. PICK p \in LiveDirs : /\ p \in LiveEntries' /\ At(p)' = At(p)
                              /\ At(p).cluster = d
    BY <1>3
  <2>2. p \in LiveDirs' /\ At(p)'.cluster = d
    BY <2>1 DEF LiveDirs
  <2>3. table[d][0].name = At(p).name /\ table[d][1].cluster = p[1]
    BY <2>1 DEF IInv, DiskInv, DotEntriesSound
  <2>4. table'[d][0].name = At(p)'.name /\ table'[d][1].cluster = p[1]
    BY <2>2 DEF IInv, DiskInv, DotEntriesSound
  <2> QED BY <1>1, <2>1, <2>2, <2>3, <2>4 DEF Dirs
<1> QED BY <1>2, <1>3

\* The folder above another one is not empty.
LEMMA AboveIsFull ==
  ASSUME IInv, NEW d \in Dirs, NEW c \in Dirs, c # ROOT_CLUSTER_NUMBER,
         table[c][1].cluster = d
  PROVE  NonEmptyDirectory(table[d])
<1>1. PICK r \in LiveDirs : At(r).cluster = c
  BY DEF Dirs
<1>2. r[1] = d /\ r \in LiveEntries
  BY <1>1 DEF IInv, DiskInv, DotEntriesSound, LiveDirs
<1> QED BY <1>2, PlaceFacts DEF NonEmptyDirectory

\* Only the last folder of a way can be removed, and not by its own name.
LEMMA FoldersKept ==
  ASSUME IInv, IInv', Next, Mounted, Mounted',
         NEW s \in Seq(Cluster), NEW names, Way(s, table, Dirs, names),
         pc = "idle" /\ pc' = "delete_walk" => request'.parent = s[Len(s)],
         NEW i \in 1 .. Len(s)
  PROVE  LET d == s[i]
         IN  /\ d \in Dirs' /\ table'[d][0].name = table[d][0].name
             /\ d # ROOT_CLUSTER_NUMBER =>
                  table'[d][1].cluster = table[d][1].cluster
<1> DEFINE d == s[i]
<1>1. /\ d \in Dirs /\ DiskInv /\ DiskInv' /\ Len(s) \in Nat
      /\ Formatted /\ Formatted'
  <2>1. \A n \in 1 .. Len(s) : s[n] \in Dirs
    BY DEF Way
  <2>2. (DiskInv /\ Mounted => Formatted) /\ (DiskInv' /\ Mounted' => Formatted')
    BY DEF DiskInv, BlankDisk, Mounted, Formatted, FormatPhase
  <2> QED BY <2>1, <2>2 DEF IInv
<1> SUFFICES ASSUME d # ROOT_CLUSTER_NUMBER
             PROVE  \E p \in LiveDirs : /\ p \in LiveEntries' /\ At(p)' = At(p)
                                        /\ At(p).cluster = d
  BY <1>1, FolderStays
<1>2. PICK p \in LiveDirs : At(p).cluster = d
  BY <1>1 DEF Dirs
<1>3. p \in LiveEntries /\ At(p).isdir
  BY <1>2 DEF LiveDirs
<1> SUFFICES p \in LiveEntries' /\ At(p)' = At(p)
  BY <1>2
<1>4. CASE TreeStays
  BY <1>3, <1>4 DEF TreeStays
<1>5. ASSUME NEW q, NEW first, EntryAdded(q, first)
      PROVE  p \in LiveEntries' /\ At(p)' = At(p)
  BY <1>3, <1>5 DEF EntryAdded
<1>6. ASSUME pc = "idle", pc' = "delete_walk",
             ~ OwnName(request'.parent, request'.name),
             NEW q \in LiveEntries, EntryRemoved(q, request'.parent),
             At(q).name = request'.name
      PROVE  p \in LiveEntries' /\ At(p)' = At(p)
  <2>1. SUFFICES p # q
    BY <1>3, <1>6, <2>1 DEF EntryRemoved
  <2>2. SUFFICES ASSUME p = q PROVE FALSE
    OBVIOUS
  <2>3. ~ NonEmptyDirectory(table[d])
    BY <1>2, <1>3, <1>6, <2>2 DEF EntryRemoved
  <2>4. CASE i = Len(s)
    <3>1. request'.parent = d
      BY <1>6, <2>4
    <3>2. At(p).name = table[d][0].name
      BY <1>1, <1>2 DEF DiskInv, DotEntriesSound
    <3> QED BY <1>6, <2>2, <3>1, <3>2 DEF OwnName
  <2>5. CASE i # Len(s)
    <3>1. i \in 1 .. Len(s) - 1 /\ i + 1 \in 1 .. Len(s)
      BY <1>1, <2>5
    <3>2. /\ s[i + 1] \in Dirs /\ s[i + 1] # ROOT_CLUSTER_NUMBER
          /\ table[s[i + 1]][1].cluster = d
      BY <3>1 DEF Way
    <3> QED BY <1>1, <2>3, <3>2, AboveIsFull
  <2> QED BY <2>4, <2>5
<1>7. ~ (LiveEntries = {} /\ LiveEntries' = {} /\ ~ Formatted)
  BY <1>1
<1> QED BY <1>4, <1>5, <1>6, <1>7, TreeChanges

LEMMA WayKept ==
  ASSUME IInv, IInv', Next, Mounted, Mounted',
         NEW s \in Seq(Cluster), NEW names, Way(s, table, Dirs, names),
         pc = "idle" /\ pc' = "delete_walk" => request'.parent = s[Len(s)]
  PROVE  Way(s, table', Dirs', names)
BY FoldersKept, WayFrame

----------------------------------------------------------------------------
(* Calls. *)

LEMMA ReadCalled ==
  ASSUME NEW parent, NEW name, NEW size, CallRead(parent, name, size)
  PROVE  /\ pc = "idle" /\ UNCHANGED <<disk, fat>>
         /\ \/ pc' = "idle" /\ reply'.op = "read"
            \/ pc' = "read_walk" /\ request' = Lookup(parent, name, size)
BY DEF CallRead, ReadReject, ReadBegin, Answer

LEMMA WriteCalled ==
  ASSUME NEW parent, NEW name, NEW size, NEW data,
         CallWrite(parent, name, size, data)
  PROVE  /\ pc = "idle"
         /\ \/ pc' = "idle" /\ reply'.code # 0
            \/ /\ pc' \in WritePhase /\ Matches(table[parent], name) = {}
               /\ request'.parent = parent /\ request'.name = name
               /\ request'.size = size /\ (size # 0 => request'.data = data)
<1>1. CASE WriteReject(parent, name, size)
  BY <1>1 DEF WriteReject, Answer
<1>2. CASE size = 0 /\ WriteFolder(parent, name)
  BY <1>2 DEF WriteFolder, WriteAccepted, WritePhase
<1>3. CASE WriteFile(parent, name, size, data)
  BY <1>3 DEF WriteFile, WriteAccepted, WritePhase
<1> QED BY <1>1, <1>2, <1>3 DEF CallWrite

LEMMA DeleteCalled ==
  ASSUME NEW parent, NEW name, CallDelete(parent, name)
  PROVE  /\ pc = "idle"
         /\ \/ pc' = "idle"
            \/ /\ pc' = "delete_walk"
               /\ request'.parent = parent /\ request'.name = name
BY DEF CallDelete, DeleteReject, DeleteEntry, Answer, Lookup

\* Those with a folder of the tree for their parent.
LEMMA CallsAreCareful ==
  ASSUME NEW parent \in Dirs, NEW name \in Name, NEW size \in Sizes
  PROVE  /\ CallRead(parent, name, size) => CarefulRequest
         /\ \A data : /\ Fits(size) /\ (size # 0 => data \in Data)
                      /\ CallWrite(parent, name, size, data)
                      => CarefulRequest
         /\ ~ OwnName(parent, name) /\ CallDelete(parent, name) => CarefulRequest
<1>1. parent \in Opened
  BY DEF Opened, Dirs
<1>2. CallRead(parent, name, size) => CarefulRequest
  BY <1>1 DEF CallRead, CarefulRequest
<1>3. ASSUME NEW data, Fits(size), size # 0 => data \in Data,
             CallWrite(parent, name, size, data)
      PROVE  CarefulRequest
  <2>1. CASE WriteReject(parent, name, size)
    BY <1>1, <1>3, <2>1 DEF CarefulRequest
  <2>2. CASE WriteFolder(parent, name)
    BY <1>1, <2>2 DEF CarefulRequest
  <2>3. CASE WriteFile(parent, name, size, data)
    <3>1. data \in Data
      BY <1>3, <2>3 DEF WriteFile
    <3> QED BY <1>1, <1>3, <2>3, <3>1 DEF CarefulRequest
  <2> QED BY <1>3, <2>1, <2>2, <2>3 DEF CallWrite
<1>4. ~ OwnName(parent, name) /\ CallDelete(parent, name) => CarefulRequest
  BY <1>1 DEF CallDelete, CarefulRequest
<1> QED BY <1>2, <1>3, <1>4

\* The driver's steps follow from the phase they find.
LEMMA DriverStepFacts ==
  ASSUME DriverStep
  PROVE  /\ Next /\ pc # "idle" /\ pc # "off"
         /\ pc \notin FormatPhase =>
              Driver /\ pc' \notin FormatPhase \cup {"off"}
         /\ pc \in WritePhase => \/ pc' \in WritePhase /\ request' = request
                                 \/ WriteParent /\ pc' = "idle"
         /\ pc' \in WritePhase => pc \in WritePhase
         /\ pc = "read_walk" =>
              \/ pc' \in {"read_walk", "wild"} /\ request' = request
              \/ /\ pc' = "idle" /\ reply'.op = "read" /\ reply'.code = 0
                 /\ reply'.parent = request.parent /\ reply'.name = request.name
<1> USE DEF FormatPhase, WritePhase
<1>1. CASE FormatFat \/ FormatName \/ FormatRoot
  BY <1>1 DEF FormatFat, FormatName, FormatRoot, Next, Boot
<1>2. CASE MkdirFat \/ WriteFat \/ WriteData
  <2>1. request' = request
    BY <1>2 DEF MkdirFat, WriteFat, WriteData, locals
  <2> QED BY <1>2, <2>1 DEF MkdirFat, WriteFat, WriteData, Next, Driver
<1>3. CASE WriteParent
  BY <1>3 DEF WriteParent, Answer, Next, Driver
<1>4. CASE DeleteWalk \/ DeleteFat
  BY <1>4 DEF DeleteWalk, DeleteFat, Answer, Next, Driver
<1>5. CASE ReadCluster \/ ReadDone
  <2>1. ReadCluster => request' = request
    BY DEF ReadCluster
  <2> QED BY <1>5, <2>1 DEF ReadCluster, ReadDone, Answer, Next, Driver
<1> QED BY <1>1, <1>2, <1>3, <1>4, <1>5 DEF DriverStep, Driver

LEMMA SameTree ==
  ASSUME UNCHANGED vars
  PROVE  /\ UNCHANGED <<pc, table, fat_disk, bytes, reply, out, request>>
         /\ Dirs' = Dirs /\ LiveEntries' = LiveEntries
         /\ Mounted' = Mounted /\ Formatted' = Formatted
         /\ Installed' = Installed
<1>1. /\ UNCHANGED <<signed, pc, table, fat_disk, bytes, reply, out>>
      /\ request' = request
  BY DEF vars, disk, locals
<1>2. Dirs' = Dirs /\ LiveEntries' = LiveEntries
  BY <1>1 DEF Dirs, LiveDirs, LiveEntries, At
<1> QED BY <1>1, <1>2 DEF Mounted, Formatted, Installed

----------------------------------------------------------------------------
(* Where the shell stands. *)

LEMMA Unpopped ==
  ASSUME NEW S, NEW s \in Seq(S), s # << >>
  PROVE  /\ SubSeq(s, 1, Len(s) - 1) \in Seq(S)
         /\ Len(SubSeq(s, 1, Len(s) - 1)) = Len(s) - 1
         /\ Append(SubSeq(s, 1, Len(s) - 1), s[Len(s)]) = s
<1> DEFINE n == Len(s)
           f == SubSeq(s, 1, n - 1)
<1>1. n \in Nat \ {0} /\ \A i \in 1 .. n : s[i] \in S
  OBVIOUS
<1>2. f \in Seq(S) /\ Len(f) = n - 1 /\ \A i \in 1 .. n - 1 : f[i] = s[i]
  <2>1. PICK m \in Nat : n = m + 1
    <3>1. n - 1 \in Nat /\ n = (n - 1) + 1
      BY <1>1
    <3> QED BY <3>1
  <2>2. n - 1 = m /\ \A i \in 1 .. m : s[i] \in S
    BY <1>1, <2>1
  <2> HIDE DEF n
  <2> QED BY <2>1, <2>2, SubSeqProperties
<1>3. Append(f, s[n]) \in Seq(S) /\ Len(Append(f, s[n])) = n
  BY <1>1, <1>2
<1>4. \A i \in 1 .. n : Append(f, s[n])[i] = s[i]
  <2> SUFFICES ASSUME NEW i \in 1 .. n PROVE Append(f, s[n])[i] = s[i]
    OBVIOUS
  <2>1. CASE i = n
    BY <1>1, <1>2, <2>1
  <2>2. CASE i # n
    <3>1. i \in 1 .. n - 1
      BY <1>1, <2>2
    <3> QED BY <1>1, <1>2, <3>1
  <2> QED BY <2>1, <2>2
<1> HIDE DEF f, n
<1>5. Append(f, s[n]) = s
  BY <1>3, <1>4 DEF n
<1> QED BY <1>2, <1>5 DEF f, n

LEMMA Standing ==
  ASSUME IInv, ShellTypeOK, WayInv, Running
  PROVE  /\ Mounted /\ Formatted
         /\ Path \in Seq(Cluster) /\ Path # << >>
         /\ Len(Path) = Len(parents) + 1 /\ Path[Len(Path)] = currentDirCluster
         /\ currentDirCluster \in Dirs /\ Way(Path, table, Dirs, dir_buff)
<1>1. parents \in Seq(Cluster) /\ currentDirCluster \in Cluster
  BY DEF ShellTypeOK
<1>2. /\ Path \in Seq(Cluster) /\ Len(Path) = Len(parents) + 1
      /\ Path[Len(Path)] = currentDirCluster /\ Len(Path) \in 1 .. Len(Path)
  BY <1>1 DEF Path
<1>3. Mounted /\ Way(Path, table, Dirs, dir_buff)
  BY DEF WayInv
<1>4. currentDirCluster \in Dirs
  BY <1>2, <1>3 DEF Way
<1>5. Formatted
  BY <1>3, MountedIsFormatted DEF IInv
<1> QED BY <1>1, <1>2, <1>3, <1>4, <1>5

\* One step below another folder.
LEMMA StandingBelow ==
  ASSUME IInv, ShellTypeOK, WayInv, Running, parents # << >>
  PROVE  /\ Way(parents, table, Dirs, dir_buff)
         /\ parents[Len(parents)] \in Dirs
         /\ currentDirCluster # ROOT_CLUSTER_NUMBER
         /\ table[currentDirCluster][1].cluster = parents[Len(parents)]
<1>1. parents \in Seq(Cluster) /\ currentDirCluster \in Cluster
      /\ dir_buff \in Seq(AnyName)
  BY DEF ShellTypeOK
<1>2. Way(Append(parents, currentDirCluster), table, Dirs, dir_buff)
  BY DEF WayInv, Path
<1>3. Len(dir_buff) \in Nat
  BY <1>1
<1> QED BY <1>1, <1>2, <1>3, WayPop

LEMMA GoingBack ==
  ASSUME IInv, ShellTypeOK, WayInv, Running, NEW back \in Back
  PROVE  /\ back[1] \in Cluster /\ back[2] \in Seq(Cluster)
         /\ Len(back[2]) =< MaxDepth
         /\ Way(Append(back[2], back[1]), table, Dirs, dir_buff)
         /\ parents # << >> =>
              /\ back[1] = parents[Len(parents)]
              /\ Append(back[2], back[1]) = parents
<1>1. parents \in Seq(Cluster) /\ currentDirCluster \in Cluster
      /\ Len(parents) =< MaxDepth
  BY DEF ShellTypeOK
<1>2. CASE parents = << >>
  <2>1. Path[1] = currentDirCluster
    BY <1>1, <1>2 DEF Path
  <2>2. currentDirCluster = ROOT_CLUSTER_NUMBER
    BY <2>1, Standing DEF Way
  <2>3. back = <<currentDirCluster, parents>>
    BY <2>2 DEF Back
  <2> QED BY <1>1, <1>2, <2>3, Standing DEF Path
<1>3. CASE parents # << >>
  <2>1. currentDirCluster # ROOT_CLUSTER_NUMBER
    BY <1>3, StandingBelow
  <2>2. back[1] = parents[Len(parents)] /\ back[2] = Popped
    BY <1>3, <2>1 DEF Back, Top
  <2>3. /\ back[2] \in Seq(Cluster) /\ Len(back[2]) = Len(parents) - 1
        /\ Append(back[2], back[1]) = parents
    BY <1>1, <1>3, <2>2, Unpopped DEF Popped
  <2>4. Len(parents) \in Nat \ {0} /\ parents[Len(parents)] \in Cluster
    BY <1>1, <1>3
  <2>5. Len(back[2]) =< MaxDepth
    BY <1>1, <2>3, <2>4, ShellAssumption
  <2> QED BY <1>3, <2>2, <2>3, <2>4, <2>5, StandingBelow
<1> QED BY <1>2, <1>3

\* A folder that is entered is below the current one.
LEMMA GoingIn ==
  ASSUME IInv, ShellTypeOK, WayInv, PromptInv, step = "prompt",
         NEW name \in Name, ~ Dots(name), NEW c \in Entered(name)
  PROVE  /\ c \in Cluster
         /\ Way(Append(Path, c), table, Dirs, dir_buff)
<1>1. Running /\ currentDir = table[currentDirCluster] /\ PromptShowsPath
  BY DEF Running, ShellStep, PromptInv
<1>2. PICK i : /\ i \in Slot /\ currentDir[i].name = name /\ currentDir[i].isdir
               /\ c = currentDir[i].cluster
  BY LowestIn DEF Entered, Matches
<1> DEFINE p == <<currentDirCluster, i>>
<1>3. i \in Slot \ {0, 1}
  BY <1>2 DEF Dots
<1>4. currentDirCluster \in Cluster /\ Formatted
  BY <1>1, Standing DEF ShellTypeOK
<1>5. table[currentDirCluster][i].used
  <2>1. ~ NoEntry.isdir
    BY DEF NoEntry
  <2> QED BY <1>1, <1>2, <1>4, <2>1 DEF IInv, DiskInv, UnusedBlank
<1>6. p \in LiveDirs /\ At(p).cluster = c /\ p[1] = currentDirCluster
  BY <1>1, <1>2, <1>3, <1>4, <1>5 DEF LiveDirs, LiveEntries, Place, At
<1>7. c \in DataCluster /\ c \in Cluster /\ c # ROOT_CLUSTER_NUMBER
  BY <1>6, DataFacts DEF IInv, DiskInv, DiskChains, LiveDirs
<1>8. c \in Dirs
  BY <1>6, <1>7 DEF Dirs
<1>9. table[c][1].cluster = currentDirCluster
  BY <1>6 DEF IInv, DiskInv, DotEntriesSound
<1>10. Path \in Seq(Cluster) /\ Path # << >> /\ Path[Len(Path)] = currentDirCluster
       /\ Way(Path, table, Dirs, dir_buff)
  BY <1>1, Standing
<1>11. Len(dir_buff) = Len(Path) /\ Len(dir_buff) \in Nat
       /\ dir_buff[Len(Path)] = table[Path[Len(Path)]][0].name
  <2>1. DOMAIN Path = 1 .. Len(Path) /\ Len(Path) \in Nat \ {0}
    BY <1>10
  <2>2. dir_buff = [n \in 1 .. Len(Path) |-> table[Path[n]][0].name]
    BY <1>1, <2>1 DEF PromptShowsPath
  <2>3. Len(dir_buff) \in Nat /\ DOMAIN dir_buff = 1 .. Len(dir_buff)
    BY DEF ShellTypeOK
  <2>4. Len(dir_buff) = Len(Path)
    BY <2>1, <2>2, <2>3
  <2> QED BY <2>1, <2>2, <2>4
<1> QED BY <1>7, <1>8, <1>9, <1>10, <1>11, WayPush

----------------------------------------------------------------------------
(* The prompt. *)

\* The names it shows are those of the way it comes to.
LEMMA PromptNames ==
  ASSUME NEW up \in Seq(Cluster), NEW c \in Cluster, NEW t, NEW D,
         NEW names \in Seq(AnyName), Way(Append(up, c), t, D, names),
         t[c][0].name \in AnyName
  PROVE  LET s     == Append(up, c)
             shown == Append(SubSeq(names, 1, Len(up)), t[c][0].name)
         IN  /\ shown \in Seq(AnyName) /\ Way(s, t, D, shown)
             /\ Len(shown) = Len(s)
             /\ \A i \in 1 .. Len(s) : shown[i] = t[s[i]][0].name
<1> DEFINE s     == Append(up, c)
           n     == Len(up)
           kept  == SubSeq(names, 1, n)
           shown == Append(kept, t[c][0].name)
<1>0. Way(s, t, D, names)
  OBVIOUS
<1>1. /\ n \in Nat /\ s \in Seq(Cluster) /\ Len(s) = n + 1 /\ s[n + 1] = c
      /\ \A i \in 1 .. n : s[i] = up[i]
  OBVIOUS
<1>2. n =< Len(names) /\ Len(names) \in Nat
  BY <1>1 DEF Way
<1>3. /\ kept \in Seq(AnyName) /\ Len(kept) = n
      /\ \A i \in 1 .. n : kept[i] = names[i]
  <2>1. \A i \in 1 .. n : names[i] \in AnyName
    BY <1>2
  <2> HIDE DEF n
  <2> QED BY <1>1, <2>1, SubSeqProperties
<1> HIDE DEF kept, s
<1>4. /\ shown \in Seq(AnyName) /\ Len(shown) = n + 1
      /\ shown[n + 1] = t[c][0].name
      /\ \A i \in 1 .. n : shown[i] = names[i]
  BY <1>1, <1>3, AppendProperties
<1> HIDE DEF n, shown
<1>6. Way(s, t, D, shown)
  <2>1. Len(s) =< Len(shown) + 1 /\ \A i \in 1 .. Len(s) - 1 : shown[i] = names[i]
    BY <1>1, <1>4
  <2> QED BY <1>0, <1>1, <2>1, WayRenamed
<1>7. \A i \in 1 .. n + 1 : shown[i] = t[s[i]][0].name
  <2> SUFFICES ASSUME NEW i \in 1 .. n + 1 PROVE shown[i] = t[s[i]][0].name
    OBVIOUS
  <2>1. CASE i = n + 1
    BY <1>1, <1>4, <2>1
  <2>2. CASE i # n + 1
    <3>1. i \in 1 .. n /\ i \in 1 .. Len(s) - 1
      BY <1>1, <2>2
    <3> QED BY <1>0, <1>4, <3>1 DEF Way
  <2> QED BY <2>1, <2>2
<1> QED BY <1>1, <1>4, <1>6, <1>7 DEF s, shown, kept, n

LEMMA PromptStands ==
  ASSUME IInv, ShellTypeOK, NEW c \in Cluster, NEW up \in Seq(Cluster),
         Len(up) =< MaxDepth, Way(Append(up, c), table, Dirs, dir_buff),
         Mounted, pc = "idle", Prompt(c, up), UNCHANGED <<vars, loaded>>
  PROVE  /\ ShellTypeOK' /\ WayInv' /\ PromptInv' /\ ReadCallInv' /\ MoveInv'
         /\ step' = "prompt"
<1>1. UNCHANGED <<table, pc, loaded>> /\ Dirs' = Dirs /\ Mounted' = Mounted
  BY SameTree
<1>2. /\ step' = "prompt" /\ currentDirCluster' = c /\ parents' = up
      /\ currentDir' = table[c] /\ moving' = NoMove
      /\ dir_buff' = Append(SubSeq(dir_buff, 1, Len(up)), table[c][0].name)
  BY DEF Prompt
<1>3. table[c] \in Table /\ table[c][0].name \in AnyName
  BY SlotFacts DEF IInv, TypeOK, Table, Entry
<1>4. Path' = Append(up, c)
  BY <1>2 DEF Path
<1>5. /\ dir_buff' \in Seq(AnyName) /\ Way(Append(up, c), table, Dirs, dir_buff')
      /\ dir_buff' = [i \in DOMAIN Path' |-> table[Path'[i]][0].name]
  <2>1. dir_buff \in Seq(AnyName)
    BY DEF ShellTypeOK
  <2>3. /\ dir_buff' \in Seq(AnyName) /\ Way(Path', table, Dirs, dir_buff')
        /\ Len(dir_buff') = Len(Path')
        /\ \A i \in 1 .. Len(Path') : dir_buff'[i] = table[Path'[i]][0].name
    <3> DEFINE way   == Append(up, c)
               shown == Append(SubSeq(dir_buff, 1, Len(up)), table[c][0].name)
    <3>1. /\ shown \in Seq(AnyName) /\ Way(way, table, Dirs, shown)
          /\ Len(shown) = Len(way)
          /\ \A i \in 1 .. Len(way) : shown[i] = table[way[i]][0].name
      BY <1>3, <2>1, PromptNames
    <3>2. way = Path' /\ shown = dir_buff'
      BY <1>2, <1>4
    <3> HIDE DEF way, shown
    <3> QED BY <3>1, <3>2
  <2>4. Path' \in Seq(Cluster)
    BY <1>4
  <2>5. dir_buff' = [i \in DOMAIN Path' |-> table[Path'[i]][0].name]
    BY <2>3, <2>4
  <2> QED BY <1>4, <2>3, <2>5
<1>6. ShellTypeOK'
  <2>1. NoMove \in [file: AnyName, from: Cluster, to: Cluster]
    BY ClusterFacts DEF NoMove, AnyName
  <2> QED BY <1>1, <1>2, <1>3, <1>5, <2>1 DEF ShellTypeOK, Step, ShellStep
<1>7. WayInv'
  BY <1>1, <1>4, <1>5 DEF WayInv
<1>8. PromptInv'
  BY <1>1, <1>2, <1>5 DEF PromptInv, PromptShowsPath
<1>9. ReadCallInv' /\ MoveInv'
  BY <1>2 DEF ReadCallInv, MoveInv
<1> QED BY <1>2, <1>6, <1>7, <1>8, <1>9

----------------------------------------------------------------------------
(* The shell's own file. *)

LEMMA InstalledIsLive ==
  ASSUME IInv, Installed
  PROVE  /\ Formatted
         /\ \E p \in LiveEntries : /\ p[1] = ROOT_CLUSTER_NUMBER
                                   /\ At(p).name = ShellName /\ ~ At(p).isdir
<1>1. PICK i \in Slot : LET e == table[ROOT_CLUSTER_NUMBER][i]
                        IN  e.used /\ ~ e.isdir /\ e.name = ShellName
  BY DEF Installed
<1>2. Formatted
  <2>1. SUFFICES ASSUME ~ Formatted PROVE FALSE
    OBVIOUS
  <2>2. ~ table[ROOT_CLUSTER_NUMBER][i].used
    BY <2>1 DEF IInv, DiskInv, BlankDisk, NoEntry
  <2> QED BY <1>1, <2>2
<1>3. i \in Slot \ {0, 1}
  BY <1>1, <1>2 DEF IInv, DiskInv, RootTable
<1> DEFINE p == <<ROOT_CLUSTER_NUMBER, i>>
<1>4. p \in LiveEntries /\ At(p) = table[ROOT_CLUSTER_NUMBER][i]
  BY <1>1, <1>3, ClusterFacts DEF LiveEntries, Place, At
<1> QED BY <1>1, <1>2, <1>4

LEMMA ShellNameTaken ==
  ASSUME Installed
  PROVE  Matches(table[ROOT_CLUSTER_NUMBER], ShellName) # {}
BY DEF Installed, Matches

\* It goes only when it is removed by its name.
LEMMA InstalledStays ==
  ASSUME IInv, Next, Installed,
         pc = "idle" /\ pc' = "delete_walk" =>
           request'.parent # ROOT_CLUSTER_NUMBER \/ request'.name # ShellName
  PROVE  Installed'
<1>1. PICK p \in LiveEntries : /\ p[1] = ROOT_CLUSTER_NUMBER /\ Formatted
                               /\ At(p).name = ShellName /\ ~ At(p).isdir
  BY InstalledIsLive
<1>2. SUFFICES p \in LiveEntries' /\ At(p)' = At(p)
  <2>1. p[2] \in Slot /\ At(p)'.used
    BY <1>2 DEF LiveEntries, Place
  <2> QED BY <1>1, <1>2, <2>1 DEF Installed, At
<1>3. CASE TreeStays
  BY <1>3 DEF TreeStays
<1>4. ASSUME NEW q, NEW first, EntryAdded(q, first)
      PROVE  p \in LiveEntries' /\ At(p)' = At(p)
  BY <1>4 DEF EntryAdded
<1>5. ASSUME pc = "idle", pc' = "delete_walk", NEW q \in LiveEntries,
             EntryRemoved(q, request'.parent), At(q).name = request'.name
      PROVE  p \in LiveEntries' /\ At(p)' = At(p)
  <2>1. p # q
    BY <1>1, <1>5 DEF EntryRemoved
  <2> QED BY <1>5, <2>1 DEF EntryRemoved
<1> QED BY <1>1, <1>3, <1>4, <1>5, TreeChanges

\* Whoever writes a file of that name to the root writes the shell.
LEMMA ShellFileStays ==
  ASSUME IInv, FilesInv, ShellFileInv, Next,
         pc' \in WritePhase =>
           \/ pc \in WritePhase /\ request' = request
           \/ request'.parent # ROOT_CLUSTER_NUMBER \/ request'.name # ShellName
           \/ request'.size = ShellSize /\ request'.data = ShellData
  PROVE  ShellFileInv'
<1>1. BytesStay
  BY NextBytes
<1>2. ASSUME NEW p \in LiveEntries', p \in LiveEntries,
             At(p)' = At(p), ChainAt(p)' = ChainAt(p),
             p[1] = ROOT_CLUSTER_NUMBER, At(p)'.name = ShellName
      PROVE  ~ At(p)'.isdir /\ At(p)'.size = ShellSize /\ Filled(p, ShellData)'
  <2>1. ~ At(p).isdir /\ At(p).size = ShellSize /\ Filled(p, ShellData)
    BY <1>2 DEF ShellFileInv
  <2> QED BY <1>1, <1>2, <2>1, FilledStays
<1>3. ASSUME NEW p \in LiveEntries',
             p[1] = ROOT_CLUSTER_NUMBER, At(p)'.name = ShellName
      PROVE  ~ At(p)'.isdir /\ At(p)'.size = ShellSize /\ Filled(p, ShellData)'
  <2>1. CASE TreeStays
    BY <1>2, <1>3, <2>1 DEF TreeStays
  <2>2. ASSUME NEW q \in LiveEntries, EntryRemoved(q, request'.parent)
        PROVE  ~ At(p)'.isdir /\ At(p)'.size = ShellSize /\ Filled(p, ShellData)'
    BY <1>2, <1>3, <2>2 DEF EntryRemoved
  <2>3. ASSUME WriteParent, NEW q \in Place, NEW first \in Lowest(slot_buf),
               EntryAdded(q, first)
        PROVE  ~ At(p)'.isdir /\ At(p)'.size = ShellSize /\ Filled(p, ShellData)'
    <3>1. CASE p \in LiveEntries
      BY <1>2, <1>3, <2>3, <3>1 DEF EntryAdded
    <3>2. CASE p = q
      <4>1. At(p)' = NewEntry(first) /\ p[1] = request.parent
        BY <2>3, <3>2 DEF EntryAdded
      <4>2. pc = "write_parent" /\ request.name = ShellName
        BY <1>3, <2>3, <4>1 DEF NewEntry, WriteParent
      <4>3. request.size = ShellSize /\ request.data = ShellData
        BY <1>3, <4>1, <4>2 DEF ShellFileInv, WritePhase
      <4>4. ShellSize # 0
        BY KernelAssumption
      <4>5. PICK d \in Data : d = request.data /\ Filled(q, d)'
        BY <2>3, <4>3, <4>4, AddedIsFilled
      <4>6. Filled(p, ShellData)'
        BY <3>2, <4>3, <4>5
      <4>7. ~ At(p)'.isdir /\ At(p)'.size = ShellSize
        <5>1. NewEntry(first).size = request.size
              /\ (NewEntry(first).isdir <=> request.size = 0)
          BY DEF NewEntry
        <5> QED BY <4>1, <4>3, <4>4, <5>1
      <4> QED BY <4>6, <4>7
    <3> QED BY <1>3, <2>3, <3>1, <3>2 DEF EntryAdded
  <2> QED BY <1>3, <2>1, <2>2, <2>3, TreeChanges
<1>4. ASSUME pc' \in WritePhase, request'.parent = ROOT_CLUSTER_NUMBER,
             request'.name = ShellName
      PROVE  request'.size = ShellSize /\ request'.data = ShellData
  BY <1>4 DEF ShellFileInv
<1> QED BY <1>3, <1>4 DEF ShellFileInv

----------------------------------------------------------------------------
(* The requests. *)

TidyInv == IInv /\ FilesInv /\ ContentsInv /\ ShellInv

LEMMA ChainNotEmpty ==
  ASSUME DiskInv, NEW p \in LiveEntries
  PROVE  ChainAt(p) \subseteq Cluster /\ Cardinality(ChainAt(p)) \in Nat \ {0}
<1>1. ChainAt(p) \in SUBSET Cluster /\ ChainAt(p) # {}
  BY LiveCluster, ChainClosed, DataFacts DEF ChainAt
<1> HIDE DEF ChainAt
<1>2. IsFiniteSet(ChainAt(p)) /\ Cardinality(ChainAt(p)) \in Nat
  BY <1>1, ClusterSets
<1> QED BY <1>1, <1>2, FS_EmptySet

\* What cp and mv write is what a file was filled with, or junk.
LEMMA HeldIsData ==
  ASSUME TidyInv, step \in {"cp_write", "mv_write"}, pc = "idle"
  PROVE  Held \in Data
<1>1. CASE reply.code # 0
  BY <1>1, ShellAssumption DEF Held
<1>2. CASE reply.code = 0
  <2>1. reply.op = "read"
    BY DEF TidyInv, ShellInv, ReadCallInv
  <2>2. PICK p \in LiveEntries, d \in Data :
          /\ Len(out) = Cardinality(ChainAt(p))
          /\ \A i \in 1 .. Len(out) : out[i] = [data |-> d, part |-> i]
    BY <1>2, <2>1 DEF TidyInv, ContentsInv, ReadWhole
  <2>3. Len(out) \in Nat \ {0}
    BY <2>2, ChainNotEmpty DEF TidyInv, IInv
  <2>4. out[1] = [data |-> d, part |-> 1]
    BY <2>2, <2>3
  <2> QED BY <1>2, <2>4 DEF Held
<1> QED BY <1>1, <1>2

LEMMA SystemIsCareful ==
  ASSUME TidyInv, System
  PROVE  Next \/ Start \/ MvGiveUp \/ Return
<1>1. /\ IInv /\ ShellTypeOK /\ WayInv /\ MoveInv
      /\ ROOT_CLUSTER_NUMBER \in Dirs /\ 0 \in Sizes /\ Fits(0)
  BY ClusterFacts, SizeAssumption DEF TidyInv, ShellInv, Dirs, Fits
<1>2. CASE DriverStep
  BY <1>2, DriverStepFacts
<1>3. CASE InsertShell
  BY <1>1, <1>3, KernelAssumption, CallsAreCareful DEF InsertShell, Next
<1>4. CASE InsertExit
  BY <1>4 DEF InsertExit, Crash, FormatPhase, Next
<1>5. CASE LoadShell
  BY <1>1, <1>5, KernelAssumption, CallsAreCareful DEF LoadShell, Next
<1>6. CASE WriteGreeting
  BY <1>1, <1>6, KernelAssumption, CallsAreCareful DEF WriteGreeting, Next
<1>7. CASE InsertMissing
  <2>1. PICK name \in OtherFiles :
          CallWrite(ROOT_CLUSTER_NUMBER, name, 0, NoData)
    BY <1>7 DEF InsertMissing
  <2> QED BY <1>1, <2>1, KernelAssumption, CallsAreCareful DEF Next
<1>9. CASE CpWrite
  <2>1. /\ pc = "idle" /\ step = "cp_write" /\ Running
    BY <1>9 DEF CpWrite, Running, ShellStep
  <2>2. currentDirCluster \in Dirs /\ Held \in Data
    BY <1>1, <2>1, Standing, HeldIsData
  <2>3. PICK size \in Sizes :
          Fits(size) /\ CallWrite(currentDirCluster, CopyName, size, Held)
    BY <1>9 DEF CpWrite
  <2> QED BY <2>2, <2>3, ShellAssumption, CallsAreCareful DEF Next
<1>10. CASE MvWrite
  <2>1. /\ pc = "idle" /\ step = "mv_write" /\ Running
    BY <1>10 DEF MvWrite, Running, ShellStep
  <2>2. currentDirCluster \in Dirs /\ Held \in Data /\ moving.file \in Name
    BY <1>1, <2>1, Standing, HeldIsData, ShellAssumption DEF MoveInv
  <2>3. PICK size \in Sizes :
          Fits(size) /\ CallWrite(currentDirCluster, moving.file, size, Held)
    BY <1>10 DEF MvWrite
  <2> QED BY <2>2, <2>3, CallsAreCareful DEF Next
<1>11. CASE MvRemove
  <2>1. PICK back \in Back : CallDelete(back[1], moving.file)
    BY <1>11 DEF MvRemove, RmNoPrint
  <2>2. step = "mv_rm" /\ reply.code = 0 /\ pc = "idle" /\ Running
    BY <1>11 DEF MvRemove, Running, ShellStep
  <2>3. /\ moving.file \in Name /\ parents # << >>
        /\ moving.from = parents[Len(parents)]
        /\ moving.file # table[moving.from][0].name
    BY <1>1, <2>2, ShellAssumption DEF MoveInv, WritePhase
  <2>4. back[1] = moving.from /\ back[1] \in Dirs
    BY <1>1, <2>2, <2>3, GoingBack, StandingBelow
  <2>5. ~ OwnName(back[1], moving.file)
    BY <2>3, <2>4 DEF OwnName
  <2> QED BY <1>1, <2>1, <2>3, <2>4, <2>5, CallsAreCareful DEF Next
<1> QED BY <1>2, <1>3, <1>4, <1>5, <1>6, <1>7, <1>9, <1>10, <1>11
        DEF System

LEMMA TidyUserIsCareful ==
  ASSUME TidyInv, TidyUser
  PROVE  Next \/ CdUp \/ \E name \in Typed : ~ Dots(name) /\ Cd(name)
<1>1. IInv /\ ShellTypeOK /\ WayInv /\ PromptInv /\ 0 \in Sizes /\ Fits(0)
  BY SizeAssumption DEF TidyInv, ShellInv, Fits
<1>2. step = "prompt" => /\ currentDirCluster \in Dirs
                         /\ currentDir = table[currentDirCluster]
  BY <1>1, Standing DEF Running, ShellStep, PromptInv
<1>3. CASE PowerOn
  BY <1>3 DEF PowerOn, Mount, Next, Boot
<1>5. ASSUME NEW name \in Typed, Mkdir(name) \/ Cat(name) \/ Cp(name)
      PROVE  Next
  <2>1. currentDirCluster \in Dirs /\ name \in Name /\ BufferSize \in Sizes
    BY <1>2, <1>5, ShellAssumption DEF Mkdir, Cat, Cp
  <2>2. CASE Mkdir(name)
    BY <1>1, <2>1, <2>2, CallsAreCareful DEF Mkdir, Next
  <2>3. CASE Cat(name) \/ Cp(name)
    BY <2>1, <2>3, CallsAreCareful DEF Cat, Cp, Next
  <2> QED BY <1>5, <2>2, <2>3
<1>7. ASSUME NEW name \in Typed, ~ Dots(name), Rm(name) PROVE Next
  <2>1. /\ currentDirCluster \in Dirs /\ name \in Name
        /\ CallDelete(currentDirCluster, name)
    BY <1>2, <1>7, ShellAssumption DEF Rm
  <2>2. ~ OwnName(currentDirCluster, name)
    BY <1>2, <1>7 DEF Rm, Dots, OwnName
  <2> QED BY <1>1, <2>1, <2>2, CallsAreCareful DEF Next
<1>8. ASSUME NEW file \in Typed, NEW dest \in Typed, Mv(file, dest) PROVE Next
  <2>1. /\ currentDirCluster \in Dirs /\ file \in Name /\ BufferSize \in Sizes
        /\ CallRead(currentDirCluster, file, BufferSize)
    BY <1>2, <1>8, ShellAssumption DEF Mv
  <2> QED BY <2>1, CallsAreCareful DEF Next
<1> QED BY <1>3, <1>5, <1>7, <1>8 DEF TidyUser

LEMMA EnvironmentIsCareful ==
  ASSUME Environment
  PROVE  Next
BY DEF Environment, InsertBegin, Mount, SwitchOff, Fail, Next, Boot

\* A step of the machine is a step the driver was proved for, or none.
LEMMA TidyIsCareful ==
  ASSUME TidyInv, [TidyNext]_allvars
  PROVE  [Next]_vars
<1>1. CASE UNCHANGED allvars
  BY <1>1 DEF allvars
<1>2. Start \/ MvGiveUp \/ Return \/ CdUp => UNCHANGED vars
  BY DEF Start, Jump, MvGiveUp, Return, CdUp
<1>3. \A name : Cd(name) => UNCHANGED vars
  BY DEF Cd
<1> QED BY <1>1, <1>2, <1>3, SystemIsCareful, TidyUserIsCareful,
           EnvironmentIsCareful
        DEF TidyNext

LEMMA DriverInvariants ==
  ASSUME TidyInv, [TidyNext]_allvars
  PROVE  IInv' /\ FilesInv' /\ ContentsInv'
BY TidyIsCareful, SafetyStep, FilesStep, ContentsStep DEF TidyInv

----------------------------------------------------------------------------
(* The start of the kernel. *)

\* The kernel finds the shell, and its buffer is large enough.
LEMMA ShellIsRead ==
  ASSUME IInv, FilesInv, ShellFileInv, Installed,
         CallRead(ROOT_CLUSTER_NUMBER, ShellName, KernelBuffer)
  PROVE  ReadBegin(ROOT_CLUSTER_NUMBER, ShellName, KernelBuffer)
<1> DEFINE t == table[ROOT_CLUSTER_NUMBER]
<1>1. PICK p \in LiveEntries : /\ p[1] = ROOT_CLUSTER_NUMBER /\ Formatted
                               /\ At(p).name = ShellName /\ ~ At(p).isdir
  BY InstalledIsLive
<1>2. /\ At(p).size = ShellSize /\ p[2] \in Slot \ {0, 1}
      /\ At(p) = t[p[2]] /\ t[p[2]].used
  BY <1>1, PlaceFacts DEF ShellFileInv, At
<1>3. /\ ROOT_CLUSTER_NUMBER \in Dirs /\ ROOT_CLUSTER_NUMBER \in Cluster
      /\ ShellName \in Name
  BY ClusterFacts, KernelAssumption DEF Dirs
<1>4. ASSUME NEW i \in Lowest(Matches(t, ShellName)) PROVE i = p[2]
  <2>1. i \in Slot /\ t[i].name = ShellName /\ t[i].used
    BY <1>1, <1>3, MatchedUsed
  <2>2. p[2] \in Matches(t, ShellName)
    BY <1>1, <1>2 DEF Matches
  <2>3. i =< p[2]
    BY <2>2 DEF Lowest
  <2>4. i \in Nat /\ p[2] \in Nat
    BY <1>2, <2>1, SlotFacts
  <2>5. ~ (i < p[2])
    <3>1. 2 =< p[2]
      BY <1>2, <2>4
    <3> QED BY <1>1, <1>2, <1>3, <2>1, <3>1 DEF FilesInv, NamesApart
  <2> QED BY <2>3, <2>4, <2>5
<1>5. fat[ROOT_CLUSTER_NUMBER] = FAT32_FAT_END_OF_FILE
  <2>1. pc = "idle"
    BY ReadCalled
  <2> QED BY <1>1, <2>1 DEF IInv, MemoryInv, CoherentPhase, DiskInv, Reserved
<1>6. ~ (KernelBuffer \div CLUSTER_SIZE < CeilClusters(ShellSize))
  <2>1. CeilClusters(ShellSize) \in Nat
    BY KernelAssumption, CeilFits
  <2>2. KernelBuffer \in Nat
    BY KernelAssumption, SizeAssumption
  <2>3. KernelBuffer \div CLUSTER_SIZE \in Int
    BY <2>2, SizeAssumption
  <2> QED BY <2>1, <2>3, RoomAssumption
<1>7. \A code : ~ ReadError(ROOT_CLUSTER_NUMBER, ShellName, KernelBuffer, code)
  BY <1>1, <1>2, <1>4, <1>5, <1>6, ShellNameTaken DEF ReadError
<1> QED BY <1>7 DEF CallRead, ReadReject

\* What it has read is the program.
LEMMA ProgramIsRead ==
  ASSUME TidyInv, step = "greet", pc = "idle"
  PROVE  reply.code = 0 /\ out = Program
<1>1. /\ reply.op = "read" /\ reply.code = 0
      /\ reply.parent = ROOT_CLUSTER_NUMBER /\ reply.name = ShellName
  BY DEF TidyInv, ShellInv, StartInv
<1>2. PICK p \in LiveEntries, d \in Data :
        /\ p[1] = ROOT_CLUSTER_NUMBER /\ At(p).name = ShellName /\ Filled(p, d)
        /\ ~ At(p).isdir /\ Len(out) = Cardinality(ChainAt(p))
        /\ \A i \in 1 .. Len(out) : out[i] = [data |-> d, part |-> i]
  BY <1>1 DEF TidyInv, ContentsInv, ReadWhole
<1>3. At(p).size = ShellSize /\ Filled(p, ShellData)
  BY <1>2 DEF TidyInv, ShellInv, ShellFileInv
<1>4. d = ShellData
  <2>1. At(p).cluster \in ChainAt(p)
    BY LiveCluster DEF TidyInv, IInv
  <2>2. PICK c \in ChainAt(p) : TRUE
    BY <2>1
  <2>3. /\ bytes[c] = [data |-> d, part |-> Rank(ChainAt(p), c)]
        /\ bytes[c] = [data |-> ShellData, part |-> Rank(ChainAt(p), c)]
    BY <1>2, <1>3 DEF Filled
  <2> QED BY <2>3
<1>5. Len(out) = CeilClusters(ShellSize)
  <2>1. Cardinality(ChainAt(p)) = (ShellSize + CLUSTER_SIZE - 1) \div CLUSTER_SIZE
    BY <1>2, <1>3 DEF TidyInv, FilesInv, SizeMatchesChain
  <2> QED BY <1>2, <2>1, KernelAssumption, CeilFits
<1>6. out = [i \in 1 .. Len(out) |-> [data |-> ShellData, part |-> i]]
  <2>1. out \in Seq(Chunk)
    BY DEF TidyInv, IInv, TypeOK
  <2> QED BY <1>2, <1>4, <2>1
<1> QED BY <1>1, <1>5, <1>6 DEF Program

\* Outside of the shell its variables do not matter.
LEMMA OutsideShell ==
  ASSUME step' \notin ShellStep
  PROVE  WayInv' /\ PromptInv' /\ ReadCallInv' /\ MoveInv'
BY DEF WayInv, Running, PromptInv, ReadCallInv, MoveInv, ShellStep

LEMMA InserterShell ==
  ASSUME TidyInv, IInv', Next, UNCHANGED shell,
         \/ InsertBegin \/ InsertShell \/ InsertExit
         \/ Installed /\ InsertMissing
  PROVE  ShellInv'
<1>1. step' \in {"off", "insert", "insert_exit"} /\ UNCHANGED loaded
  BY DEF InsertBegin, InsertShell, InsertExit, InsertMissing
<1>2. WayInv' /\ PromptInv' /\ ReadCallInv' /\ MoveInv'
  BY <1>1, OutsideShell DEF ShellStep
<1>3. ShellTypeOK'
  BY <1>1 DEF TidyInv, ShellInv, ShellTypeOK, shell, Step, Inserting
<1>4. StartInv'
  BY <1>1 DEF StartInv, Inserting, KernelRunsShell
<1>5. ShellFileInv'
  <2>1. pc' \in WritePhase =>
          \/ request'.parent # ROOT_CLUSTER_NUMBER \/ request'.name # ShellName
          \/ request'.size = ShellSize /\ request'.data = ShellData
    <3>1. CASE InsertBegin \/ InsertExit
      BY <3>1 DEF InsertBegin, Mount, BootFormat, BootLoad, InsertExit, PowerLoss,
                  Forget, WritePhase
    <3>2. CASE InsertShell
      <4>1. CallWrite(ROOT_CLUSTER_NUMBER, ShellName, ShellSize, ShellData)
        BY <3>2 DEF InsertShell
      <4>2. pc' \in WritePhase =>
              request'.size = ShellSize /\ request'.data = ShellData
        BY <4>1, WriteCalled, KernelAssumption DEF WritePhase
      <4> QED BY <4>2
    <3>3. CASE Installed /\ InsertMissing
      <4>1. PICK name \in OtherFiles :
              CallWrite(ROOT_CLUSTER_NUMBER, name, 0, NoData)
        BY <3>3 DEF InsertMissing
      <4>2. pc' \in WritePhase =>
              /\ Matches(table[ROOT_CLUSTER_NUMBER], name) = {}
              /\ request'.name = name
        BY <4>1, WriteCalled DEF WritePhase
      <4> QED BY <3>3, <4>2, ShellNameTaken
    <3> QED BY <3>1, <3>2, <3>3
  <2> QED BY <2>1, ShellFileStays DEF TidyInv, ShellInv
<1> QED BY <1>2, <1>3, <1>4, <1>5 DEF ShellInv

LEMMA SwitchOffShell ==
  ASSUME TidyInv, Next, SwitchOff
  PROVE  ShellInv'
<1>1. step' = "off" /\ loaded' = << >> /\ pc' = "off"
  BY DEF SwitchOff, Fail, Crash, PowerLoss, TornFat, Forget
<1>2. WayInv' /\ PromptInv' /\ ReadCallInv' /\ MoveInv'
  BY <1>1, OutsideShell DEF ShellStep
<1>3. ShellTypeOK'
  <2>1. NoMove \in [file: AnyName, from: Cluster, to: Cluster]
    BY ClusterFacts DEF NoMove, AnyName
  <2>2. << >> \in Seq(Chunk) /\ << >> \in Seq(Cluster) /\ << >> \in Seq(AnyName)
        /\ Len(<< >>) =< MaxDepth
    BY ShellAssumption
  <2> QED BY <1>1, <2>1, <2>2, EmptyTypes, ClusterFacts
          DEF SwitchOff, ShellTypeOK, Step
<1>4. StartInv'
  BY <1>1 DEF StartInv, Inserting, KernelRunsShell
<1>5. ShellFileInv'
  BY <1>1, ShellFileStays DEF TidyInv, ShellInv, WritePhase
<1> QED BY <1>2, <1>3, <1>4, <1>5 DEF ShellInv

\* Once the machine runs on an installed shell, it stays installed.
LEMMA StartsInstalled ==
  ASSUME TidyInv, Next, Installed,
         step' \in {"load", "greet", "jump"} \cup ShellStep,
         step' = "load" => pc' = "idle",
         step' = "greet" =>
           \/ /\ pc' = "read_walk"
              /\ request'.parent = ROOT_CLUSTER_NUMBER
              /\ request'.name = ShellName
           \/ /\ pc' = "idle" /\ reply'.op = "read" /\ reply'.code = 0
              /\ reply'.parent = ROOT_CLUSTER_NUMBER /\ reply'.name = ShellName,
         step' = "jump" => loaded' = Program,
         pc = "idle" /\ pc' = "delete_walk" =>
           request'.parent # ROOT_CLUSTER_NUMBER \/ request'.name # ShellName
  PROVE  StartInv'
<1>1. Installed'
  BY InstalledStays DEF TidyInv
<1>2. step' # "garbage"
  BY DEF ShellStep
<1> QED BY <1>1, <1>2 DEF StartInv, KernelRunsShell

LEMMA KernelShell ==
  ASSUME TidyInv, Next, UNCHANGED shell,
         (Installed /\ PowerOn) \/ LoadShell \/ WriteGreeting
  PROVE  ShellInv'
<1>1. /\ IInv /\ FilesInv /\ ShellFileInv /\ Formatted /\ Installed
      /\ StartInv
  <2>1. step \in {"load", "greet"} => Installed
    BY DEF TidyInv, ShellInv, StartInv, Inserting
  <2>2. Installed
    BY <2>1 DEF LoadShell, WriteGreeting
  <2> QED BY <2>2, InstalledIsLive DEF TidyInv, ShellInv
<1>2. CASE PowerOn
  <2>1. /\ step' = "load" /\ UNCHANGED loaded /\ pc = "off" /\ pc' = "idle"
    BY <1>1, <1>2 DEF PowerOn, Mount, BootFormat, BootLoad, Formatted
  <2>2. WayInv' /\ PromptInv' /\ ReadCallInv' /\ MoveInv'
    BY <2>1, OutsideShell DEF ShellStep
  <2>3. ShellTypeOK'
    BY <2>1 DEF TidyInv, ShellInv, ShellTypeOK, shell, Step
  <2>4. ShellFileInv'
    BY <1>1, <2>1, ShellFileStays DEF WritePhase
  <2>5. StartInv'
    BY <1>1, <2>1, StartsInstalled
  <2> QED BY <2>2, <2>3, <2>4, <2>5 DEF ShellInv
<1>3. CASE LoadShell
  <2>1. /\ step' = "greet" /\ UNCHANGED loaded
        /\ ReadBegin(ROOT_CLUSTER_NUMBER, ShellName, KernelBuffer)
    BY <1>1, <1>3, ShellIsRead DEF LoadShell
  <2>2. /\ pc' = "read_walk" /\ request'.parent = ROOT_CLUSTER_NUMBER
        /\ request'.name = ShellName
    BY <2>1 DEF ReadBegin, Lookup
  <2>3. WayInv' /\ PromptInv' /\ ReadCallInv' /\ MoveInv'
    BY <2>1, OutsideShell DEF ShellStep
  <2>4. ShellTypeOK'
    BY <2>1 DEF TidyInv, ShellInv, ShellTypeOK, shell, Step
  <2>5. ShellFileInv'
    BY <1>1, <2>2, ShellFileStays DEF WritePhase
  <2>6. StartInv'
    BY <1>1, <2>1, <2>2, StartsInstalled
  <2> QED BY <2>3, <2>4, <2>5, <2>6 DEF ShellInv
<1>4. CASE WriteGreeting
  <2>1. /\ step' = "jump" /\ step = "greet" /\ pc = "idle"
        /\ loaded' = IF reply.code = 0 THEN out ELSE << >>
        /\ CallWrite(ROOT_CLUSTER_NUMBER, Greeting, GreetingSize, GreetingData)
    BY <1>4 DEF WriteGreeting
  <2>2. loaded' = Program /\ loaded' \in Seq(Chunk)
    BY <2>1, ProgramIsRead DEF TidyInv, IInv, TypeOK
  <2>3. \/ pc' = "idle"
        \/ /\ pc' \in WritePhase /\ request'.name = Greeting
           /\ Matches(table[ROOT_CLUSTER_NUMBER], Greeting) = {}
    BY <2>1, WriteCalled
  <2>4. WayInv' /\ PromptInv' /\ ReadCallInv' /\ MoveInv'
    BY <2>1, OutsideShell DEF ShellStep
  <2>5. ShellTypeOK'
    BY <2>1, <2>2 DEF TidyInv, ShellInv, ShellTypeOK, shell, Step
  <2>6. ShellFileInv'
    <3>1. pc' \in WritePhase => request'.name # ShellName
      BY <1>1, <2>3, ShellNameTaken DEF WritePhase
    <3> QED BY <1>1, <3>1, ShellFileStays
  <2>7. StartInv'
    BY <1>1, <2>1, <2>2, <2>3, StartsInstalled DEF WritePhase
  <2> QED BY <2>4, <2>5, <2>6, <2>7 DEF ShellInv
<1> QED BY <1>2, <1>3, <1>4

----------------------------------------------------------------------------
(* The steps of the shell. *)

LEMMA ShellFileSame ==
  ASSUME ShellFileInv, UNCHANGED vars
  PROVE  ShellFileInv'
<1>1. UNCHANGED <<table, fat_disk, bytes, pc, request>> /\ LiveEntries' = LiveEntries
  BY SameTree
<1>2. \A p : At(p)' = At(p)
  BY <1>1 DEF At
<1>3. \A p : ChainAt(p)' = ChainAt(p)
  BY <1>1, PrimedChain DEF ChainAt, At
<1>4. \A p, c : Rank(ChainAt(p), c)' = Rank(ChainAt(p), c)
  BY <1>3 DEF Rank
<1>5. \A p, d : Filled(p, d)' = Filled(p, d)
  BY <1>1, <1>3, <1>4 DEF Filled
<1> QED BY <1>1, <1>2, <1>5 DEF ShellFileInv

LEMMA StepToPrompt ==
  ASSUME TidyInv, Installed, Mounted, pc = "idle",
         NEW c \in Cluster, NEW up \in Seq(Cluster), Len(up) =< MaxDepth,
         Way(Append(up, c), table, Dirs, dir_buff),
         Prompt(c, up), UNCHANGED <<vars, loaded>>
  PROVE  ShellInv'
<1>1. /\ ShellTypeOK' /\ WayInv' /\ PromptInv' /\ ReadCallInv' /\ MoveInv'
      /\ step' = "prompt"
  BY PromptStands DEF TidyInv, ShellInv
<1>2. ShellFileInv'
  BY ShellFileSame DEF TidyInv, ShellInv
<1>3. StartInv'
  <2>1. Installed'
    BY SameTree
  <2> QED BY <1>1, <2>1 DEF StartInv, KernelRunsShell
<1> QED BY <1>1, <1>2, <1>3 DEF ShellInv

LEMMA StartShell == ASSUME TidyInv, Start PROVE ShellInv'
<1>1. /\ step = "jump" /\ pc = "idle" /\ UNCHANGED <<vars, loaded>>
      /\ step' = IF loaded = Program THEN "prompt" ELSE "garbage"
  BY DEF Start, Jump
<1>2. loaded = Program /\ Installed
  BY <1>1 DEF TidyInv, ShellInv, StartInv, Inserting
<1>3. Prompt(ROOT_CLUSTER_NUMBER, << >>)
  BY <1>1, <1>2 DEF Start
<1>4. /\ << >> \in Seq(Cluster) /\ Len(<< >>) =< MaxDepth /\ Mounted
      /\ ROOT_CLUSTER_NUMBER \in Cluster /\ ROOT_CLUSTER_NUMBER \in Dirs
  BY <1>1, ClusterFacts, ShellAssumption DEF Mounted, FormatPhase, Dirs
<1>5. Way(Append(<< >>, ROOT_CLUSTER_NUMBER), table, Dirs, dir_buff)
  <2> DEFINE s == Append(<< >>, ROOT_CLUSTER_NUMBER)
  <2>1. Len(s) = 1 /\ s[1] = ROOT_CLUSTER_NUMBER
    OBVIOUS
  <2>2. Len(dir_buff) \in Nat
    BY DEF TidyInv, ShellInv, ShellTypeOK
  <2> HIDE DEF s
  <2>3. Way(s, table, Dirs, dir_buff)
    BY <1>4, <2>1, <2>2 DEF Way
  <2> QED BY <2>3 DEF s
<1> QED BY <1>1, <1>2, <1>3, <1>4, <1>5, StepToPrompt

LEMMA RunningFacts ==
  ASSUME TidyInv, Running
  PROVE  /\ Installed /\ Mounted /\ Formatted /\ currentDirCluster \in Dirs
         /\ Path \in Seq(Cluster) /\ Path # << >>
         /\ Len(Path) = Len(parents) + 1 /\ Path[Len(Path)] = currentDirCluster
         /\ Way(Path, table, Dirs, dir_buff)
<1>1. Installed
  BY DEF TidyInv, ShellInv, StartInv, Running, ShellStep, Inserting
<1> QED BY <1>1, Standing DEF TidyInv, ShellInv

\* The folder above the current one keeps its name.
LEMMA AboveKeepsName ==
  ASSUME TidyInv, IInv', Next, Running, Mounted', parents # << >>,
         pc = "idle" /\ pc' = "delete_walk" => request'.parent = currentDirCluster
  PROVE  LET d == parents[Len(parents)]
         IN  table'[d][0].name = table[d][0].name
<1>1. parents \in Seq(Cluster) /\ currentDirCluster \in Cluster
  BY DEF TidyInv, ShellInv, ShellTypeOK
<1>2. Len(parents) \in Nat \ {0} /\ Path[Len(parents)] = parents[Len(parents)]
  BY <1>1 DEF Path
<1>3. Len(parents) \in 1 .. Len(Path)
  BY <1>2, RunningFacts
<1> QED BY <1>2, <1>3, RunningFacts, FoldersKept DEF TidyInv

\* While the shell waits for a call, or has made one, it does not move.
LEMMA WaitingShell ==
  ASSUME TidyInv, IInv', Next, Running, Mounted', UNCHANGED <<loaded, shell>>,
         step' \in ShellStep \ {"prompt"}, ReadCallInv', MoveInv',
         pc = "idle" /\ pc' = "delete_walk" =>
           request'.parent = currentDirCluster /\ request'.name # ShellName,
         pc' \in WritePhase =>
           \/ pc \in WritePhase /\ request' = request
           \/ request'.parent # ROOT_CLUSTER_NUMBER \/ request'.name # ShellName
  PROVE  ShellInv'
<1>1. Path' = Path /\ UNCHANGED <<currentDirCluster, parents, dir_buff>>
  BY DEF shell, Path
<1>2. Way(Path, table', Dirs', dir_buff)
  BY RunningFacts, WayKept DEF TidyInv
<1>3. WayInv'
  BY <1>1, <1>2 DEF WayInv
<1>4. PromptInv'
  BY DEF PromptInv
<1>5. ShellTypeOK'
  BY DEF TidyInv, ShellInv, ShellTypeOK, shell, Step
<1>6. ShellFileInv'
  BY ShellFileStays DEF TidyInv, ShellInv
<1>7. StartInv'
  BY RunningFacts, StartsInstalled DEF ShellStep
<1> QED BY <1>3, <1>4, <1>5, <1>6, <1>7 DEF ShellInv

\* The driver links the file that mv writes.
LEMMA MovedFileIsLinked ==
  ASSUME TidyInv, WriteParent, request.parent = moving.to,
         request.name = moving.file, UNCHANGED moving
  PROVE  Has(moving.to, moving.file)'
<1>1. PICK q \in Place, first \in Lowest(slot_buf) : EntryAdded(q, first)
  BY WriteParentSafe DEF TidyInv
<1>2. /\ q \in LiveEntries' /\ q[1] = moving.to /\ q[2] \in Slot
      /\ At(q)' = NewEntry(first)
  BY <1>1 DEF EntryAdded, Place
<1>3. At(q)'.name = moving.file /\ At(q)'.used
  BY <1>2 DEF NewEntry
<1> QED BY <1>2, <1>3 DEF Has, At

LEMMA DriverStepMove ==
  ASSUME TidyInv, IInv', DriverStep, Running, Mounted', UNCHANGED <<step, shell>>
  PROVE  ReadCallInv' /\ MoveInv'
<1>1. Next /\ pc # "idle" /\ pc' # "wild" /\ MoveInv
  BY DriverStepFacts DEF IInv, MemoryInv, TidyInv, ShellInv
<1>2. ReadCallInv'
  <2>1. SUFFICES ASSUME step \in {"cp_write", "mv_write"}
                 PROVE  pc' = "read_walk" \/ (pc' = "idle" /\ reply'.op = "read")
    BY DEF ReadCallInv
  <2>2. pc = "read_walk"
    BY <1>1, <2>1 DEF TidyInv, ShellInv, ReadCallInv
  <2> QED BY <1>1, <2>2, DriverStepFacts
<1>3. UNCHANGED <<moving, parents, currentDirCluster, step>>
  BY DEF shell
<1>4. ASSUME step = "mv_rm"
      PROVE  \/ pc' = "idle" /\ reply'.code # 0
             \/ /\ moving.file # table'[moving.from][0].name
                /\ \/ /\ pc' \in WritePhase
                      /\ request'.parent = moving.to
                      /\ request'.name = moving.file
                   \/ pc' = "idle" /\ Has(moving.to, moving.file)'
  <2>1. /\ moving.file # table[moving.from][0].name
        /\ pc \in WritePhase
        /\ request.parent = moving.to /\ request.name = moving.file
        /\ parents # << >> /\ moving.from = parents[Len(parents)]
    BY <1>1, <1>4 DEF MoveInv
  <2>2. moving.file # table'[moving.from][0].name
    BY <1>1, <2>1, AboveKeepsName
  <2>3. \/ pc' \in WritePhase /\ request' = request
        \/ WriteParent /\ pc' = "idle"
    BY <2>1, DriverStepFacts
  <2> QED BY <1>3, <2>1, <2>2, <2>3, MovedFileIsLinked
<1>5. MoveInv'
  BY <1>1, <1>3, <1>4 DEF MoveInv
<1> QED BY <1>2, <1>5

LEMMA DriverStepShell ==
  ASSUME TidyInv, IInv', DriverStep, UNCHANGED shell
  PROVE  ShellInv'
<1>1. /\ Next /\ UNCHANGED <<step, loaded>> /\ pc # "idle"
      /\ pc' \in WritePhase => pc \in WritePhase /\ request' = request
  <2>1. pc \in WritePhase /\ pc' \in WritePhase => request' = request
    BY DriverStepFacts DEF WritePhase
  <2> QED BY <2>1, DriverStepFacts DEF DriverStep, kernel
<1>2. CASE Running
  <2>1. Mounted'
    BY <1>2, RunningFacts, DriverStepFacts DEF Mounted
  <2>2. step # "prompt"
    BY <1>1 DEF TidyInv, ShellInv, PromptInv
  <2>3. step' \in ShellStep \ {"prompt"}
    BY <1>1, <1>2, <2>2 DEF Running
  <2>4. ReadCallInv' /\ MoveInv'
    BY <1>1, <1>2, <2>1, DriverStepMove
  <2> QED BY <1>1, <1>2, <2>1, <2>3, <2>4, WaitingShell
<1>3. CASE ~ Running
  <2>1. step' \notin ShellStep
    BY <1>1, <1>3 DEF Running
  <2>2. WayInv' /\ PromptInv' /\ ReadCallInv' /\ MoveInv'
    BY <2>1, OutsideShell
  <2>3. ShellTypeOK'
    BY <1>1 DEF TidyInv, ShellInv, ShellTypeOK, shell
  <2>4. ShellFileInv'
    BY <1>1, ShellFileStays DEF TidyInv, ShellInv
  <2>5. StartInv'
    <3>1. CASE step \in {"off"} \cup Inserting
      BY <1>1, <3>1 DEF StartInv, Inserting, KernelRunsShell
    <3>2. CASE step \notin {"off"} \cup Inserting
      <4>1. Installed /\ step \in Step /\ step # "garbage" /\ step # "load"
        BY <1>1, <3>2
        DEF TidyInv, ShellInv, StartInv, KernelRunsShell, ShellTypeOK
      <4>2. step \in {"greet", "jump"}
        BY <1>3, <3>2, <4>1 DEF Step, Running
      <4>3. step = "jump" => loaded = Program
        BY DEF TidyInv, ShellInv, StartInv
      <4>4. step = "greet" => /\ pc = "read_walk"
                              /\ request.parent = ROOT_CLUSTER_NUMBER
                              /\ request.name = ShellName
        BY <1>1 DEF TidyInv, ShellInv, StartInv
      <4>5. pc' # "wild"
        BY DEF IInv, MemoryInv
      <4> QED BY <1>1, <4>1, <4>2, <4>3, <4>4, <4>5, DriverStepFacts,
                 StartsInstalled
    <3> QED BY <3>1, <3>2
  <2> QED BY <2>2, <2>3, <2>4, <2>5 DEF ShellInv
<1> QED BY <1>2, <1>3

\* Calls from where the shell stands.
LEMMA CallShell ==
  ASSUME TidyInv, IInv', Next, NEW name, NEW size, UNCHANGED <<loaded, shell>>,
         \/ /\ step = "prompt" /\ step' = "return"
            /\ CallWrite(currentDirCluster, name, 0, NoData)
         \/ /\ step = "prompt" /\ step' = "return"
            /\ name # ShellName /\ CallDelete(currentDirCluster, name)
         \/ /\ step = "prompt" /\ step' \in {"return", "cp_write"}
            /\ CallRead(currentDirCluster, name, BufferSize)
         \/ /\ step = "cp_write" /\ step' = "return"
            /\ CallWrite(currentDirCluster, name, size, Held)
  PROVE  ShellInv'
<1>1. Running /\ step' \in ShellStep \ {"prompt"} /\ MoveInv'
  BY DEF Running, ShellStep, MoveInv
<1>2. /\ Mounted' /\ ReadCallInv'
      /\ pc' = "delete_walk" =>
           request'.parent = currentDirCluster /\ request'.name # ShellName
      /\ pc' \in WritePhase =>
           /\ request'.parent = currentDirCluster /\ request'.name = name
           /\ Matches(table[currentDirCluster], name) = {}
  <2> USE DEF Mounted, FormatPhase, ReadCallInv, WritePhase
  <2>1. CASE step' = "return" /\ \E n, data :
               CallWrite(currentDirCluster, name, n, data)
    BY <2>1, WriteCalled
  <2>2. CASE step' = "return" /\ name # ShellName
             /\ CallDelete(currentDirCluster, name)
    BY <2>2, DeleteCalled
  <2>3. CASE CallRead(currentDirCluster, name, BufferSize)
    BY <2>3, ReadCalled
  <2> QED BY <2>1, <2>2, <2>3
<1>3. pc' \in WritePhase =>
        request'.parent # ROOT_CLUSTER_NUMBER \/ request'.name # ShellName
  BY <1>1, <1>2, RunningFacts, ShellNameTaken
<1> QED BY <1>1, <1>2, <1>3, WaitingShell

LEMMA MvWriteShell == ASSUME TidyInv, IInv', Next, MvWrite PROVE ShellInv'
<1>1. /\ step = "mv_write" /\ step' = "mv_rm" /\ UNCHANGED <<loaded, shell>>
      /\ Running /\ step' \in ShellStep \ {"prompt"} /\ ReadCallInv'
  BY DEF MvWrite, Running, ShellStep, ReadCallInv
<1>2. /\ moving.file \in Typed \ {ShellName}
      /\ parents # << >> /\ moving.from = parents[Len(parents)]
      /\ moving.to = currentDirCluster
  BY <1>1 DEF TidyInv, ShellInv, MoveInv
<1>3. PICK size \in Sizes :
        CallWrite(currentDirCluster, moving.file, size, Held)
  BY DEF MvWrite
<1>4. \/ pc' = "idle" /\ reply'.code # 0
      \/ /\ pc' \in WritePhase
         /\ Matches(table[currentDirCluster], moving.file) = {}
         /\ request'.parent = currentDirCluster /\ request'.name = moving.file
  BY <1>3, WriteCalled
<1>5. Mounted'
  BY <1>4 DEF Mounted, FormatPhase, WritePhase
<1>6. ASSUME pc' \in WritePhase
      PROVE  moving.file # table'[moving.from][0].name
  <2>1. Matches(table[currentDirCluster], moving.file) = {}
    BY <1>4, <1>6 DEF WritePhase
  <2>2. /\ currentDirCluster \in Dirs /\ currentDirCluster # ROOT_CLUSTER_NUMBER
        /\ table[currentDirCluster][1].cluster = moving.from
    BY <1>1, <1>2, RunningFacts, StandingBelow DEF TidyInv, ShellInv
  <2>3. PICK r \in LiveDirs : At(r).cluster = currentDirCluster
    BY <2>2 DEF Dirs
  <2>4. table[currentDirCluster][1].name = table[moving.from][0].name
    BY <2>2, <2>3 DEF TidyInv, IInv, DiskInv, DotEntriesSound
  <2>5. moving.file # table[moving.from][0].name
    BY <2>1, <2>4, SlotFacts DEF Matches
  <2>6. table'[moving.from][0].name = table[moving.from][0].name
    BY <1>1, <1>2, <1>5, <1>6, AboveKeepsName DEF WritePhase
  <2> QED BY <2>5, <2>6
<1>7. MoveInv'
  <2>1. UNCHANGED <<moving, parents, currentDirCluster>>
    BY <1>1 DEF shell
  <2>2. \/ pc' = "idle" /\ reply'.code # 0
        \/ /\ moving.file # table'[moving.from][0].name
           /\ pc' \in WritePhase
           /\ request'.parent = moving.to /\ request'.name = moving.file
    BY <1>2, <1>4, <1>6
  <2> QED BY <1>1, <1>2, <2>1, <2>2 DEF MoveInv
<1>8. /\ pc' # "delete_walk"
      /\ pc' \in WritePhase => request'.name # ShellName
  BY <1>2, <1>4 DEF WritePhase
<1> QED BY <1>1, <1>5, <1>7, <1>8, WaitingShell

\* Entering a folder, leaving it, and staying.
LEMMA WalkShell ==
  ASSUME TidyInv, NEW name \in Name,
         (~ Dots(name) /\ Cd(name)) \/ CdUp \/ MvGiveUp \/ Return
  PROVE  ShellInv'
<1>1. /\ Running /\ pc = "idle" /\ UNCHANGED <<vars, loaded>>
      /\ IInv /\ ShellTypeOK /\ WayInv /\ PromptInv
  <2>1. step = "prompt" => pc = "idle"
    BY DEF TidyInv, ShellInv, PromptInv
  <2> QED BY <2>1 DEF Cd, CdUp, MvGiveUp, Return, Running, ShellStep, TidyInv,
                      ShellInv
<1>2. /\ Installed /\ Mounted /\ Path \in Seq(Cluster)
      /\ currentDirCluster \in Cluster /\ parents \in Seq(Cluster)
      /\ Len(parents) =< MaxDepth
  BY <1>1, RunningFacts DEF ShellTypeOK
<1>3. CASE ~ Dots(name) /\ Cd(name)
  <2>1. PICK c \in Entered(name) : Prompt(c, Pushed)
    BY <1>3 DEF Cd
  <2>2. c \in Cluster /\ Way(Append(Pushed, c), table, Dirs, dir_buff)
    BY <1>1, <1>3, GoingIn DEF Cd, Path, Pushed
  <2>3. Pushed \in Seq(Cluster) /\ Len(Pushed) =< MaxDepth
    <3>1. Len(parents) < MaxDepth /\ MaxDepth \in Nat
      BY <1>3, ShellAssumption DEF Cd
    <3>2. Pushed \in Seq(Cluster) /\ Len(Pushed) = Len(parents) + 1
      BY <1>2 DEF Pushed
    <3>3. Len(parents) \in Nat
      BY <1>2
    <3> QED BY <3>1, <3>2, <3>3
  <2> QED BY <1>1, <1>2, <2>1, <2>2, <2>3, StepToPrompt
<1>4. CASE CdUp
  <2>1. PICK back \in Back : Prompt(back[1], back[2])
    BY <1>4 DEF CdUp
  <2>2. /\ back[1] \in Cluster /\ back[2] \in Seq(Cluster)
        /\ Len(back[2]) =< MaxDepth
        /\ Way(Append(back[2], back[1]), table, Dirs, dir_buff)
    BY <1>1, GoingBack
  <2> QED BY <1>1, <1>2, <2>1, <2>2, StepToPrompt
<1>5. CASE MvGiveUp \/ Return
  <2>1. Prompt(currentDirCluster, parents)
    BY <1>5 DEF MvGiveUp, Return
  <2>2. Way(Append(parents, currentDirCluster), table, Dirs, dir_buff)
    BY <1>1, RunningFacts DEF Path
  <2> QED BY <1>1, <1>2, <2>1, <2>2, StepToPrompt
<1> QED BY <1>3, <1>4, <1>5

LEMMA MvShell ==
  ASSUME TidyInv, Next, NEW file \in Typed \ {ShellName}, NEW dest \in Typed,
         ~ Dots(dest), Mv(file, dest)
  PROVE  ShellInv'
<1>1. /\ step = "prompt" /\ step' = "mv_write" /\ Len(parents) < MaxDepth
      /\ parents' = Pushed /\ UNCHANGED <<loaded, currentDir, dir_buff>>
      /\ CallRead(currentDirCluster, file, BufferSize)
  BY DEF Mv
<1>2. PICK c \in Entered(dest) :
        /\ currentDirCluster' = c
        /\ moving' = [file |-> file, from |-> currentDirCluster, to |-> c]
  BY DEF Mv
<1>3. /\ Running /\ IInv /\ ShellTypeOK /\ WayInv /\ PromptInv
      /\ dest \in Name /\ file \in Name
  BY <1>1, ShellAssumption DEF Running, ShellStep, TidyInv, ShellInv
<1>4. /\ parents \in Seq(Cluster) /\ currentDirCluster \in Cluster
      /\ Len(parents) \in Nat /\ Installed
  BY <1>3, RunningFacts DEF ShellTypeOK
<1>5. c \in Cluster /\ Way(Append(Pushed, c), table, Dirs, dir_buff)
  BY <1>1, <1>2, <1>3, GoingIn DEF Path, Pushed
<1>6. /\ Pushed \in Seq(Cluster) /\ Len(Pushed) = Len(parents) + 1
      /\ Pushed # << >> /\ Pushed[Len(Pushed)] = currentDirCluster
  BY <1>4 DEF Pushed
<1>7. /\ UNCHANGED <<disk, fat>>
      /\ \/ pc' = "idle" /\ reply'.op = "read"
         \/ pc' = "read_walk"
  BY <1>1, ReadCalled
<1>8. table' = table /\ Dirs' = Dirs
  <2>1. table' = table
    BY <1>7 DEF disk
  <2> QED BY <2>1 DEF Dirs, LiveDirs, LiveEntries, At
<1>9. Mounted' /\ pc' \notin WritePhase /\ pc' # "delete_walk"
  BY <1>7 DEF Mounted, FormatPhase, WritePhase
<1>10. WayInv'
  <2>1. Path' = Append(Pushed, c)
    BY <1>1, <1>2 DEF Path
  <2>2. Way(Path', table', Dirs', dir_buff')
    BY <1>1, <1>5, <1>8, <2>1
  <2> QED BY <1>9, <2>2 DEF WayInv
<1>11. ShellTypeOK'
  <2>1. moving' \in [file: AnyName, from: Cluster, to: Cluster]
    BY <1>2, <1>3, <1>4, <1>5 DEF AnyName
  <2>2. parents' \in Seq(Cluster) /\ Len(parents') =< MaxDepth
    BY <1>1, <1>4, <1>6, ShellAssumption
  <2> QED BY <1>1, <1>2, <1>3, <1>5, <2>1, <2>2 DEF ShellTypeOK, Step, ShellStep
<1>12. PromptInv' /\ ReadCallInv'
  BY <1>1, <1>7 DEF PromptInv, ReadCallInv
<1>13. MoveInv'
  BY <1>1, <1>2, <1>6 DEF MoveInv
<1>14. ShellFileInv'
  BY <1>9, ShellFileStays DEF TidyInv, ShellInv
<1>15. StartInv'
  BY <1>1, <1>4, <1>9, StartsInstalled DEF ShellStep
<1> QED BY <1>10, <1>11, <1>12, <1>13, <1>14, <1>15 DEF ShellInv

\* Back in the old folder, the original is removed from it.
LEMMA MvRemoveFacts ==
  ASSUME TidyInv, MvRemove
  PROVE  /\ step = "mv_rm" /\ step' = "mv_return" /\ Running
         /\ UNCHANGED <<loaded, currentDir, dir_buff, moving>>
         /\ moving.file \in Typed \ {ShellName} /\ parents # << >>
         /\ currentDirCluster' = moving.from
         /\ moving.from = parents[Len(parents)]
         /\ parents' \in Seq(Cluster) /\ Len(parents') =< MaxDepth
         /\ Path' = parents /\ moving.from \in Cluster
         /\ moving.to = currentDirCluster /\ Has(moving.to, moving.file)
         /\ CallDelete(moving.from, moving.file)
<1>1. PICK back \in Back :
        /\ currentDirCluster' = back[1] /\ parents' = back[2]
        /\ CallDelete(back[1], moving.file)
  BY DEF MvRemove, RmNoPrint
<1>2. /\ step = "mv_rm" /\ step' = "mv_return" /\ pc = "idle" /\ reply.code = 0
      /\ UNCHANGED <<loaded, currentDir, dir_buff, moving>>
  BY DEF MvRemove
<1>3. Running /\ IInv /\ ShellTypeOK /\ WayInv /\ MoveInv
  BY <1>2 DEF Running, ShellStep, TidyInv, ShellInv
<1>4. /\ moving.file \in Typed \ {ShellName} /\ parents # << >>
      /\ moving.from = parents[Len(parents)]
      /\ moving.to = currentDirCluster /\ Has(moving.to, moving.file)
  BY <1>2, <1>3 DEF MoveInv, WritePhase
<1>5. /\ back[1] \in Cluster /\ back[2] \in Seq(Cluster)
      /\ Len(back[2]) =< MaxDepth /\ back[1] = parents[Len(parents)]
      /\ Append(back[2], back[1]) = parents
  BY <1>3, <1>4, GoingBack
<1>6. Path' = parents
  BY <1>1, <1>5 DEF Path
<1> QED BY <1>1, <1>2, <1>3, <1>4, <1>5, <1>6

LEMMA MvRemoveShell == ASSUME TidyInv, IInv', Next, MvRemove PROVE ShellInv'
<1>1. /\ step' = "mv_return" /\ Running /\ Path' = parents
      /\ parents # << >> /\ moving.file # ShellName
      /\ currentDirCluster' = parents[Len(parents)]
  BY MvRemoveFacts
<1>2. /\ pc = "idle"
      /\ \/ pc' = "idle"
         \/ /\ pc' = "delete_walk" /\ request'.name = moving.file
            /\ request'.parent = parents[Len(parents)]
  <2>1. CallDelete(parents[Len(parents)], moving.file)
    BY MvRemoveFacts
  <2> QED BY <2>1, DeleteCalled
<1>3. Mounted' /\ pc' \notin WritePhase
  BY <1>2 DEF Mounted, FormatPhase, WritePhase
<1>4. WayInv'
  <2>1. Way(parents, table, Dirs, dir_buff) /\ parents \in Seq(Cluster)
    BY <1>1, StandingBelow DEF TidyInv, ShellInv, ShellTypeOK
  <2>2. Way(parents, table', Dirs', dir_buff)
    BY <1>1, <1>2, <1>3, <2>1, RunningFacts, WayKept DEF TidyInv
  <2>3. Way(Path', table', Dirs', dir_buff')
    BY <1>1, <2>2, MvRemoveFacts
  <2> QED BY <1>3, <2>3 DEF WayInv
<1>5. ShellTypeOK'
  BY MvRemoveFacts DEF TidyInv, ShellInv, ShellTypeOK, Step, ShellStep
<1>6. PromptInv' /\ ReadCallInv' /\ MoveInv'
  BY <1>1 DEF PromptInv, ReadCallInv, MoveInv
<1>7. ShellFileInv'
  BY <1>3, ShellFileStays DEF TidyInv, ShellInv
<1>8. StartInv'
  BY <1>1, <1>2, RunningFacts, StartsInstalled DEF ShellStep
<1> QED BY <1>4, <1>5, <1>6, <1>7, <1>8 DEF ShellInv

----------------------------------------------------------------------------
(* One step of the machine. *)

LEMMA SystemShell == ASSUME TidyInv, IInv', System PROVE ShellInv'
<1>1. CASE Start
  BY <1>1, StartShell
<1>2. CASE MvGiveUp \/ Return
  BY <1>2, KernelAssumption, WalkShell
<1>3. CASE Next
  <2>1. CASE DriverStep /\ UNCHANGED shell
    BY <2>1, DriverStepShell
  <2>2. CASE (InsertShell \/ InsertExit \/ (Installed /\ InsertMissing))
             /\ UNCHANGED shell
    BY <1>3, <2>2, InserterShell
  <2>3. CASE (LoadShell \/ WriteGreeting) /\ UNCHANGED shell
    BY <1>3, <2>3, KernelShell
  <2>4. CASE CpWrite
    <3>1. /\ step = "cp_write" /\ step' = "return" /\ UNCHANGED <<loaded, shell>>
      BY <2>4 DEF CpWrite
    <3>2. PICK size : CallWrite(currentDirCluster, CopyName, size, Held)
      BY <2>4 DEF CpWrite
    <3>3. /\ step = "cp_write" /\ step' = "return"
          /\ CallWrite(currentDirCluster, CopyName, size, Held)
      BY <3>1, <3>2
    <3>4. UNCHANGED <<loaded, shell>>
      BY <3>1
    <3> QED BY <1>3, <3>3, <3>4, CallShell
  <2>5. CASE MvWrite
    BY <1>3, <2>5, MvWriteShell
  <2>6. CASE MvRemove
    BY <1>3, <2>6, MvRemoveShell
  <2>7. \/ DriverStep /\ UNCHANGED shell
        \/ (InsertShell \/ InsertExit \/ (Installed /\ InsertMissing))
           /\ UNCHANGED shell
        \/ (LoadShell \/ WriteGreeting) /\ UNCHANGED shell
        \/ Start \/ CpWrite \/ MvWrite \/ MvRemove \/ MvGiveUp \/ Return
    BY DEF System
  <2> QED BY <1>1, <1>2, <2>1, <2>2, <2>3, <2>4, <2>5, <2>6, <2>7
<1> QED BY <1>1, <1>2, <1>3, SystemIsCareful

LEMMA TidyUserShell == ASSUME TidyInv, IInv', TidyUser PROVE ShellInv'
<1>1. CASE CdUp
  BY <1>1, KernelAssumption, WalkShell
<1>2. ASSUME NEW name \in Typed, ~ Dots(name), Cd(name) PROVE ShellInv'
  BY <1>2, ShellAssumption, WalkShell
<1>3. CASE Next
  <2>1. CASE Installed /\ PowerOn /\ UNCHANGED shell
    BY <1>3, <2>1, KernelShell
  <2>2. ASSUME NEW name \in Typed, Mkdir(name) \/ Cat(name) \/ Cp(name)
        PROVE  ShellInv'
    BY <1>3, <2>2, CallShell DEF Mkdir, Cat, Cp
  <2>3. ASSUME NEW name \in Typed \ {ShellName}, Rm(name) PROVE ShellInv'
    BY <1>3, <2>3, CallShell DEF Rm
  <2>4. ASSUME NEW file \in Typed \ {ShellName}, NEW dest \in Typed,
               ~ Dots(dest), Mv(file, dest)
        PROVE  ShellInv'
    BY <1>3, <2>4, MvShell
  <2> QED BY <1>1, <1>2, <2>1, <2>2, <2>3, <2>4 DEF TidyUser
<1> QED BY <1>1, <1>2, <1>3, TidyUserIsCareful

LEMMA StutterShell == ASSUME TidyInv, UNCHANGED allvars PROVE ShellInv'
<1>1. UNCHANGED <<vars, step, loaded, currentDirCluster, currentDir, parents,
                  dir_buff, moving>>
  BY DEF allvars, kernel, shell
<1>2. /\ UNCHANGED <<pc, table, reply, request>>
      /\ Dirs' = Dirs /\ Mounted' = Mounted /\ Installed' = Installed
  BY <1>1, SameTree
<1>3. Path' = Path
  BY <1>1 DEF Path
<1>4. ShellTypeOK'
  BY <1>1 DEF TidyInv, ShellInv, ShellTypeOK
<1>5. WayInv'
  BY <1>1, <1>2, <1>3 DEF TidyInv, ShellInv, WayInv, Running
<1>6. PromptInv' /\ ReadCallInv'
  BY <1>1, <1>2, <1>3
  DEF TidyInv, ShellInv, PromptInv, PromptShowsPath, ReadCallInv
<1>7. MoveInv'
  BY <1>1, <1>2 DEF TidyInv, ShellInv, MoveInv, Has
<1>8. ShellFileInv'
  BY <1>1, ShellFileSame DEF TidyInv, ShellInv
<1>9. StartInv'
  BY <1>1, <1>2 DEF TidyInv, ShellInv, StartInv, KernelRunsShell
<1> QED BY <1>4, <1>5, <1>6, <1>7, <1>8, <1>9 DEF ShellInv

LEMMA TidyStep == TidyInv /\ [TidyNext]_allvars => TidyInv'
<1> SUFFICES ASSUME TidyInv, [TidyNext]_allvars PROVE TidyInv'
  OBVIOUS
<1>1. IInv' /\ FilesInv' /\ ContentsInv'
  BY DriverInvariants
<1>2. CASE Environment
  <2>1. CASE InsertBegin /\ UNCHANGED shell
    BY <1>1, <1>2, <2>1, EnvironmentIsCareful, InserterShell DEF TidyInv
  <2>2. CASE SwitchOff
    BY <1>1, <1>2, <2>2, EnvironmentIsCareful, SwitchOffShell DEF TidyInv
  <2> QED BY <1>2, <2>1, <2>2 DEF Environment
<1> QED BY <1>1, <1>2, SystemShell, TidyUserShell, StutterShell
        DEF TidyNext, TidyInv

LEMMA ShellInitTidy == ShellInit => TidyInv
<1> SUFFICES ASSUME ShellInit PROVE TidyInv
  OBVIOUS
<1>1. IInv /\ FilesInv /\ ContentsInv
  BY InitSafe, InitFiles, InitContents DEF ShellInit
<1>2. step = "off" /\ pc = "off" /\ LiveEntries = {}
  <2>1. ~ Formatted /\ BlankDisk
    BY <1>1 DEF ShellInit, Init, Formatted, IInv, DiskInv
  <2> QED BY <2>1, BlankHasNoEntries DEF ShellInit, Init
<1>3. ShellTypeOK
  <2>1. NoMove \in [file: AnyName, from: Cluster, to: Cluster]
    BY ClusterFacts DEF NoMove, AnyName
  <2>2. << >> \in Seq(Chunk) /\ << >> \in Seq(Cluster) /\ << >> \in Seq(AnyName)
        /\ Len(<< >>) =< MaxDepth
    BY ShellAssumption
  <2> QED BY <2>1, <2>2, EmptyTypes, ClusterFacts
          DEF ShellInit, ShellTypeOK, Step
<1>4. WayInv /\ PromptInv /\ ReadCallInv /\ MoveInv /\ ShellFileInv /\ StartInv
  BY <1>2 DEF WayInv, Running, ShellStep, PromptInv, ReadCallInv, MoveInv,
              ShellFileInv, WritePhase, StartInv, Inserting, KernelRunsShell
<1> QED BY <1>1, <1>3, <1>4 DEF TidyInv, ShellInv

THEOREM TidySafety == TidySpec => []TidyInv
BY ShellInitTidy, TidyStep, PTL DEF TidySpec

----------------------------------------------------------------------------
(* What follows. *)

LEMMA StackIsWay == TidyInv => ParentsArePath
<1> SUFFICES ASSUME TidyInv, Running
             PROVE  /\ Path[1] = ROOT_CLUSTER_NUMBER
                    /\ \A i \in DOMAIN Path : Path[i] \in Dirs
                    /\ \A i \in 1 .. Len(parents) :
                         table[Path[i + 1]][1].cluster = Path[i]
  BY DEF ParentsArePath
<1>1. /\ Way(Path, table, Dirs, dir_buff) /\ Path \in Seq(Cluster)
      /\ Len(Path) = Len(parents) + 1
  BY RunningFacts
<1>2. DOMAIN Path = 1 .. Len(Path) /\ Len(parents) \in Nat
  BY <1>1 DEF TidyInv, ShellInv, ShellTypeOK
<1>3. Len(Path) - 1 = Len(parents)
  BY <1>1, <1>2
<1> QED BY <1>1, <1>2, <1>3 DEF Way

\* The first of the folders that are the last one would have itself for its
\* parent, but the root is the only one without another.
LEMMA NoFolderAboveItself ==
  ASSUME NEW s \in Seq(Cluster), NEW t, NEW D, NEW names, Way(s, t, D, names),
         Len(s) > 1
  PROVE  s[Len(s) - 1] # s[Len(s)]
<1> DEFINE n == Len(s)
           S == {i \in 1 .. n - 1 : s[i] = s[n]}
<1>1. n \in Nat /\ n > 1 /\ n - 1 \in 1 .. n - 1
  OBVIOUS
<1>2. \A i \in 1 .. n - 1 : /\ s[i + 1] # ROOT_CLUSTER_NUMBER
                            /\ t[s[i + 1]][1].cluster = s[i]
  BY DEF Way
<1>3. s[1] = ROOT_CLUSTER_NUMBER /\ s[n] # ROOT_CLUSTER_NUMBER
  <2>1. n - 1 + 1 = n
    BY <1>1
  <2> QED BY <1>1, <1>2, <2>1 DEF Way
<1> SUFFICES ASSUME s[n - 1] = s[n] PROVE FALSE
  OBVIOUS
<1>4. S \in SUBSET Nat /\ S # {}
  BY <1>1
<1>5. PICK m \in S : \A i \in S : m =< i
  BY <1>4, LeastOf
<1> HIDE DEF n
<1>6. m \in 1 .. n - 1 /\ s[m] = s[n] /\ m # 1
  BY <1>3, <1>5
<1>7. m - 1 \in 1 .. n - 1 /\ m - 1 + 1 = m /\ n - 1 + 1 = n
  BY <1>1, <1>6
<1>8. s[m - 1] = s[n - 1]
  BY <1>1, <1>2, <1>6, <1>7
<1>9. m - 1 \in S
  BY <1>7, <1>8
<1>10. m =< m - 1
  BY <1>5, <1>9
<1> QED BY <1>1, <1>6, <1>10

\* The driver removes an entry when it is asked to delete.
LEMMA EntryLost ==
  ASSUME TidyInv, [TidyNext]_allvars, NEW p \in LiveEntries, p \notin LiveEntries'
  PROVE  /\ pc = "idle" /\ pc' = "delete_walk"
         /\ p[1] = request'.parent /\ At(p).name = request'.name
<1>1. CASE UNCHANGED vars
  BY <1>1, SameTree
<1>2. CASE Next
  <2>1. IInv
    BY DEF TidyInv
  <2>2. ~ TreeStays
    BY DEF TreeStays
  <2>3. ~ \E q \in Place, first \in Lowest(slot_buf) : EntryAdded(q, first)
    BY DEF EntryAdded
  <2>4. \A q \in LiveEntries : EntryRemoved(q, request'.parent) =>
                                 q = p /\ p[1] = request'.parent
    BY DEF EntryRemoved
  <2> QED BY <1>2, <2>1, <2>2, <2>3, <2>4, TreeChanges
<1> QED BY <1>1, <1>2, TidyIsCareful

\* Two commands ask it to: rm, and mv when the file is in its new place.
LEMMA WhoDeletes ==
  ASSUME [TidyNext]_allvars, pc = "idle", pc' = "delete_walk"
  PROVE  \/ step = "prompt" /\ request'.parent = currentDirCluster
         \/ MvRemove
<1>1. ASSUME NEW parent, NEW name, NEW size, NEW data
      PROVE  ~ CallRead(parent, name, size) /\ ~ CallWrite(parent, name, size, data)
  BY <1>1, ReadCalled, WriteCalled DEF WritePhase
<1>2. ~ UNCHANGED vars
  BY DEF vars
<1>3. CASE System
  <2>1. ~ DriverStep
    BY DriverStepFacts
  <2>2. ~ InsertExit
    BY DEF InsertExit, PowerLoss, Forget
  <2>3. ~ InsertShell /\ ~ InsertMissing /\ ~ LoadShell /\ ~ WriteGreeting
    BY <1>1 DEF InsertShell, InsertMissing, LoadShell, WriteGreeting
  <2>4. ~ Start /\ ~ MvGiveUp /\ ~ Return
    BY <1>2 DEF Start, Jump, MvGiveUp, Return
  <2>5. ~ CpWrite /\ ~ MvWrite
    BY <1>1 DEF CpWrite, MvWrite
  <2> QED BY <1>3, <2>1, <2>2, <2>3, <2>4, <2>5 DEF System
<1>4. ~ Mount
  BY DEF Mount, BootFormat, BootLoad
<1>5. ~ Environment
  BY <1>4 DEF Environment, InsertBegin, SwitchOff, Fail, Crash, TornFat, PowerLoss,
              Forget
<1>6. CASE TidyUser
  <2>1. ~ PowerOn /\ ~ CdUp
    BY <1>2, <1>4 DEF PowerOn, CdUp
  <2>2. \A name : ~ Mkdir(name) /\ ~ Cat(name) /\ ~ Cp(name) /\ ~ Cd(name)
    BY <1>1, <1>2 DEF Mkdir, Cat, Cp, Cd
  <2>3. \A file, dest : ~ Mv(file, dest)
    BY <1>1 DEF Mv
  <2>4. PICK name : Rm(name)
    BY <1>6, <2>1, <2>2, <2>3 DEF TidyUser
  <2> QED BY <2>4, DeleteCalled DEF Rm
<1>7. ~ UNCHANGED allvars
  BY <1>2 DEF allvars
<1> QED BY <1>3, <1>5, <1>6, <1>7 DEF TidyNext

\* It was moved to another folder, one step below.
LEMMA MoveIsSafe ==
  ASSUME TidyInv, MvRemove, pc' = "delete_walk"
  PROVE  /\ Moved /\ request'.parent = moving.from
         /\ request'.name = moving.file /\ moving.to # moving.from
         /\ Has(moving.to, moving.file)
<1>1. /\ Moved /\ Has(moving.to, moving.file)
      /\ CallDelete(moving.from, moving.file) /\ Running
      /\ moving.to = currentDirCluster /\ parents # << >>
      /\ moving.from = parents[Len(parents)]
  BY MvRemoveFacts DEF Moved
<1>2. request'.parent = moving.from /\ request'.name = moving.file
  BY <1>1, DeleteCalled
<1>3. /\ parents \in Seq(Cluster) /\ currentDirCluster \in Cluster
      /\ Len(parents) \in Nat \ {0}
  BY <1>1 DEF TidyInv, ShellInv, ShellTypeOK
<1>4. /\ Len(Path) > 1 /\ Path[Len(Path)] = currentDirCluster
      /\ Path[Len(Path) - 1] = parents[Len(parents)]
  BY <1>3 DEF Path
<1>5. moving.to # moving.from
  BY <1>1, <1>4, RunningFacts, NoFolderAboveItself
<1> QED BY <1>1, <1>2, <1>5

LEMMA TidyKeepsNames ==
  TidyInv /\ [TidyNext]_allvars =>
    \A p \in LiveEntries : p \notin LiveEntries' =>
       \/ /\ step = "prompt" /\ pc' = "delete_walk"
          /\ p[1] = currentDirCluster /\ request'.name = At(p).name
       \/ /\ Moved
          /\ moving.file = At(p).name
          /\ moving.to # p[1] /\ Has(moving.to, moving.file)
BY EntryLost, WhoDeletes, MoveIsSafe

(***************************************************************************)
(* The variables of the shell and of the programs before it keep the types *)
(* of their C declarations, the stack and the shown names stay sequences   *)
(* within their bound.                                                     *)
(***************************************************************************)
THEOREM ShellTypes == TidySpec => []ShellTypeOK
<1>1. TidyInv => ShellTypeOK
  BY DEF TidyInv, ShellInv
<1> QED BY <1>1, TidySafety, PTL

(***************************************************************************)
(* The shell's stack is the way from the root to the current folder, each  *)
(* folder of it on the disk and the parent of the next, between any two    *)
(* steps of any command, mv's too, which stands in another folder than the *)
(* user (user-shell.c:341-351, :422-503): no removal takes a folder away   *)
(* from under the shell.                                                   *)
(***************************************************************************)
THEOREM StackIsPath == TidySpec => []ParentsArePath
BY TidySafety, StackIsWay, PTL

(***************************************************************************)
(* The prompt shows the names that the folders on the stack have now,      *)
(* though each was kept when its folder was entered (cetak_prompt).        *)
(***************************************************************************)
THEOREM PromptIsTrue == TidySpec => []PromptShowsPath
<1>1. TidyInv => PromptShowsPath
  BY DEF TidyInv, ShellInv, PromptInv, PromptShowsPath
<1> QED BY <1>1, TidySafety, PTL

(***************************************************************************)
(* Every start finds the whole shell in the root and jumps to it, whatever *)
(* the user stored, copied and moved since it was inserted and wherever    *)
(* power was lost (kernel.c:124-140).                                      *)
(***************************************************************************)
THEOREM KernelFindsShell == TidySpec => []KernelRunsShell
<1>1. TidyInv => KernelRunsShell
  BY DEF TidyInv, ShellInv, StartInv
<1> QED BY <1>1, TidySafety, PTL

(***************************************************************************)
(* What the inserter, the kernel and the shell do with the disk are steps  *)
(* of the driver's own specification with its careful client: what is      *)
(* proved of the driver holds of the whole machine.                        *)
(***************************************************************************)
THEOREM RequestsAreCareful == TidySpec => CarefulClient
<1>1. ShellInit => Init
  BY DEF ShellInit
<1>2. TidyInv /\ [TidyNext]_allvars => [Next]_vars
  BY TidyIsCareful
<1> QED BY <1>1, <1>2, TidySafety, PTL DEF TidySpec, CarefulClient, Spec

(***************************************************************************)
(* An entry goes from a folder because rm was told so, or because mv,      *)
(* which removes the original after a write that returned 0, has an entry  *)
(* of that name in another folder (user-shell.c:422-503): the tree gives   *)
(* no folder itself for its parent, so where mv went is not where it came  *)
(* from.                                                                   *)
(***************************************************************************)
THEOREM MvLosesNothing == TidySpec => MvKeepsAName
BY TidySafety, TidyKeepsNames, PTL DEF TidySpec, MvKeepsAName

(***************************************************************************)
(* Under this inserter, this kernel and this shell the disk is a store of  *)
(* whole files: no command gets an answer that is not true of the disk, a  *)
(* write or a delete takes effect at once or not at all, also when power   *)
(* is lost between two accesses of a command, and a read returns what was  *)
(* written (fat32.c:161-420; the codes of a failure are those of the code).*)
(***************************************************************************)
THEOREM MachineIsFileStore == TidySpec => ImplementsFileStore
BY RequestsAreCareful, DriverIsFileStore, PTL DEF CarefulClient

=============================================================================
