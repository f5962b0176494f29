----------------------------- MODULE Fat32Store -----------------------------
(***************************************************************************)
(* The driver of Fat32 implements FileStore: its tree is what the disk     *)
(* holds, read from the directory tables and along the chains.  The step   *)
(* that writes the parent's table is the one that takes effect.            *)
(***************************************************************************)
EXTENDS Fat32Safety

\* The clusters of a file in the order of its bytes: links go up.
InOrder(S) ==
  [i \in 1 .. Cardinality(S) |->
     CHOOSE c \in S : Cardinality({x \in S : x < c}) = i - 1]

Chunks(first) ==
  LET order == InOrder(Chain(fat_disk, first))
  IN  [i \in DOMAIN order |-> bytes[order[i]]]

Node(e) ==
  IF e.isdir
  THEN [kind |-> "folder", handle |-> e.cluster]
  ELSE [kind |-> "file",
        holds |-> [size |-> e.size, chunks |-> Chunks(e.cluster)]]

UsedSlots(t) == {i \in Slot \ {0, 1} : t[i].used}

EntryNamed(t, n) == t[CHOOSE i \in UsedSlots(t) : t[i].name = n]

DiskTree ==
  [d \in Dirs |->
     [n \in {table[d][i].name : i \in UsedSlots(table[d])} |->
        Node(EntryNamed(table[d], n))]]

Removing ==
  IF pc \in {"delete_walk", "delete_fat"}
  THEN {<<request.parent, request.name>>} ELSE {}

Answered == IF reply.op = "none" THEN [op |-> "none"] ELSE reply

Returned ==
  IF reply.code # 0 \/ reply.op \notin {"read", "read_directory"}
  THEN [kind |-> "nothing"]
  ELSE IF reply.op = "read"
  THEN [kind |-> "data", chunks |-> out]
  ELSE [kind |-> "listing",
        entries |->
          [n \in {listing[i].name : i \in UsedSlots(listing)} |->
             LET e == EntryNamed(listing, n)
             IN  IF e.isdir THEN [kind |-> "folder", handle |-> e.cluster]
                 ELSE [kind |-> "file", size |-> e.size]]]

\* What a write may be asked to store: every chunk of one request, in order.
Contents ==
  {[size   |-> s,
    chunks |-> [i \in 1 .. (s + CLUSTER_SIZE - 1) \div CLUSTER_SIZE |->
                  [data |-> d, part |-> i]]] : s \in Sizes \ {0}, d \in Data}

Store ==
  INSTANCE FileStore
    WITH Handle <- Cluster, RootDir <- ROOT_CLUSTER_NUMBER, Content <- Contents,
         tree <- DiskTree, removing <- Removing, reply <- Answered,
         got <- Returned

(***************************************************************************)
(* Every step of the driver, of the client and of a power loss is one step *)
(* of the store or none: an operation takes effect at one write, no answer *)
(* is given before its effect is on the disk, a read returns what was      *)
(* written, a crash keeps every file whose write had answered, and each    *)
(* failure code has one meaning, the one it has in fat32.c:161-420 (which  *)
(* for read and delete is not always that of fat32.h:229 and :246).        *)
(***************************************************************************)
ImplementsFileStore == Store!Spec

=============================================================================
