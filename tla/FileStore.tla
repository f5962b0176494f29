----------------------------- MODULE FileStore -----------------------------
(***************************************************************************)
(* The store of files that src/src/fat32.c is for its client: a tree of    *)
(* folders, each known by a handle, in which every operation takes effect  *)
(* at once or not at all.  A power loss loses an answer, never anything    *)
(* that was stored.  The operations are those of fat32.h:212-248, but the  *)
(* codes of a failure are those the driver gives, which are not always     *)
(* the ones listed there: see Refusal.                                     *)
(***************************************************************************)
EXTENDS Integers, FiniteSets

CONSTANTS
  Handle,    \* what a folder may be known by
  RootDir,   \* the handle of the root
  Name,      \* names of files and folders
  RootName,  \* the name of the root
  Content    \* what a file may hold: records with a size and its chunks

VARIABLES
  tree,      \* handle -> name -> file or folder, for the folders there are
  removing,  \* what a delete that has not answered has removed
  reply,     \* the last answer, or NoAnswer
  got        \* what a successful read has returned

vars == <<tree, removing, reply, got>>

File(x)   == [kind |-> "file", holds |-> x]
Folder(k) == [kind |-> "folder", handle |-> k]
NoAnswer  == [op |-> "none"]
Nothing   == [kind |-> "nothing"]

Empty == [n \in {} |-> Nothing]

Exists(h)       == h \in DOMAIN tree
Has(h, n)       == Exists(h) /\ n \in DOMAIN tree[h]
HasFile(h, n)   == Has(h, n) /\ tree[h][n].kind = "file"
Links(h, n, k)  == Has(h, n) /\ tree[h][n] = Folder(k)

\* n is what the folder k is called where it is linked.
Titled(k, n) ==
  \/ k = RootDir /\ n = RootName
  \/ \E g \in DOMAIN tree : Links(g, n, k)

Within(h, g) == \E n \in Name : Links(g, n, h)

\* Asked of h, the name n means the folder k: h itself, its parent, or a
\* folder in it.
Means(h, n, k) ==
  /\ Exists(h)
  /\ \/ k = h /\ Titled(h, n)
     \/ Within(h, k) /\ Titled(k, n)
     \/ Links(h, n, k)

Taken(h, n) == HasFile(h, n) \/ \E k \in DOMAIN tree : Means(h, n, k)

----------------------------------------------------------------------------

Init ==
  /\ tree = [h \in {RootDir} |-> Empty]
  /\ removing = {}
  /\ reply = NoAnswer
  /\ got = Nothing

Says(op, h, n, code) ==
  reply' = [op |-> op, parent |-> h, name |-> n, code |-> code]

(***************************************************************************)
(* The answers that report a failure, and what each means in fat32.c.      *)
(* Two operations do not keep to the codes of their headers: read says 2   *)
(* for a name or a parent it does not find and -1 for a small buffer       *)
(* (fat32.c:214, :236-237, :253), where fat32.h:229 has 3 and 2; delete    *)
(* says 2 for an invalid parent too (fat32.c:358), where fat32.h:246 has   *)
(* only a folder that is not empty.                                        *)
(***************************************************************************)
Refusal(op, h, n, code) ==
  \/ op # "read_directory" /\ code = 2 /\ ~ Exists(h)
  \/ op = "write" /\ code = 1 /\ Taken(h, n)
  \/ op = "write" /\ code = -1 /\ Exists(h) /\ ~ Taken(h, n)
  \/ op = "delete" /\ code = 1 /\ Exists(h) /\ ~ Taken(h, n)
  \/ /\ op = "delete" /\ code = 2
     /\ \E k \in DOMAIN tree : Means(h, n, k) /\ tree[k] # Empty
  \/ op = "read" /\ code = 1 /\ \E k \in DOMAIN tree : Means(h, n, k)
  \/ op = "read" /\ code = -1 /\ HasFile(h, n)
  \/ op = "read" /\ code = 2 /\ Exists(h) /\ ~ Taken(h, n)
  \/ op = "read_directory" /\ code = 1 /\ HasFile(h, n)
  \/ /\ op = "read_directory" /\ code = -1
     /\ \E k \in DOMAIN tree : Means(h, n, k)
  \/ op = "read_directory" /\ code = 2 /\ Exists(h) /\ ~ Taken(h, n)

Refuse(op, h, n, code) ==
  /\ Says(op, h, n, code)
  /\ Refusal(op, h, n, code)
  /\ got' = Nothing
  /\ UNCHANGED <<tree, removing>>

\* A request whose answer is still to come.
Begin ==
  /\ reply' = NoAnswer /\ got' = Nothing
  /\ UNCHANGED <<tree, removing>>

With(h, n, node) ==
  [m \in DOMAIN tree[h] \cup {n} |-> IF m = n THEN node ELSE tree[h][m]]

Create(h, n, x) ==
  /\ Says("write", h, n, 0) /\ got' = Nothing
  /\ Exists(h) /\ ~ Taken(h, n)
  /\ tree' = [tree EXCEPT ![h] = With(h, n, File(x))]
  /\ UNCHANGED removing

MakeFolder(h, n, k) ==
  /\ Says("write", h, n, 0) /\ got' = Nothing
  /\ Exists(h) /\ ~ Taken(h, n) /\ ~ Exists(k)
  /\ tree' = [g \in DOMAIN tree \cup {k} |->
                IF g = k THEN Empty
                ELSE IF g = h THEN With(h, n, Folder(k)) ELSE tree[g]]
  /\ UNCHANGED removing

Without(h, n) == [m \in DOMAIN tree[h] \ {n} |-> tree[h][m]]

RemoveFile(h, n) ==
  /\ removing' = {<<h, n>>}
  /\ HasFile(h, n)
  /\ tree' = [tree EXCEPT ![h] = Without(h, n)]
  /\ reply' = NoAnswer /\ got' = Nothing

RemoveFolder(h, n, k) ==
  /\ removing' = {<<h, n>>}
  /\ Links(h, n, k) /\ tree[k] = Empty
  /\ tree' = [g \in DOMAIN tree \ {k} |->
                IF g = h THEN Without(h, n) ELSE tree[g]]
  /\ reply' = NoAnswer /\ got' = Nothing

Removed(h, n) ==
  /\ Says("delete", h, n, 0)
  /\ <<h, n>> \in removing
  /\ removing' = {}
  /\ UNCHANGED <<tree, got>>

Read(h, n) ==
  /\ Says("read", h, n, 0)
  /\ HasFile(h, n)
  /\ got' = [kind |-> "data", chunks |-> tree[h][n].holds.chunks]
  /\ UNCHANGED <<tree, removing>>

\* A folder shows its folders, and its files with their sizes.
Shown(node) ==
  IF node.kind = "file" THEN [kind |-> "file", size |-> node.holds.size]
                        ELSE node

List(h, n, k) ==
  /\ Says("read_directory", h, n, 0)
  /\ Means(h, n, k)
  /\ got' = [kind |-> "listing",
             entries |-> [m \in DOMAIN tree[k] |-> Shown(tree[k][m])]]
  /\ UNCHANGED <<tree, removing>>

PowerLoss ==
  /\ removing' = {} /\ reply' = NoAnswer /\ got' = Nothing
  /\ UNCHANGED tree

Next ==
  \/ Begin \/ PowerLoss
  \/ \E h \in Handle, n \in Name :
       \/ \E op \in {"read", "read_directory", "write", "delete"},
             code \in {-1, 1, 2} : Refuse(op, h, n, code)
       \/ \E x \in Content : Create(h, n, x)
       \/ \E k \in Handle : MakeFolder(h, n, k)
       \/ RemoveFile(h, n)
       \/ \E k \in Handle : RemoveFolder(h, n, k)
       \/ Removed(h, n)
       \/ Read(h, n)
       \/ \E k \in Handle : List(h, n, k)

Spec == Init /\ [][Next]_vars

=============================================================================
