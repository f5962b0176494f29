---------------------------- MODULE ShellSafety ----------------------------
(***************************************************************************)
(* What the shell keeps true of the way it remembers to the root, of what  *)
(* it asks of the driver, and of the user's files.                         *)
(***************************************************************************)
EXTENDS Shell

ShellStep == {"prompt", "return", "cp_write", "mv_write", "mv_rm", "mv_return"}

Step == {"off", "load", "greet", "jump", "garbage"} \cup Inserting \cup ShellStep

Running == step \in ShellStep

\* The folders from the root to the current one, as the shell has them.
Path == Append(parents, currentDirCluster)

(***************************************************************************)
(* The variables of the shell have the types of their C declarations, the  *)
(* stack at most one folder more than the bound on cd.                     *)
(***************************************************************************)
ShellTypeOK ==
  /\ step \in Step
  /\ loaded \in Seq(Chunk)
  /\ currentDirCluster \in Cluster
  /\ currentDir \in Table
  /\ parents \in Seq(Cluster) /\ Len(parents) =< MaxDepth
  /\ dir_buff \in Seq(AnyName)
  /\ moving \in [file: AnyName, from: Cluster, to: Cluster]

(***************************************************************************)
(* Above the root there is always a folder on the stack, and the root is   *)
(* at its bottom: cd .. never reads in front of parent_cluster_number      *)
(* (user-shell.c:332, :377).                                               *)
(***************************************************************************)
NoUnderflow ==
  /\ currentDirCluster # ROOT_CLUSTER_NUMBER => parents # << >>
  /\ parents # << >> => parents[1] = ROOT_CLUSTER_NUMBER

(***************************************************************************)
(* The stack is the way from the root to the current folder: each folder   *)
(* of it is on the disk and says that the one before is its parent, at     *)
(* every step of mv and whatever was removed since (user-shell.c:341-351). *)
(***************************************************************************)
ParentsArePath ==
  Running =>
    /\ Path[1] = ROOT_CLUSTER_NUMBER
    /\ \A i \in DOMAIN Path : Path[i] \in Dirs
    /\ \A i \in 1 .. Len(parents) : table[Path[i + 1]][1].cluster = Path[i]

(***************************************************************************)
(* The prompt shows the names of the folders from the root to the current  *)
(* one, though each was kept at another time (cetak_prompt).               *)
(***************************************************************************)
PromptShowsPath ==
  step = "prompt" =>
    dir_buff = [i \in DOMAIN Path |-> table[Path[i]][0].name]

(***************************************************************************)
(* Whatever was done since the shell was inserted, and wherever power was  *)
(* lost, the next start finds all of it: the kernel, which does not look   *)
(* at the result of the read, never jumps to something else                *)
(* (kernel.c:124-140).                                                     *)
(***************************************************************************)
KernelRunsShell == step # "garbage"

\* The shell prints "File moved successfully" in this step.
Moved == step = "mv_rm" /\ step' = "mv_return"

Has(cluster, name) ==
  \E i \in Slot : table[cluster][i].used /\ table[cluster][i].name = name

(***************************************************************************)
(* A file or folder leaves a directory because rm was told so, or because  *)
(* mv has put one of its name in another: no other command, no power loss  *)
(* and no failure half way takes the last entry of that name away          *)
(* (user-shell.c:422-503).                                                 *)
(***************************************************************************)
MvKeepsAName ==
  [][\A p \in LiveEntries : p \notin LiveEntries' =>
       \/ /\ step = "prompt" /\ pc' = "delete_walk"
          /\ p[1] = currentDirCluster /\ request'.name = At(p).name
       \/ /\ Moved
          /\ moving.file = At(p).name
          /\ moving.to # p[1] /\ Has(moving.to, moving.file)]_allvars

(***************************************************************************)
(* The requests of the inserter, of the kernel and of the shell are those  *)
(* the driver's properties were checked and proved for: names that are     *)
(* there, folders reached from the root, never a folder's own name.        *)
(***************************************************************************)
CarefulClient == Spec

(***************************************************************************)
(* Every command comes back to the prompt and every start of the machine   *)
(* reaches it, unless power is lost: no call of the driver is waited for   *)
(* in vain.                                                                *)
(***************************************************************************)
SystemAnswers == (step \notin {"off", "prompt"}) ~> (step \in {"off", "prompt"})

----------------------------------------------------------------------------
(* What the comments of the shell say of every user. *)

(***************************************************************************)
(* user-shell.c:423-424 and :472: a file that was moved successfully is in *)
(* the destination.                                                        *)
(***************************************************************************)
MovedIsThere ==
  [][step = "mv_return" /\ step' = "prompt" /\ moving.from # moving.to =>
       Has(moving.to, moving.file)]_allvars

=============================================================================
