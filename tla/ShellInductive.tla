--------------------------- MODULE ShellInductive ---------------------------
(***************************************************************************)
(* The inductive invariant behind the properties of ShellSafety, on top of *)
(* those of the driver: where the shell stands between two calls, what it  *)
(* knows of the folders on its stack, and where the shell's own file is.   *)
(***************************************************************************)
EXTENDS ShellSafety, Fat32Inductive

\* Folders of D from the root down, each with the next one's dot dot entry
\* about it, and names that has kept those of all but the last.
Way(s, t, D, names) ==
  /\ s[1] = ROOT_CLUSTER_NUMBER
  /\ \A i \in 1 .. Len(s) : s[i] \in D
  /\ Len(s) =< Len(names) + 1
  /\ \A i \in 1 .. Len(s) - 1 :
       /\ s[i + 1] # ROOT_CLUSTER_NUMBER
       /\ t[s[i + 1]][1].cluster = s[i]
       /\ names[i] = t[s[i]][0].name

WayInv == Running => Mounted /\ Way(Path, table, Dirs, dir_buff)

PromptInv ==
  step = "prompt" =>
    /\ pc = "idle" /\ currentDir = table[currentDirCluster]
    /\ PromptShowsPath

\* cp and mv wait for a read, whose result they do not look at.
ReadCallInv ==
  step \in {"cp_write", "mv_write"} =>
    pc = "read_walk" \/ (pc = "idle" /\ reply.op = "read")

\* mv is in the destination, one step below where it came from.  Once the
\* write has found the name free it is not that of the old folder, which the
\* destination has for its parent's.
MoveInv ==
  /\ step \in {"mv_write", "mv_rm"} =>
       /\ moving.file \in Typed \ {ShellName}
       /\ parents # << >> /\ moving.from = parents[Len(parents)]
       /\ moving.to = currentDirCluster
  /\ step = "mv_rm" =>
       \/ pc = "idle" /\ reply.code # 0
       \/ /\ moving.file # table[moving.from][0].name
          /\ \/ /\ pc \in WritePhase
                /\ request.parent = moving.to /\ request.name = moving.file
             \/ pc = "idle" /\ Has(moving.to, moving.file)

\* A file of the root that has the shell's name is the shell.
ShellFileInv ==
  /\ \A p \in LiveEntries :
       p[1] = ROOT_CLUSTER_NUMBER /\ At(p).name = ShellName =>
         ~ At(p).isdir /\ At(p).size = ShellSize /\ Filled(p, ShellData)
  /\ /\ pc \in WritePhase
     /\ request.parent = ROOT_CLUSTER_NUMBER /\ request.name = ShellName
     => request.size = ShellSize /\ request.data = ShellData

\* Since it was powered on the machine has had a shell, and has read it.
StartInv ==
  /\ step \notin {"off"} \cup Inserting => Installed
  /\ step = "load" => pc = "idle"
  /\ step = "greet" =>
       \/ /\ pc = "read_walk"
          /\ request.parent = ROOT_CLUSTER_NUMBER /\ request.name = ShellName
       \/ /\ pc = "idle" /\ reply.op = "read" /\ reply.code = 0
          /\ reply.parent = ROOT_CLUSTER_NUMBER /\ reply.name = ShellName
  /\ step = "jump" => loaded = Program
  /\ KernelRunsShell

(***************************************************************************)
(* Inductive relative to IInv, FilesInv and ContentsInv.                   *)
(***************************************************************************)
ShellInv ==
  /\ ShellTypeOK /\ WayInv /\ PromptInv /\ ReadCallInv /\ MoveInv
  /\ ShellFileInv /\ StartInv

=============================================================================
