------------------------------- MODULE Shell -------------------------------
(***************************************************************************)
(* The user shell (src/src/user-shell.c) on the driver of Fat32: the       *)
(* commands that go from folder to folder and those that change them, each *)
(* split at its system calls.  ls and find change nothing and have no      *)
(* action, nor have a command that is not known and a name that is too     *)
(* long; an action is there for the rest of what a line typed can do.      *)
(*                                                                         *)
(* cd and mv hand read_directory a cluster number for the address of a     *)
(* request (:336, :351, :381, :395): it finds no such folder, and its code *)
(* spoils a name in currentDir that the next prompt reads again.           *)
(***************************************************************************)
EXTENDS Kernel

CONSTANTS
  CopyName,    \* "copy"
  BufferSize,  \* 10 * CLUSTER_SIZE, the buffer of cat, cp and mv
  Junk,        \* what that buffer holds when nothing was read
  Typed,       \* the names the user types
  MaxDepth     \* bound: folders on the shell's stack (256)

ASSUME ShellAssumption ==
  /\ CopyName \in Name /\ Typed \subseteq Name
  /\ BufferSize \in Sizes
  /\ Junk \in Data
  /\ MaxDepth \in Nat

VARIABLES
  currentDirCluster,
  currentDir,  \* currentDir.table
  parents,     \* parent_cluster_number, as far as buffer_index
  dir_buff,    \* the names the prompt shows
  moving       \* the two requests of mv: what is moved, from where to where

shell   == <<currentDirCluster, currentDir, parents, dir_buff, moving>>
allvars == <<vars, kernel, shell>>

NoMove == [file |-> ZeroName, from |-> 0, to |-> 0]

----------------------------------------------------------------------------
(* cd and cdNoPrint: where they go and the stack they leave. *)

\* Mutant of Entered: takes the first entry of that name for a folder.
EnteredAny(name) == {currentDir[i].cluster : i \in Lowest(Matches(currentDir, name))}

Entered(name) ==
  {currentDir[i].cluster :
     i \in Lowest({j \in Matches(currentDir, name) : currentDir[j].isdir})}

Pushed == Append(parents, currentDirCluster)

\* The folder on top of the stack.  Below its bottom the code reads what
\* lies in front of the array.
Top == {c \in Cluster : parents = << >> \/ c = parents[Len(parents)]}

Popped == SubSeq(parents, 1, Len(parents) - 1)

\* Mutant of Back: moves in the root too.
BackAlways == {<<c, Popped>> : c \in Top}

\* Where `..' leads and the stack it leaves: in the root it does nothing.
Back ==
  IF currentDirCluster = ROOT_CLUSTER_NUMBER
  THEN {<<currentDirCluster, parents>>} ELSE {<<c, Popped>> : c \in Top}

\* Mutants of Prompt: keeps the folder's cluster in place of its name, or
\* shows the name of the folder that was left.
PromptCluster(cluster, up) ==
  /\ currentDirCluster' = cluster
  /\ parents' = up
  /\ currentDir' = table[cluster]
  /\ dir_buff' = Append(SubSeq(dir_buff, 1, Len(up)), table[cluster][0].cluster)
  /\ moving' = NoMove
  /\ step' = "prompt"

PromptStale(cluster, up) ==
  /\ currentDirCluster' = cluster
  /\ parents' = up
  /\ currentDir' = table[cluster]
  /\ dir_buff' = Append(SubSeq(dir_buff, 1, Len(up)), currentDir[0].name)
  /\ moving' = NoMove
  /\ step' = "prompt"

\* cetak_prompt: reads the folder again and shows the way to it.  Its name
\* takes the place of the one last shown at that depth.
Prompt(cluster, up) ==
  /\ currentDirCluster' = cluster
  /\ parents' = up
  /\ currentDir' = table[cluster]
  /\ dir_buff' = Append(SubSeq(dir_buff, 1, Len(up)), table[cluster][0].name)
  /\ moving' = NoMove
  /\ step' = "prompt"

----------------------------------------------------------------------------
(* Commands. *)

Cd(name) ==
  /\ step = "prompt" /\ Len(parents) < MaxDepth
  /\ \E c \in Entered(name) : Prompt(c, Pushed)
  /\ UNCHANGED <<vars, loaded>>

\* cd .. looks for an entry that has a name before it moves.
CdUp ==
  /\ step = "prompt"
  /\ \E i \in Slot : currentDir[i].name # ZeroName
  /\ \E back \in Back : Prompt(back[1], back[2])
  /\ UNCHANGED <<vars, loaded>>

Mkdir(name) ==
  /\ step = "prompt"
  /\ CallWrite(currentDirCluster, name, 0, NoData)
  /\ step' = "return"
  /\ UNCHANGED <<loaded, shell>>

Rm(name) ==
  /\ step = "prompt"
  /\ CallDelete(currentDirCluster, name)
  /\ step' = "return"
  /\ UNCHANGED <<loaded, shell>>

Cat(name) ==
  /\ step = "prompt"
  /\ CallRead(currentDirCluster, name, BufferSize)
  /\ step' = "return"
  /\ UNCHANGED <<loaded, shell>>

Cp(name) ==
  /\ step = "prompt"
  /\ CallRead(currentDirCluster, name, BufferSize)
  /\ step' = "cp_write"
  /\ UNCHANGED <<loaded, shell>>

\* The file the buffer was filled from.
Held == IF reply.code = 0 THEN out[1].data ELSE Junk

\* The size is the length of what an uninitialised pointer points to, and
\* an empty copy is a folder.  The result of the read is not looked at.
CpWrite ==
  /\ step = "cp_write" /\ pc = "idle"
  /\ \E size \in Sizes :
        Fits(size) /\ CallWrite(currentDirCluster, CopyName, size, Held)
  /\ step' = "return"
  /\ UNCHANGED <<loaded, shell>>

\* mv enters the destination first; its request still names the old folder.
Mv(file, dest) ==
  /\ step = "prompt" /\ Len(parents) < MaxDepth
  /\ \A i \in Lowest(Matches(currentDir, dest)) : currentDir[i].isdir
  /\ \E c \in Entered(dest) :
        /\ currentDirCluster' = c
        /\ moving' = [file |-> file, from |-> currentDirCluster, to |-> c]
  /\ parents' = Pushed
  /\ CallRead(currentDirCluster, file, BufferSize)
  /\ step' = "mv_write"
  /\ UNCHANGED <<loaded, currentDir, dir_buff>>

MvWrite ==
  /\ step = "mv_write" /\ pc = "idle"
  /\ \E size \in Sizes :
        Fits(size) /\ CallWrite(currentDirCluster, moving.file, size, Held)
  /\ step' = "mv_rm"
  /\ UNCHANGED <<loaded, shell>>

RmNoPrint(parent, name) == CallDelete(parent, name)

\* Mutant of MvRemove: removes the original whatever the write returned.
MvRemoveAlways ==
  /\ step = "mv_rm" /\ pc = "idle"
  /\ \E back \in Back :
        /\ currentDirCluster' = back[1]
        /\ parents' = back[2]
        /\ RmNoPrint(back[1], moving.file)
  /\ step' = "mv_return"
  /\ UNCHANGED <<loaded, currentDir, dir_buff, moving>>

\* "File moved successfully": back with cd .., and then the original is
\* removed from wherever that leads.
MvRemove ==
  /\ step = "mv_rm" /\ pc = "idle" /\ reply.code = 0
  /\ \E back \in Back :
        /\ currentDirCluster' = back[1]
        /\ parents' = back[2]
        /\ RmNoPrint(back[1], moving.file)
  /\ step' = "mv_return"
  /\ UNCHANGED <<loaded, currentDir, dir_buff, moving>>

\* Only the low byte of retcode is written: whatever the write returned, the
\* switch may fall through to its default.  The shell stays where it is.
MvGiveUp ==
  /\ step = "mv_rm" /\ pc = "idle"
  /\ Prompt(currentDirCluster, parents)
  /\ UNCHANGED <<vars, loaded>>

Return ==
  /\ step \in {"return", "mv_return"} /\ pc = "idle"
  /\ Prompt(currentDirCluster, parents)
  /\ UNCHANGED <<vars, loaded>>

----------------------------------------------------------------------------
(* The whole machine. *)

\* main: the shell starts in the root with an empty stack.
Start ==
  /\ Jump
  /\ IF step' = "garbage" THEN UNCHANGED shell
     ELSE Prompt(ROOT_CLUSTER_NUMBER, << >>)

SwitchOff ==
  /\ Fail
  /\ currentDirCluster' = ROOT_CLUSTER_NUMBER
  /\ currentDir' = EmptyTable
  /\ parents' = << >> /\ dir_buff' = << >> /\ moving' = NoMove

\* The shell is inserted before anything else is, and the machine started with
\* it on the disk.  kernel_setup would start without it too; that no command
\* and no power loss takes it away again is MvKeepsAName.
Installed ==
  \E i \in Slot : LET e == table[ROOT_CLUSTER_NUMBER][i]
                  IN  e.used /\ ~ e.isdir /\ e.name = ShellName

\* What goes on by itself once it has been set off.
System ==
  \/ /\ DriverStep \/ InsertShell \/ InsertExit \/ LoadShell \/ WriteGreeting
     /\ UNCHANGED shell
  \/ Installed /\ InsertMissing /\ UNCHANGED shell
  \/ Start \/ CpWrite \/ MvWrite \/ MvRemove \/ MvGiveUp \/ Return

Environment == (InsertBegin /\ UNCHANGED shell) \/ SwitchOff

----------------------------------------------------------------------------
(* Users. *)

Dots(name) == name \in {currentDir[0].name, currentDir[1].name}

\* Does not type the name of the folder it is in or of the one above, does
\* not remove or move the shell, and starts the machine with one installed.
TidyUser ==
  \/ Installed /\ PowerOn /\ UNCHANGED shell
  \/ CdUp
  \/ \E name \in Typed : Mkdir(name) \/ Cat(name) \/ Cp(name)
  \/ \E name \in Typed : ~ Dots(name) /\ Cd(name)
  \/ \E name \in Typed \ {ShellName} : ~ Dots(name) /\ Rm(name)
  \/ \E file \in Typed \ {ShellName}, dest \in Typed :
        ~ Dots(dest) /\ Mv(file, dest)

\* Types any name of a folder, but in the root its own, whose entry names
\* cluster 0; moves files that are there and removes no folder it is in.
RoamingUser ==
  \/ Installed /\ PowerOn /\ UNCHANGED shell
  \/ CdUp
  \/ \E name \in Typed : Mkdir(name) \/ Cat(name) \/ Cp(name)
  \/ \E name \in Typed : name # currentDir[0].name /\ Rm(name)
  \/ \E name \in Typed :
        /\ ~ (currentDirCluster = ROOT_CLUSTER_NUMBER /\ Dots(name))
        /\ \/ Cd(name)
           \/ \E i \in Slot :
                 /\ currentDir[i].name \in Typed /\ ~ currentDir[i].isdir
                 /\ Mv(currentDir[i].name, name)

ShellInit ==
  /\ Init
  /\ step = "off" /\ loaded = << >>
  /\ currentDirCluster = ROOT_CLUSTER_NUMBER
  /\ currentDir = EmptyTable
  /\ parents = << >> /\ dir_buff = << >> /\ moving = NoMove

TidyNext    == System \/ Environment \/ TidyUser
RoamingNext == System \/ Environment \/ RoamingUser

TidySpec    == ShellInit /\ [][TidyNext]_allvars
RoamingSpec == ShellInit /\ [][RoamingNext]_allvars

\* The processor runs a program and the driver to the end of a command,
\* whatever the user does.
FairTidySpec == TidySpec /\ WF_allvars(System)

=============================================================================
