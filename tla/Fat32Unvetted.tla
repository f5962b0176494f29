--------------------------- MODULE Fat32Unvetted ---------------------------
(***************************************************************************)
(* Fat32 with what the careful client of Spec leaves out: a request that   *)
(* the shell does make when its user types it, and a power loss while the  *)
(* disk is being formatted.  Each property is what a comment of the source *)
(* says of every call.                                                     *)
(***************************************************************************)
EXTENDS Fat32Safety

\* `rm' with no argument: the name of the request stays eleven zero bytes.
RmNothing ==
  \E parent \in Opened :
     DeleteReject(parent, ZeroName) \/ DeleteEntry(parent, ZeroName)

CrashInFormat == pc \in FormatPhase /\ PowerLoss

RmNothingSpec == Init /\ [][Next \/ RmNothing]_vars
TornSpec      == Init /\ [][Next \/ CrashInFormat]_vars

----------------------------------------------------------------------------

(***************************************************************************)
(* fat32.h:243 and :67: delete removes a file or an empty directory, and   *)
(* an entry that is not in use is neither.                                 *)
(***************************************************************************)
DeleteRemovesAnEntry ==
  [][pc = "idle" /\ pc' = "delete_walk" =>
       \E i \in Slot : /\ table[request'.parent][i].used
                       /\ ~ table'[request'.parent][i].used]_vars

(***************************************************************************)
(* fat32.h:174-176: after create_fat32 cluster 1 holds a proper table, so  *)
(* that a mounted file system has its reserved cells and its root.         *)
(***************************************************************************)
MountedHasRoot == pc = "idle" => Reserved(fat)

=============================================================================
