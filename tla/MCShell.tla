------------------------------ MODULE MCShell ------------------------------
(***************************************************************************)
(* The machine with its shell on a small disk.                             *)
(***************************************************************************)
EXTENDS ShellSafety

CONSTANTS a, root, zero, sh, ikanaide, copy, program, hallo, junk, none

MCName  == {a, root, sh, ikanaide, copy}
MCData  == {program, hallo, junk}
MCTyped  == {a, copy}
AllTyped == {a, root, copy}

\* At the prompt the last result is forgotten.
ShellView ==
  <<disk, fat, pc, locals, IF step = "prompt" THEN NoReply ELSE reply,
    IF step = "prompt" THEN << >> ELSE out, crashes, kernel, shell>>

=============================================================================
