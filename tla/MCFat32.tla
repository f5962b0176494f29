------------------------------ MODULE MCFat32 ------------------------------
(***************************************************************************)
(* Fat32 on small disks.                                                   *)
(***************************************************************************)
EXTENDS Fat32Store, Fat32Unvetted, Fat32Inductive, TLC

CONSTANTS a, b, root, zero, d1, d2, none

MCName   == {a, b, root}
OneDatum == {d1}
TwoData  == {d1, d2}

Symmetry == Permutations({a, b}) \cup Permutations({d1, d2})

\* What an idle driver has just answered decides nothing of what it does next.
DriverView ==
  <<disk, fat, pc, locals, IF pc = "idle" THEN << >> ELSE out, crashes>>

=============================================================================
