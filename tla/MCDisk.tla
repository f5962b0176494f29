------------------------------- MODULE MCDisk -------------------------------
(***************************************************************************)
(* A disk of few blocks of two words.  The addresses take all four registers. *)
(***************************************************************************)
EXTENDS DiskStore

CONSTANTS w1, w2, w3, w4

MCRequests ==
  { [op |-> "read",  lba |-> 8,  count |-> 2],
    [op |-> "write", lba |-> 8,  count |-> 2, ptr |-> <<w1, w2, w3, w4>>],
    [op |-> "write", lba |-> 9,  count |-> 1, ptr |-> <<w4, w1>>],
    [op |-> "write", lba |-> 28, count |-> 1, ptr |-> <<w3, w2>>] }

=============================================================================
