---------------------------- MODULE PagingSafety ----------------------------
(***************************************************************************)
(* What the frame allocator and the page directory must keep true, and the *)
(* invariant that makes it inductive.                                      *)
(***************************************************************************)
EXTENDS Paging

(* The values that each variable of the allocator can take. *)
TypeOK ==
  /\ page_frame_map \in [Frame -> BOOLEAN]
  /\ free_page_frame_count \in Nat
  /\ directory \in [Page -> Entry]
  /\ tlb \in [Page -> Translation \cup {NotCached}]
  /\ pc \in {"boot", "idle", "set_flag", "set_address", "clear", "flush"}
  /\ page \in Page /\ frame \in Frame
  /\ reply \in Replies
  /\ promised \in Nat

(***************************************************************************)
(* The count and the map are two variables that every path of paging.c     *)
(* changes separately: the count is always the number of free frames.      *)
(***************************************************************************)
CountExact == free_page_frame_count = Cardinality(FreeFrames)

Maps(p, f) == directory[p].present /\ directory[p].lower_address = f

(***************************************************************************)
(* Between two calls no two entries of the directory name the same frame.  *)
(* The identity mapping, which names frame 0 a second time, is gone.       *)
(***************************************************************************)
FramesApart ==
  pc = "idle" =>
    \A p, q \in Page, f \in Frame : Maps(p, f) /\ Maps(q, f) => p = q

(***************************************************************************)
(* Between two calls a frame is taken exactly when an entry names it: a    *)
(* mapped frame cannot be handed out again, and a frame that nothing maps  *)
(* is not lost (paging_allocate and paging_free_user_page_frame).          *)
(***************************************************************************)
FramesOwned ==
  pc = "idle" =>
    \A f \in Frame : page_frame_map[f] <=> \E p \in Page : Maps(p, f)

Coherent(p) ==
  tlb[p] # NotCached =>
    directory[p].present /\ tlb[p] = Walked(directory[p])

(***************************************************************************)
(* Between two calls what the processor has kept of an entry is what the   *)
(* entry says: it cannot reach a page that was freed, or that the loader   *)
(* unmapped (flush_single_tlb, and the invlpg of the loader).              *)
(***************************************************************************)
TlbCoherent == pc = "idle" => \A p \in Page : Coherent(p)

(***************************************************************************)
(* When paging_allocate_check has said that there is memory for an amount, *)
(* the calls of paging_allocate_user_page_frame that ask for it find it.   *)
(***************************************************************************)
PromiseKept == promised <= Cardinality(FreeFrames)

(***************************************************************************)
(* kernel.c:113: a page is allocated to give it memory of its own, so the  *)
(* frame the processor reads from its entry is the frame it was given.     *)
(***************************************************************************)
ProcessorReadsFrame ==
  pc = "idle" =>
    \A p \in Page : directory[p].present =>
                      Walked(directory[p]).frame = directory[p].lower_address

----------------------------------------------------------------------------
\* The inductive invariant: the same with a call in progress.

\* The entries that no call in progress is about to change.
Settled ==
  IF pc \in {"boot", "set_flag", "set_address", "clear"}
    THEN Page \ {page} ELSE Page

SettledMaps(f) == \E p \in Settled : Maps(p, f)

\* The frame that Allocate has taken and no entry names yet.
Held(f) == pc \in {"set_flag", "set_address"} /\ f = frame

SettledApart ==
  \A p, q \in Settled, f \in Frame : Maps(p, f) /\ Maps(q, f) => p = q

Owned == \A f \in Frame : page_frame_map[f] <=> Held(f) \/ SettledMaps(f)

HeldApart == \A f \in Frame : Held(f) => ~ SettledMaps(f)

Steps ==
  /\ pc = "boot" => page = 0
  /\ pc = "set_address" => directory[page].present

OthersCoherent == \A p \in Page : pc = "idle" \/ p # page => Coherent(p)

(* The strengthening that the proofs of the four properties above use. *)
PagingInv ==
  /\ TypeOK
  /\ CountExact
  /\ SettledApart
  /\ Owned
  /\ HeldApart
  /\ Steps
  /\ OthersCoherent
  /\ PromiseKept

=============================================================================
