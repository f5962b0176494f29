---------------------------- MODULE PagingProofs ----------------------------
(***************************************************************************)
(* The invariants of the frame allocator and of the page directory, proved *)
(* for every number of frames, of pages and of bytes in a frame.           *)
(***************************************************************************)
EXTENDS PagingSafety, FiniteSetTheorems, TLAPS

\* The free frames are finitely many, and they may be counted.
LEMMA FreeFinite == IsFiniteSet(FreeFrames) /\ Cardinality(FreeFrames) \in Nat
<1>1. IsFiniteSet(Frame)
  BY PagingAssumption, FS_Interval DEF Frame
<1>2. IsFiniteSet(FreeFrames)
  BY <1>1, FS_Subset DEF FreeFrames
<1> QED
  BY <1>2, FS_CardinalityType

\* At first frame 0 alone is taken (the initialiser at paging.c:25-31).
LEMMA InitCount ==
  ASSUME Init
  PROVE  Cardinality(FreeFrames) = PAGE_FRAME_MAX_COUNT - 1
<1>1. FreeFrames = Frame \ {0}
  BY DEF FreeFrames, Init
<1>2. IsFiniteSet(Frame) /\ Cardinality(Frame) = PAGE_FRAME_MAX_COUNT
  <2>1. Cardinality(0 .. PAGE_FRAME_MAX_COUNT - 1) =
          IF 0 > PAGE_FRAME_MAX_COUNT - 1 THEN 0
          ELSE PAGE_FRAME_MAX_COUNT - 1 - 0 + 1
    BY PagingAssumption, FS_Interval
  <2>2. IsFiniteSet(Frame)
    BY PagingAssumption, FS_Interval DEF Frame
  <2> QED BY <2>1, <2>2, PagingAssumption DEF Frame
<1>3. 0 \in Frame
  BY PagingAssumption DEF Frame
<1> QED
  BY <1>1, <1>2, <1>3, FS_RemoveElement

\* Taking a free frame leaves one frame less.
LEMMA TakeCount ==
  ASSUME page_frame_map \in [Frame -> BOOLEAN],
         NEW f \in FreeFrames,
         page_frame_map' = [page_frame_map EXCEPT ![f] = TRUE]
  PROVE  Cardinality(FreeFrames') = Cardinality(FreeFrames) - 1
<1>1. FreeFrames' = FreeFrames \ {f}
  BY DEF FreeFrames
<1> QED
  BY <1>1, FreeFinite, FS_RemoveElement

\* Giving back a taken frame leaves one frame more.
LEMMA GiveCount ==
  ASSUME page_frame_map \in [Frame -> BOOLEAN],
         NEW f \in Frame, page_frame_map[f],
         page_frame_map' = [page_frame_map EXCEPT ![f] = FALSE]
  PROVE  Cardinality(FreeFrames') = Cardinality(FreeFrames) + 1
<1>1. FreeFrames' = FreeFrames \cup {f}
  BY DEF FreeFrames
<1>2. f \notin FreeFrames
  BY DEF FreeFrames
<1> QED
  BY <1>1, <1>2, FreeFinite, FS_AddElement

\* An amount that fits in n frames asks for no more than n.
LEMMA FramesForFits ==
  ASSUME NEW n \in Nat, NEW amount \in Nat, n * PAGE_FRAME_SIZE >= amount
  PROVE  FramesFor(amount) \in Nat /\ FramesFor(amount) <= n
<1> DEFINE S == PAGE_FRAME_SIZE
           q == FramesFor(amount)
<1>1. S \in Nat /\ S > 0
  BY PagingAssumption
<1>2. q \in Nat /\ q * S <= amount + S - 1
  <2>1. \A x \in Nat : x \div S \in Nat /\ (x \div S) * S <= x
    BY <1>1
  <2> QED BY <2>1, <1>1 DEF FramesFor
<1>3. q * S < (n + 1) * S
  <2>1. (n + 1) * S = n * S + S
    BY <1>1
  <2> QED BY <2>1, <1>1, <1>2
<1>4. q < n + 1
  BY <1>1, <1>2, <1>3
<1> QED
  BY <1>2, <1>4

----------------------------------------------------------------------------

\* Frame 0, the empty table, and the types of what the actions put there.
LEMMA Constants ==
  /\ 0 \in Frame /\ 0 \in Page /\ KernelPage \in Page /\ KernelPage # 0
  /\ Blank \in Entry /\ KernelEntry \in Entry
  /\ \A e \in Entry : Walked(e) \in Translation /\ Walked(e) # NotCached
  /\ PAGE_FRAME_MAX_COUNT \notin Frame
  /\ Amounts \subseteq Nat
<1>1. 0 \in Frame /\ PAGE_FRAME_MAX_COUNT \notin Frame
  BY PagingAssumption DEF Frame
<1>2. 0 \in Page /\ KernelPage \in Page /\ KernelPage # 0
  BY PagingAssumption DEF Page
<1>3. Blank \in Entry /\ KernelEntry \in Entry
  BY <1>1 DEF Blank, KernelEntry, Entry
<1>4. \A e \in Entry : Walked(e) \in Translation /\ Walked(e) # NotCached
  BY <1>1 DEF Entry, Walked, Translation, NotCached
<1>5. Amounts \subseteq Nat
  BY DEF Amounts
<1> QED
  BY <1>1, <1>2, <1>3, <1>4, <1>5

LEMMA PagingInitInv == Init => PagingInv
<1> SUFFICES ASSUME Init PROVE PagingInv
  OBVIOUS
<1> USE Constants
<1>1. TypeOK
  <2>1. page_frame_map \in [Frame -> BOOLEAN]
    BY DEF Init
  <2>2. directory \in [Page -> Entry]
    BY DEF Init
  <2>3. tlb \in [Page -> Translation \cup {NotCached}]
    BY DEF Init
  <2> QED BY <2>1, <2>2, <2>3, PagingAssumption DEF Init, TypeOK, Replies
<1>2. CountExact /\ PromiseKept
  BY InitCount, PagingAssumption DEF Init, CountExact, PromiseKept
<1>3. \A p \in Page \ {0}, f \in Frame :
        Maps(p, f) <=> p = KernelPage /\ f = 0
  BY DEF Init, Maps, KernelEntry, Blank
<1>4. Settled = Page \ {0}
  BY DEF Init, Settled
<1>5. SettledApart
  BY <1>3, <1>4 DEF SettledApart
<1>6. Owned /\ HeldApart
  BY <1>3, <1>4 DEF Owned, HeldApart, Held, SettledMaps, Init
<1>7. Steps /\ OthersCoherent
  BY DEF Steps, OthersCoherent, Coherent, Init
<1> QED
  BY <1>1, <1>2, <1>5, <1>6, <1>7 DEF PagingInv

\* The free frames are those of the map.
LEMMA SameFrames ==
  ASSUME page_frame_map' = page_frame_map
  PROVE  FreeFrames' = FreeFrames
BY DEF FreeFrames

\* The processor changes what it keeps, never what is kept in memory.
LEMMA TlbStep ==
  ASSUME PagingInv, NEW p \in Page,
         UNCHANGED <<manager, directory, pc, call, reply, promised>>,
         \/ tlb' = [tlb EXCEPT ![p] = NotCached]
         \/ /\ tlb' = [tlb EXCEPT ![p] = Walked(directory[p])]
            /\ directory[p].present
  PROVE  PagingInv'
<1> USE Constants DEF PagingInv
<1>1. TypeOK'
  BY DEF TypeOK, manager, call
<1>2. CountExact' /\ PromiseKept'
  BY SameFrames DEF CountExact, PromiseKept, manager
<1>3. Settled' = Settled /\ \A q, f : Maps(q, f)' <=> Maps(q, f)
  BY DEF Settled, Maps, call
<1>4. SettledApart' /\ Owned' /\ HeldApart' /\ Steps'
  BY <1>3 DEF SettledApart, Owned, HeldApart, Held, SettledMaps, Steps,
              manager, call
<1>5. OthersCoherent'
  BY DEF OthersCoherent, Coherent, TypeOK, call
<1> QED
  BY <1>1, <1>2, <1>4, <1>5

\* A call that answers without a store.
LEMMA AnswerStep ==
  ASSUME PagingInv, UNCHANGED <<manager, directory, tlb, pc, call>>,
         reply' \in Replies, promised' \in Nat,
         promised' <= Cardinality(FreeFrames)
  PROVE  PagingInv'
<1> USE DEF PagingInv
<1>1. TypeOK'
  BY DEF TypeOK, manager, call
<1>2. CountExact' /\ PromiseKept'
  BY SameFrames DEF CountExact, PromiseKept, manager
<1>3. Settled' = Settled /\ \A q, f : Maps(q, f)' <=> Maps(q, f)
  BY DEF Settled, Maps, call
<1>4. SettledApart' /\ Owned' /\ HeldApart' /\ Steps'
  BY <1>3 DEF SettledApart, Owned, HeldApart, Held, SettledMaps, Steps,
              manager, call
<1>5. OthersCoherent'
  BY DEF OthersCoherent, Coherent, call
<1> QED
  BY <1>1, <1>2, <1>4, <1>5

----------------------------------------------------------------------------
\* The steps of the calls that change the map or the directory.

\* The loader's store (kernel-entrypoint.s:50).
LEMMA DeleteIdentityStep ==
  ASSUME PagingInv, DeleteIdentity
  PROVE  PagingInv'
<1> USE Constants DEF PagingInv, DeleteIdentity
<1>1. TypeOK'
  BY DEF TypeOK, manager, call
<1>2. CountExact' /\ PromiseKept'
  BY SameFrames DEF CountExact, PromiseKept, manager
<1>3. page = 0 /\ page' = 0 /\ ~ directory'[0].present
  BY DEF Steps, call, TypeOK, Blank
<1>4. \A p \in Page \ {0} : \A f : Maps(p, f)' <=> Maps(p, f)
  BY DEF Maps, TypeOK
<1>5. Settled = Page \ {0} /\ Settled' = Page
  BY <1>3 DEF Settled
<1>6. \A f : ~ Maps(0, f)'
  BY <1>3 DEF Maps
<1>7. SettledApart'
  BY <1>4, <1>5, <1>6 DEF SettledApart
<1>8. Owned' /\ HeldApart' /\ Steps'
  BY <1>4, <1>5, <1>6 DEF Owned, HeldApart, Held, SettledMaps, Steps, manager
<1>9. OthersCoherent'
  BY <1>3 DEF OthersCoherent, Coherent, TypeOK
<1> QED
  BY <1>1, <1>2, <1>7, <1>8, <1>9

\* The flush ends a call: its page is settled, and nothing is kept of it.
LEMMA FlushStep ==
  ASSUME PagingInv, FlushSingleTlb
  PROVE  PagingInv'
<1> USE Constants DEF PagingInv, FlushSingleTlb
<1>1. TypeOK'
  BY DEF TypeOK, manager, call
<1>2. CountExact' /\ PromiseKept'
  BY SameFrames DEF CountExact, PromiseKept, manager
<1>3. Settled' = Settled /\ \A q, f : Maps(q, f)' <=> Maps(q, f)
  BY DEF Settled, Maps, call
<1>4. SettledApart' /\ Owned' /\ HeldApart' /\ Steps'
  BY <1>3 DEF SettledApart, Owned, HeldApart, Held, SettledMaps, Steps,
              manager, call
<1>5. OthersCoherent'
  BY DEF OthersCoherent, Coherent, TypeOK, call
<1> QED
  BY <1>1, <1>2, <1>4, <1>5

\* Taking a frame: it was in no entry, and its page was not mapped.
LEMMA AllocateStep ==
  ASSUME PagingInv, NEW p \in Page, Unmapped(p), Allocate(p)
  PROVE  PagingInv'
<1> USE Constants DEF PagingInv
<1>1. PICK f \in FreeFrames :
        page_frame_map' = [page_frame_map EXCEPT ![f] = TRUE] /\ frame' = f
  BY DEF Allocate, FirstFree
<1>2. f \in Frame /\ ~ page_frame_map[f]
  BY DEF FreeFrames
<1>3. Cardinality(FreeFrames') = Cardinality(FreeFrames) - 1
  BY <1>1, TakeCount DEF TypeOK
<1>4. Cardinality(FreeFrames) \in Nat /\ Cardinality(FreeFrames') \in Nat
  <2>1. Cardinality(FreeFrames) # 0
    BY FreeFinite, FS_EmptySet
  <2> QED BY <2>1, <1>3, FreeFinite
<1>5. CountExact' /\ PromiseKept' /\ promised' \in Nat
      /\ free_page_frame_count' \in Nat
  BY <1>3, <1>4 DEF CountExact, PromiseKept, Allocate, TypeOK
<1>6. TypeOK'
  <2>1. page_frame_map' \in [Frame -> BOOLEAN]
    BY <1>1 DEF TypeOK
  <2> QED BY <2>1, <1>1, <1>2, <1>5 DEF TypeOK, Allocate, Replies
<1>7. Settled = Page /\ Settled' = Page \ {p}
  BY DEF Settled, Allocate
<1>8. \A q, g : Maps(q, g)' <=> Maps(q, g)
  BY DEF Maps, Allocate
<1>9. \A g : ~ Maps(p, g)
  BY DEF Maps, Unmapped
<1>10. SettledApart'
  BY <1>7, <1>8 DEF SettledApart
<1>11. \A g \in Frame : SettledMaps(g)' <=> SettledMaps(g)
  BY <1>7, <1>8, <1>9 DEF SettledMaps
<1>12. \A g \in Frame : Held(g)' <=> g = f
  BY <1>1 DEF Held, Allocate
<1>13. \A g \in Frame : page_frame_map[g] <=> SettledMaps(g)
  BY DEF Owned, Held, Allocate
<1>14. Owned' /\ HeldApart'
  BY <1>1, <1>2, <1>11, <1>12, <1>13 DEF Owned, HeldApart, TypeOK
<1>15. Steps' /\ OthersCoherent'
  BY DEF Steps, OthersCoherent, Coherent, Allocate
<1> QED
  BY <1>5, <1>6, <1>10, <1>14, <1>15

\* The first store: the page is present, and still names its old frame.
LEMMA SetFlagStep ==
  ASSUME PagingInv, SetFlag
  PROVE  PagingInv'
<1> USE Constants DEF PagingInv, SetFlag
<1>1. TypeOK'
  <2>1. directory' \in [Page -> Entry]
    BY DEF TypeOK, Entry
  <2> QED BY <2>1 DEF TypeOK, manager, call
<1>2. CountExact' /\ PromiseKept'
  BY SameFrames DEF CountExact, PromiseKept, manager
<1>3. page' = page /\ frame' = frame /\ page \in Page
  BY DEF TypeOK, call
<1>4. \A q \in Page \ {page} : directory'[q] = directory[q]
  BY DEF TypeOK
<1>5. \A q \in Page \ {page} : \A f : Maps(q, f)' <=> Maps(q, f)
  BY <1>4 DEF Maps
<1>6. Settled = Page \ {page} /\ Settled' = Page \ {page}
  BY <1>3 DEF Settled
<1>7. SettledApart'
  BY <1>5, <1>6 DEF SettledApart
<1>8. Owned' /\ HeldApart'
  BY <1>3, <1>5, <1>6 DEF Owned, HeldApart, Held, SettledMaps, manager
<1>9. Steps'
  BY <1>3 DEF Steps, TypeOK, Entry
<1>10. OthersCoherent'
  BY <1>3, <1>4 DEF OthersCoherent, Coherent
<1> QED
  BY <1>1, <1>2, <1>7, <1>8, <1>9, <1>10

\* The second store: the page is settled, with the frame that was held.
LEMMA SetAddressStep ==
  ASSUME PagingInv, SetAddress
  PROVE  PagingInv'
<1> USE Constants DEF PagingInv, SetAddress
<1>1. TypeOK'
  <2>1. directory' \in [Page -> Entry]
    BY DEF TypeOK, Entry
  <2> QED BY <2>1 DEF TypeOK, manager, call
<1>2. CountExact' /\ PromiseKept'
  BY SameFrames DEF CountExact, PromiseKept, manager
<1>3. page' = page /\ frame' = frame /\ page \in Page /\ frame \in Frame
  BY DEF TypeOK, call
<1>4. \A q \in Page \ {page} : directory'[q] = directory[q]
  BY DEF TypeOK
<1>5. \A q \in Page \ {page} : \A f : Maps(q, f)' <=> Maps(q, f)
  BY <1>4 DEF Maps
<1>6. \A f : Maps(page, f)' <=> f = frame
  BY <1>3 DEF Maps, Steps, TypeOK, Entry
<1>7. Settled = Page \ {page} /\ Settled' = Page
  BY <1>3 DEF Settled
<1>8. Held(frame) /\ ~ SettledMaps(frame)
  BY <1>3 DEF Held, HeldApart
<1>9. SettledApart'
  BY <1>3, <1>5, <1>6, <1>7, <1>8 DEF SettledApart, SettledMaps
<1>10. \A f \in Frame : SettledMaps(f)' <=> SettledMaps(f) \/ f = frame
  BY <1>3, <1>5, <1>6, <1>7 DEF SettledMaps
<1>11. Owned' /\ HeldApart'
  BY <1>10 DEF Owned, HeldApart, Held, manager
<1>12. Steps'
  BY DEF Steps
<1>13. OthersCoherent'
  BY <1>3, <1>4 DEF OthersCoherent, Coherent
<1> QED
  BY <1>1, <1>2, <1>9, <1>11, <1>12, <1>13

\* Giving a frame back: no other entry names it.
LEMMA FreeStep ==
  ASSUME PagingInv, NEW p \in Page, Free(p)
  PROVE  PagingInv'
<1> USE Constants DEF PagingInv
<1> DEFINE f == directory[p].lower_address
<1>1. f \in Frame /\ page_frame_map[f] /\ Maps(p, f)
  BY DEF Free, CanFree, Maps, TypeOK, Entry
<1>2. page_frame_map' = [page_frame_map EXCEPT ![f] = FALSE]
      /\ page' = p /\ frame' = f
  BY DEF Free
<1>3. Cardinality(FreeFrames') = Cardinality(FreeFrames) + 1
  BY <1>1, <1>2, GiveCount DEF TypeOK
<1>4. CountExact' /\ PromiseKept' /\ free_page_frame_count' \in Nat
  BY <1>3, FreeFinite DEF CountExact, PromiseKept, Free, TypeOK
<1>5. TypeOK'
  <2>1. page_frame_map' \in [Frame -> BOOLEAN]
    BY <1>2 DEF TypeOK
  <2> QED BY <2>1, <1>1, <1>2, <1>4 DEF TypeOK, Free, Replies
<1>6. Settled = Page /\ Settled' = Page \ {p}
  BY DEF Settled, Free
<1>7. \A q, g : Maps(q, g)' <=> Maps(q, g)
  BY DEF Maps, Free
<1>8. \A q \in Page \ {p} : ~ Maps(q, f)
  BY <1>1, <1>6 DEF SettledApart
<1>9. SettledApart'
  BY <1>6, <1>7 DEF SettledApart
<1>10. \A g \in Frame : SettledMaps(g)' <=> SettledMaps(g) /\ g # f
  BY <1>1, <1>6, <1>7, <1>8 DEF SettledMaps, Maps
<1>11. \A g \in Frame : page_frame_map[g] <=> SettledMaps(g)
  BY DEF Owned, Held, Free
<1>12. \A g : ~ Held(g)'
  BY DEF Held, Free
<1>13. Owned' /\ HeldApart'
  BY <1>1, <1>2, <1>10, <1>11, <1>12 DEF Owned, HeldApart, TypeOK
<1>14. Steps' /\ OthersCoherent'
  BY DEF Steps, OthersCoherent, Coherent, Free
<1> QED
  BY <1>4, <1>5, <1>9, <1>13, <1>14

\* The entry of a freed page is blank, and so names no frame.
LEMMA ClearStep ==
  ASSUME PagingInv, ClearEntry
  PROVE  PagingInv'
<1> USE Constants DEF PagingInv, ClearEntry
<1>1. TypeOK'
  BY DEF TypeOK, manager, call
<1>2. CountExact' /\ PromiseKept'
  BY SameFrames DEF CountExact, PromiseKept, manager
<1>3. page' = page /\ page \in Page /\ ~ directory'[page].present
  BY DEF TypeOK, call, Blank
<1>4. \A q \in Page \ {page} : directory'[q] = directory[q]
  BY DEF TypeOK
<1>5. \A q \in Page \ {page} : \A f : Maps(q, f)' <=> Maps(q, f)
  BY <1>4 DEF Maps
<1>6. \A f : ~ Maps(page, f)'
  BY <1>3 DEF Maps
<1>7. Settled = Page \ {page} /\ Settled' = Page
  BY <1>3 DEF Settled
<1>8. SettledApart'
  BY <1>3, <1>5, <1>6, <1>7 DEF SettledApart
<1>9. Owned' /\ HeldApart' /\ Steps'
  BY <1>3, <1>5, <1>6, <1>7
     DEF Owned, HeldApart, Held, SettledMaps, Steps, manager
<1>10. OthersCoherent'
  BY <1>3, <1>4 DEF OthersCoherent, Coherent
<1> QED
  BY <1>1, <1>2, <1>8, <1>9, <1>10

\* A check that says yes promises no more frames than are free.
LEMMA CheckStep ==
  ASSUME PagingInv, NEW amount \in Amounts, AllocateCheck(amount)
  PROVE  PagingInv'
<1>1. amount \in Nat /\ free_page_frame_count \in Nat
  BY Constants DEF PagingInv, TypeOK
<1>2. /\ free_page_frame_count = Cardinality(FreeFrames)
      /\ Cardinality(FreeFrames) \in Nat
  BY FreeFinite DEF PagingInv, CountExact
<1>3. promised' \in Nat /\ promised' <= Cardinality(FreeFrames)
  <2>1. CASE free_page_frame_count * PAGE_FRAME_SIZE >= amount
    <3>1. promised' = FramesFor(amount)
      BY <2>1 DEF AllocateCheck
    <3> QED BY <2>1, <3>1, <1>1, <1>2, FramesForFits
  <2>2. CASE ~ (free_page_frame_count * PAGE_FRAME_SIZE >= amount)
    <3>1. promised' = 0
      BY <2>2 DEF AllocateCheck
    <3> QED BY <3>1, <1>2
  <2> QED BY <2>1, <2>2
<1>4. reply' \in Replies
  BY DEF AllocateCheck, Replies
<1>5. UNCHANGED <<manager, directory, tlb, pc, call>>
  BY DEF AllocateCheck
<1> QED
  BY <1>3, <1>4, <1>5, AnswerStep

LEMMA PagingStep == PagingInv /\ [Next]_vars => PagingInv'
<1> SUFFICES ASSUME PagingInv, [Next]_vars PROVE PagingInv'
  OBVIOUS
<1>1. promised \in Nat /\ promised <= Cardinality(FreeFrames)
  BY DEF PagingInv, TypeOK, PromiseKept
<1>2. CASE DeleteIdentity
  BY <1>2, DeleteIdentityStep
<1>3. CASE FlushSingleTlb
  BY <1>3, FlushStep
<1>4. CASE SetFlag
  BY <1>4, SetFlagStep
<1>5. CASE SetAddress
  BY <1>5, SetAddressStep
<1>6. CASE ClearEntry
  BY <1>6, ClearStep
<1>7. CASE \E amount \in Amounts : AllocateCheck(amount)
  BY <1>7, CheckStep
<1>8. CASE AllocateFails
  <2>1. reply' \in Replies /\ promised' = promised
    BY <1>8 DEF AllocateFails, Replies
  <2> QED BY <1>1, <1>8, <2>1, AnswerStep DEF AllocateFails
<1>9. ASSUME NEW p \in Page, Translate(p) \/ Evict(p)
      PROVE  PagingInv'
  <2>1. UNCHANGED <<manager, directory, pc, call, reply, promised>>
    BY <1>9 DEF Translate, Evict
  <2>2. \/ tlb' = [tlb EXCEPT ![p] = NotCached]
        \/ /\ tlb' = [tlb EXCEPT ![p] = Walked(directory[p])]
           /\ directory[p].present
    BY <1>9 DEF Translate, Evict
  <2> QED BY <2>1, <2>2, TlbStep
<1>10. ASSUME NEW p \in Page, Unmapped(p), Allocate(p)
       PROVE  PagingInv'
  BY <1>10, AllocateStep
<1>11. ASSUME NEW p \in Page, Free(p)
       PROVE  PagingInv'
  BY <1>11, FreeStep
<1>12. ASSUME NEW p \in Page, FreeFails(p)
       PROVE  PagingInv'
  <2>1. reply' \in Replies /\ promised' = promised
    BY <1>12 DEF FreeFails, Replies
  <2> QED BY <1>1, <1>12, <2>1, AnswerStep DEF FreeFails
<1>13. CASE UNCHANGED vars
  <2>1. reply' \in Replies /\ promised' = promised
    BY <1>13 DEF vars, PagingInv, TypeOK
  <2> QED BY <1>1, <1>13, <2>1, AnswerStep DEF vars
<1> QED
  BY <1>2, <1>3, <1>4, <1>5, <1>6, <1>7, <1>8, <1>9, <1>10, <1>11, <1>12,
     <1>13 DEF Next

(***************************************************************************)
(* The allocator of paging.c keeps its inductive invariant, whatever the   *)
(* processor keeps of the directory and whenever it reads it.              *)
(***************************************************************************)
THEOREM PagingSafe == Spec => []PagingInv
BY PagingInitInv, PagingStep, PTL DEF Spec

(***************************************************************************)
(* The count of free frames never falls below zero, and every entry of the *)
(* page directory names a frame of the machine (the assignments of         *)
(* paging_allocate_user_page_frame and paging_free_user_page_frame).       *)
(***************************************************************************)
THEOREM PagingTypes == Spec => []TypeOK
BY PagingSafe, PTL DEF PagingInv

(* free_page_frame_count is always the number of free frames. *)
THEOREM CountStaysExact == Spec => []CountExact
BY PagingSafe, PTL DEF PagingInv

(***************************************************************************)
(* Between two calls every mapped frame belongs to one entry, and a frame  *)
(* is taken exactly when an entry names it.                                *)
(***************************************************************************)
THEOREM FramesStayOwned == Spec => [](FramesApart /\ FramesOwned)
<1>1. PagingInv => FramesApart /\ FramesOwned
  BY DEF PagingInv, FramesApart, FramesOwned, SettledApart, Owned, Settled,
         Held, SettledMaps
<1> QED BY <1>1, PagingSafe, PTL

(* Between two calls the processor keeps nothing that is out of date. *)
THEOREM TlbStaysCoherent == Spec => []TlbCoherent
<1>1. PagingInv => TlbCoherent
  BY DEF PagingInv, TlbCoherent, OthersCoherent
<1> QED BY <1>1, PagingSafe, PTL

(* What paging_allocate_check has promised, the allocator can give. *)
THEOREM PromisesStayKept == Spec => []PromiseKept
BY PagingSafe, PTL DEF PagingInv

=============================================================================
