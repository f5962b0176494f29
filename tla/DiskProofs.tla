----------------------------- MODULE DiskProofs -----------------------------
(***************************************************************************)
(* The processor and the drive stay in step, proved for every size of      *)
(* drive, of block and of register, and for every call.                    *)
(***************************************************************************)
EXTENDS DiskStore, SequenceTheorems, TLAPS

\* Division with remainder.
LEMMA DivMod ==
  ASSUME NEW n \in Nat, NEW b \in Nat \ {0}
  PROVE  /\ n \div b \in Nat /\ n % b \in Nat /\ n % b < b
         /\ n = b * (n \div b) + (n % b)
<1>1. n % b \in 0 .. b - 1
  OBVIOUS
<1>2. n \div b \in Int
  OBVIOUS
<1>3. n = b * (n \div b) + (n % b)
  OBVIOUS
<1>4. n \div b \in Nat
  <2> DEFINE q == n \div b
  <2>1. q \in Int /\ n = b * q + (n % b) /\ n % b < b
    BY <1>1, <1>2, <1>3
  <2> HIDE DEF q
  <2>2. CASE q < 0
    <3>1. b * q <= - b
      BY <2>1, <2>2
    <3>2. b * q \in Int /\ n % b \in Int
      BY <1>1, <2>1
    <3> QED BY <2>1, <3>1, <3>2
  <2> QED BY <2>1, <2>2 DEF q
<1> QED BY <1>1, <1>2, <1>3, <1>4

\* A quotient is smaller than what the dividend is a product of.
LEMMA DivLess ==
  ASSUME NEW n \in Nat, NEW b \in Nat \ {0}, NEW m \in Nat, n < b * m
  PROVE  n \div b < m
<1> DEFINE q == n \div b
<1>1. q \in Nat /\ b * q <= n
  BY DivMod
<1> HIDE DEF q
<1>2. CASE q >= m
  <2>1. b * q >= b * m
    BY <1>1, <1>2
  <2>2. b * q \in Nat /\ b * m \in Nat
    BY <1>1
  <2> QED BY <1>1, <2>1, <2>2
<1> QED BY <1>1, <1>2 DEF q

\* The four parts of an address, put together again, are the address.
LEMMA AddressParts ==
  ASSUME NEW n \in Block
  PROVE  LET d1 == n \div BYTE
             d2 == d1 \div BYTE
             d3 == d2 \div BYTE
         IN  n = (n % BYTE) + BYTE * ((d1 % BYTE)
                   + BYTE * ((d2 % BYTE) + BYTE * (d3 % NIBBLE)))
<1> DEFINE d1 == n \div BYTE
           d2 == d1 \div BYTE
           d3 == d2 \div BYTE
<1>1. /\ BYTE \in Nat \ {0} /\ NIBBLE \in Nat \ {0}
      /\ n \in Nat /\ n < BYTE * BYTE * BYTE * NIBBLE
  BY DiskAssumption DEF Block
<1>2. d1 \in Nat /\ n = BYTE * d1 + (n % BYTE)
  BY <1>1, DivMod
<1>3. d2 \in Nat /\ d1 = BYTE * d2 + (d1 % BYTE)
  BY <1>1, <1>2, DivMod
<1>4. d3 \in Nat /\ d2 = BYTE * d3 + (d2 % BYTE)
  BY <1>1, <1>3, DivMod
<1>5. d3 < NIBBLE
  <2>1. BYTE * BYTE * NIBBLE \in Nat /\ BYTE * NIBBLE \in Nat
    BY <1>1
  <2>2. /\ BYTE * BYTE * BYTE * NIBBLE = BYTE * (BYTE * BYTE * NIBBLE)
        /\ BYTE * BYTE * NIBBLE = BYTE * (BYTE * NIBBLE)
    BY <1>1
  <2>3. d1 < BYTE * BYTE * NIBBLE
    BY <1>1, <2>1, <2>2, DivLess
  <2>4. d2 < BYTE * NIBBLE
    BY <1>1, <1>2, <2>1, <2>2, <2>3, DivLess
  <2> QED BY <1>1, <1>3, <2>4, DivLess
<1>6. d3 % NIBBLE = d3
  BY <1>1, <1>4, <1>5
<1> HIDE DEF d1, d2, d3
<1>7. n = (n % BYTE) + BYTE * ((d1 % BYTE) + BYTE * ((d2 % BYTE) + BYTE * (d3 % NIBBLE)))
  <2>1. (n % BYTE) + BYTE * d1 = n /\ (d1 % BYTE) + BYTE * d2 = d1
        /\ (d2 % BYTE) + BYTE * d3 = d2
    <3>1. /\ n % BYTE \in Nat /\ d1 % BYTE \in Nat /\ d2 % BYTE \in Nat
          /\ BYTE * d1 \in Nat /\ BYTE * d2 \in Nat /\ BYTE * d3 \in Nat
      BY <1>1, <1>2, <1>3, <1>4, DivMod
    <3> QED BY <1>2, <1>3, <1>4, <3>1
  <2> QED BY <1>6, <2>1
<1> QED BY <1>7 DEF d1, d2, d3

----------------------------------------------------------------------------

\* The call in progress: its blocks are on the drive.
LEMMA RequestFacts ==
  ASSUME ProtocolInv, pc # "idle"
  PROVE  /\ request \in Requests /\ request # NoRequest
         /\ request.op \in {"read", "write"}
         /\ request.lba \in Block /\ request.lba \in Nat
         /\ request.count \in 1 .. BYTE - 1 /\ request.count \in Nat
         /\ i \in Nat /\ i < request.count
         /\ request.lba + i \in Block
<1>1. request \in Requests /\ request # NoRequest /\ i \in Nat /\ i < request.count
  BY DEF ProtocolInv, TypeOK
<1>2. /\ request.op \in {"read", "write"} /\ request.lba \in Block
      /\ request.count \in 1 .. BYTE - 1
      /\ request.lba + request.count <= BLOCK_COUNT
  BY <1>1, DiskAssumption
<1>3. BYTE \in Nat /\ BLOCK_COUNT \in Nat
  BY DiskAssumption
<1> QED BY <1>1, <1>2, <1>3 DEF Block

\* At first, the drive spins up and nothing is called.
LEMMA StartsInStep == Init => ProtocolInv
<1> SUFFICES ASSUME Init PROVE ProtocolInv
  OBVIOUS
<1>1. TypeOK
  <2>1. HALF_BLOCK_SIZE \in Nat \ {0}
    BY DiskAssumption
  <2>2. 0 \in Offset /\ 0 \in 0 .. HALF_BLOCK_SIZE
    BY <2>1 DEF Offset
  <2>3. [o \in Offset |-> Junk] \in Datum
    BY DEF Datum
  <2>4. medium \in [Block -> Datum] /\ register \in [Port -> Nat]
    BY <2>3 DEF Init
  <2>5. memory \in Seq(Word \cup {Junk})
    BY DEF Init
  <2> QED BY <2>2, <2>3, <2>4, <2>5 DEF Init, TypeOK
<1> QED BY <1>1 DEF Init, ProtocolInv, Finishing, Port, After

\* The drive.
LEMMA SpinUpInStep == ProtocolInv /\ SpinUp => ProtocolInv'
<1> SUFFICES ASSUME ProtocolInv, SpinUp PROVE ProtocolInv'
  OBVIOUS
<1> USE DEF ProtocolInv, SpinUp, host, AtBlock, Working, Asking, Behind,
            Finishing, Port, After
<1>1. pc \in {"idle", "first_wait"}
  BY RequestFacts DEF TypeOK
<1>2. TypeOK'
  BY DEF TypeOK
<1> QED BY <1>1, <1>2

LEMMA FetchInStep == ProtocolInv /\ Fetch => ProtocolInv'
<1> SUFFICES ASSUME ProtocolInv, Fetch PROVE ProtocolInv'
  OBVIOUS
<1> USE DEF ProtocolInv, Fetch, host, AtBlock, Working, Asking, Behind,
            Finishing, Port, After
<1>1. pc = "block_busy" /\ AtBlock
  BY DEF TypeOK
<1>2. lba \in Block
  BY <1>1, RequestFacts
<1>3. TypeOK'
  <2>1. buffer' \in Datum
    BY <1>2 DEF TypeOK
  <2>2. at' \in 0 .. HALF_BLOCK_SIZE
    BY DiskAssumption
  <2> QED BY <2>1, <2>2 DEF TypeOK
<1> QED BY <1>1, <1>3

LEMMA AskForDataInStep == ProtocolInv /\ AskForData => ProtocolInv'
<1> SUFFICES ASSUME ProtocolInv, AskForData PROVE ProtocolInv'
  OBVIOUS
<1> USE DEF ProtocolInv, AskForData, host, AtBlock, Working, Asking, Behind,
            Finishing, Port, After
<1>1. HALF_BLOCK_SIZE # 0
  BY DiskAssumption
<1>2. pc = "block_busy" /\ AtBlock
  BY <1>1 DEF TypeOK
<1>3. TypeOK'
  BY DEF TypeOK
<1> QED BY <1>2, <1>3

\* The block that the processor has left reaches the medium.
LEMMA CommitInStep == ProtocolInv /\ Commit => ProtocolInv'
<1> SUFFICES ASSUME ProtocolInv, Commit PROVE ProtocolInv'
  OBVIOUS
<1> USE DEF ProtocolInv, Commit, host
<1>1. HALF_BLOCK_SIZE \in Nat \ {0}
  BY DiskAssumption
<1>2. \/ pc \in {"idle", "first_wait"} /\ left = 1
      \/ pc = "block_busy" /\ Behind
  BY <1>1 DEF TypeOK, Port, After, Finishing, AtBlock, Working, Asking, Behind
<1>3. left \in Nat /\ lba \in Nat /\ left >= 1
  <2>1. left \in Nat /\ lba \in Nat
    BY DEF TypeOK
  <2>2. CASE pc = "block_busy" /\ Behind
    BY <2>2, RequestFacts DEF Behind
  <2> QED BY <1>2, <2>1, <2>2
<1>4. TypeOK'
  <2>1. medium' \in [Block -> Datum]
    BY DEF TypeOK
  <2>2. at' \in 0 .. HALF_BLOCK_SIZE /\ left' \in Nat /\ lba' \in Nat
    BY <1>1, <1>3
  <2> QED BY <2>1, <2>2 DEF TypeOK
<1>5. CASE pc \in {"idle", "first_wait"} /\ left = 1
  BY <1>4, <1>5 DEF Finishing, Port, After
<1>6. CASE pc = "block_busy" /\ Behind
  <2>1. left > 1
    BY <1>6, RequestFacts DEF Behind
  <2>2. /\ request \in Requests /\ request' = request /\ i' = i
        /\ request.lba \in Nat /\ request.count \in Nat /\ i \in Nat
    BY <1>6, RequestFacts
  <2>3. lba' = request.lba + i /\ left' = request.count - i
    BY <1>6, <2>2 DEF Behind
  <2>4. AtBlock' /\ Working'
    BY <1>6, <2>1, <2>2, <2>3 DEF Behind, AtBlock, Working
  <2> QED BY <1>4, <1>6, <2>4 DEF Port, After
<1> QED BY <1>2, <1>5, <1>6

----------------------------------------------------------------------------

\* The calls, and the accesses up to the command.
LEMMA CallInStep ==
  ASSUME ProtocolInv, NEW r \in Requests, Call(r)
  PROVE  ProtocolInv'
<1>1. /\ r.op \in {"read", "write"} /\ r.count \in 1 .. BYTE - 1
      /\ BYTE \in Nat /\ HALF_BLOCK_SIZE \in Nat \ {0}
  BY DiskAssumption
<1>2. r # NoRequest
  BY <1>1 DEF NoRequest
<1>3. TypeOK'
  <2>1. memory' \in Seq(Word \cup {Junk})
    <3>1. r.count * HALF_BLOCK_SIZE \in Nat
      BY <1>1
    <3>2. Junked(r.count * HALF_BLOCK_SIZE) \in Seq(Word \cup {Junk})
      BY <3>1 DEF Junked
    <3> QED BY <3>2 DEF Call
  <2>2. j' \in Offset
    BY <1>1 DEF Call, Offset
  <2> QED BY <2>1, <2>2 DEF ProtocolInv, TypeOK, Call, drive
<1>4. 0 < r.count
  BY <1>1
<1> QED BY <1>2, <1>3, <1>4 DEF ProtocolInv, Call, drive, Finishing, Port, After

LEMMA BusyWaitInStep == ProtocolInv /\ BusyWait => ProtocolInv'
<1> SUFFICES ASSUME ProtocolInv, BusyWait PROVE ProtocolInv'
  OBVIOUS
<1>1. TypeOK'
  BY DEF ProtocolInv, TypeOK, BusyWait, drive, Port, After
<1>2. ~ busy /\ ~ drq /\ command = "none"
  BY DEF ProtocolInv, TypeOK, BusyWait, Finishing
<1> QED BY <1>1, <1>2 DEF ProtocolInv, BusyWait, drive, Port, After, Written

LEMMA OutRegisterInStep == ProtocolInv /\ OutRegister => ProtocolInv'
<1> SUFFICES ASSUME ProtocolInv, OutRegister PROVE ProtocolInv'
  OBVIOUS
<1>1. /\ pc \in Port /\ ~ busy /\ pc' = After[pc]
      /\ register' = [register EXCEPT ![pc] = Value[pc]]
      /\ Value' = Value
  BY DEF ProtocolInv, OutRegister, Value, Shifted
<1>2. pc' \in Port \cup {"command"} /\ Written[pc'] = Written[pc] \cup {pc}
  BY <1>1 DEF Port, After, Written
<1>3. register \in [Port -> Nat]
  BY DEF ProtocolInv, TypeOK
<1>4. \A p \in Port : Value[p] \in Nat
  <2>1. /\ request.lba \in Nat /\ request.count \in Nat
        /\ BYTE \in Nat \ {0} /\ NIBBLE \in Nat \ {0}
    BY <1>1, RequestFacts, DiskAssumption DEF Port, After
  <2>2. Shifted(0) \in Nat /\ Shifted(1) \in Nat
    BY <2>1, DivMod DEF Shifted
  <2>3. Shifted(2) \in Nat
    BY <2>1, <2>2, DivMod DEF Shifted
  <2>4. Shifted(3) \in Nat
    BY <2>1, <2>3, DivMod DEF Shifted
  <2>5. /\ Shifted(3) % NIBBLE \in Nat /\ request.count % BYTE \in Nat
        /\ Shifted(0) % BYTE \in Nat /\ Shifted(1) % BYTE \in Nat
        /\ Shifted(2) % BYTE \in Nat
    BY <2>1, <2>2, <2>3, <2>4, DivMod
  <2> QED BY <2>5 DEF Value, Port, After
<1>5. register' \in [Port -> Nat]
  BY <1>1, <1>3, <1>4
<1>6. TypeOK'
  BY <1>2, <1>5 DEF ProtocolInv, TypeOK, OutRegister, drive
<1>7. \A p \in Written'[pc'] : register'[p] = Value'[p]
  <2>1. Written' = Written /\ Written[pc] \subseteq Port
    BY <1>1 DEF Written, Port, After
  <2> QED BY <1>1, <1>2, <1>3, <2>1 DEF ProtocolInv
<1> QED BY <1>1, <1>2, <1>6, <1>7 DEF ProtocolInv, OutRegister, drive, Port, After

\* The command starts where the call said.
LEMMA OutCommandInStep == ProtocolInv /\ OutCommand => ProtocolInv'
<1> SUFFICES ASSUME ProtocolInv, OutCommand PROVE ProtocolInv'
  OBVIOUS
<1>1. /\ pc = "command" /\ ~ busy /\ ~ drq /\ command = "none" /\ i = 0 /\ j = 0
      /\ \A p \in Port : register[p] = Value[p]
  BY DEF ProtocolInv, OutCommand, Written
<1>2. /\ busy' = TRUE /\ command' = request.op /\ at' = 0 /\ drq' = drq
      /\ lba' = register["low"] + BYTE * (register["mid"]
                   + BYTE * (register["high"] + BYTE * register["device"]))
      /\ left' = register["count"]
      /\ pc' = "block_busy"
      /\ UNCHANGED <<medium, buffer, register, request, memory, i, j>>
  BY <1>1 DEF OutCommand
<1>3. /\ request.lba \in Block /\ request.lba \in Nat
      /\ request.count \in 1 .. BYTE - 1 /\ request.count \in Nat
      /\ request.op \in {"read", "write"} /\ request # NoRequest
  BY <1>1, RequestFacts
<1>4. left' = request.count
  <2>1. BYTE \in Nat \ {0}
    BY DiskAssumption
  <2>2. request.count % BYTE = request.count
    BY <1>3, <2>1
  <2> QED BY <1>1, <1>2, <2>2 DEF Value, Port, After
<1>5. lba' = request.lba
  <2>1. /\ register["low"] = request.lba % BYTE
        /\ register["mid"] = (request.lba \div BYTE) % BYTE
        /\ register["high"] = ((request.lba \div BYTE) \div BYTE) % BYTE
        /\ register["device"] =
             (((request.lba \div BYTE) \div BYTE) \div BYTE) % NIBBLE
    BY <1>1 DEF Value, Shifted, Port, After
  <2> QED BY <1>2, <1>3, <2>1, AddressParts
<1>6. TypeOK'
  <2>1. at' \in 0 .. HALF_BLOCK_SIZE
    BY <1>2, DiskAssumption
  <2> QED BY <1>2, <1>3, <1>4, <1>5, <2>1 DEF ProtocolInv, TypeOK
<1>7. AtBlock' /\ Working'
  BY <1>1, <1>2, <1>3, <1>4, <1>5 DEF AtBlock, Working
<1> QED BY <1>1, <1>2, <1>3, <1>6, <1>7 DEF ProtocolInv, Port, After

LEMMA BlockBusyWaitInStep == ProtocolInv /\ BlockBusyWait => ProtocolInv'
<1> SUFFICES ASSUME ProtocolInv, BlockBusyWait PROVE ProtocolInv'
  OBVIOUS
<1>1. AtBlock /\ Asking
  BY DEF ProtocolInv, BlockBusyWait, Working, Behind
<1>2. TypeOK'
  BY DEF ProtocolInv, TypeOK, BlockBusyWait, drive
<1> QED BY <1>1, <1>2
        DEF ProtocolInv, BlockBusyWait, drive, AtBlock, Asking, Port, After

LEMMA ReadyWaitInStep == ProtocolInv /\ ATA_DRQ_wait => ProtocolInv'
<1> SUFFICES ASSUME ProtocolInv, ATA_DRQ_wait PROVE ProtocolInv'
  OBVIOUS
<1>1. 0 \in Offset
  BY DiskAssumption DEF Offset
<1>2. TypeOK'
  BY <1>1 DEF ProtocolInv, TypeOK, ATA_DRQ_wait, drive
<1>3. AtBlock' /\ Asking'
  BY DEF ProtocolInv, ATA_DRQ_wait, drive, AtBlock, Asking
<1> QED BY <1>2, <1>3
        DEF ProtocolInv, ATA_DRQ_wait, drive, AtBlock, Asking, Port, After

LEMMA PowerLossInStep == ProtocolInv /\ PowerLoss => ProtocolInv'
<1> SUFFICES ASSUME ProtocolInv, PowerLoss PROVE ProtocolInv'
  OBVIOUS
<1>1. TypeOK'
  <2>1. 0 \in Offset /\ 0 \in 0 .. HALF_BLOCK_SIZE
    BY DiskAssumption DEF Offset
  <2>2. register' \in [Port -> Nat]
    BY DEF PowerLoss
  <2>3. memory' \in Seq(Word \cup {Junk})
    BY DEF PowerLoss
  <2> QED BY <2>1, <2>2, <2>3 DEF ProtocolInv, TypeOK, PowerLoss
<1> QED BY <1>1 DEF ProtocolInv, PowerLoss, Finishing, Port, After

----------------------------------------------------------------------------

\* What holds when the processor is about to transfer a word.
LEMMA WordFacts ==
  ASSUME ProtocolInv, pc = "word"
  PROVE  /\ ~ busy /\ drq /\ command = request.op /\ at = j
         /\ lba = request.lba + i /\ left = request.count - i
         /\ HALF_BLOCK_SIZE \in Nat \ {0}
         /\ i \in Nat /\ i < request.count /\ request.count \in Nat
         /\ j \in Nat /\ j < HALF_BLOCK_SIZE /\ j \in Offset
         /\ request.lba \in Nat /\ lba \in Block
         /\ request \in Requests /\ request # NoRequest
<1>1. HALF_BLOCK_SIZE \in Nat \ {0}
  BY DiskAssumption
<1>2. AtBlock /\ ~ busy /\ drq /\ at = j /\ j \in Offset
  BY DEF ProtocolInv, TypeOK
<1> QED BY <1>1, <1>2, RequestFacts DEF AtBlock, Offset

\* The word is one of those that the call transfers.
LEMMA WordInRange ==
  ASSUME NEW h \in Nat \ {0}, NEW count \in Nat, NEW m \in Nat, m < count,
         NEW k \in Nat, k < h
  PROVE  m * h + k + 1 \in 1 .. count * h
<1>1. m + 1 <= count
  OBVIOUS
<1>2. (m + 1) * h <= count * h
  BY <1>1
<1>3. (m + 1) * h = m * h + h
  OBVIOUS
<1>4. m * h \in Nat /\ count * h \in Nat
  OBVIOUS
<1> QED BY <1>2, <1>3, <1>4

\* Where NextWord goes: within the block, to the next block, or back.
LEMMA NextWordCases ==
  ASSUME ProtocolInv, pc = "word", NextWord
  PROVE  \/ j + 1 < HALF_BLOCK_SIZE /\ j' = j + 1 /\ UNCHANGED <<i, pc, request>>
         \/ /\ j + 1 = HALF_BLOCK_SIZE /\ j' = 0 /\ i' = i + 1
            /\ i + 1 < request.count
            /\ pc' = "block_busy" /\ UNCHANGED request
         \/ /\ j + 1 = HALF_BLOCK_SIZE /\ j' = 0 /\ i' = i + 1
            /\ i + 1 = request.count
            /\ pc' = "idle" /\ request' = NoRequest
BY WordFacts DEF NextWord

\* The drive no longer asks for data when the block is complete.
LEMMA TransferredFacts ==
  ASSUME ProtocolInv, pc = "word", Transferred
  PROVE  /\ at' = j + 1
         /\ j + 1 < HALF_BLOCK_SIZE => drq'
         /\ j + 1 = HALF_BLOCK_SIZE => ~ drq'
<1>1. at = j /\ j \in Nat /\ HALF_BLOCK_SIZE \in Nat
  BY WordFacts
<1>2. at' = at + 1 /\ drq' = (at + 1 < HALF_BLOCK_SIZE)
  BY DEF Transferred
<1>3. j + 1 < HALF_BLOCK_SIZE => drq'
  BY <1>1, <1>2
<1>4. ASSUME j + 1 = HALF_BLOCK_SIZE PROVE ~ drq'
  <2>1. ~ (at + 1 < HALF_BLOCK_SIZE)
    BY <1>1, <1>4
  <2> QED BY <1>2, <2>1
<1>5. at' = j + 1
  BY <1>1, <1>2
<1> QED BY <1>3, <1>4, <1>5

\* A change of one element leaves a sequence one.
LEMMA SeqExcept ==
  ASSUME NEW S, NEW s \in Seq(S), NEW k, NEW x \in S
  PROVE  [s EXCEPT ![k] = x] \in Seq(S)
<1>1. Len(s) \in Nat /\ s \in [1 .. Len(s) -> S]
  OBVIOUS
<1>2. [s EXCEPT ![k] = x] \in [1 .. Len(s) -> S]
  BY <1>1
<1> QED BY <1>1, <1>2

\* The types, after either transfer.
LEMMA TransferTypes ==
  ASSUME ProtocolInv, pc = "word", NextWord, Transferred,
         busy' \in BOOLEAN, command' \in {"none", "read", "write"},
         lba' \in Nat, left' \in Nat, buffer' \in Datum,
         memory' \in Seq(Word \cup {Junk}), UNCHANGED register
  PROVE  TypeOK'
<1>1. HALF_BLOCK_SIZE \in Nat \ {0} /\ 0 \in Offset
  BY DiskAssumption DEF Offset
<1>2. at' \in 0 .. HALF_BLOCK_SIZE /\ drq' \in BOOLEAN
  BY WordFacts DEF Transferred
<1>3. i' \in Nat /\ j' \in Offset
  BY <1>1, WordFacts, NextWordCases DEF Offset
<1>4. /\ pc' \in {"word", "block_busy", "idle"}
      /\ request' \in Requests \cup {NoRequest}
  BY WordFacts, NextWordCases
<1> QED BY <1>2, <1>3, <1>4 DEF ProtocolInv, TypeOK, Transferred

LEMMA InWordInStep == ProtocolInv /\ InWord => ProtocolInv'
<1> SUFFICES ASSUME ProtocolInv, InWord PROVE ProtocolInv'
  OBVIOUS
<1>1. pc = "word" /\ request.op = "read" /\ NextWord
  BY DEF InWord
<1>2. drq
  BY <1>1, WordFacts
<1>3. /\ Transferred
      /\ lba' = IF drq' THEN lba ELSE lba + 1
      /\ left' = IF drq' THEN left ELSE left - 1
      /\ busy' = (~ drq' /\ left > 1)
      /\ command' = IF drq' \/ left > 1 THEN command ELSE "none"
      /\ UNCHANGED <<buffer, register>>
      /\ memory' = [memory EXCEPT ![i * HALF_BLOCK_SIZE + j + 1] = buffer[at]]
  BY <1>2 DEF InWord
<1>4. lba \in Nat /\ left \in Nat /\ left >= 1
  BY <1>1, WordFacts DEF ProtocolInv, TypeOK
<1>5. TypeOK'
  <2>1. lba' \in Nat /\ left' \in Nat /\ busy' \in BOOLEAN
    BY <1>3, <1>4
  <2>2. command' \in {"none", "read", "write"}
    BY <1>3 DEF ProtocolInv, TypeOK
  <2>3. buffer \in Datum
    BY DEF ProtocolInv, TypeOK
  <2>4. buffer[at] \in Word \cup {Junk}
    BY <1>1, <2>3, WordFacts DEF Datum
  <2>5. memory' \in Seq(Word \cup {Junk})
    <3>1. memory \in Seq(Word \cup {Junk})
      BY DEF ProtocolInv, TypeOK
    <3> QED BY <1>3, <2>4, <3>1, SeqExcept
  <2> QED BY <1>1, <1>3, <2>1, <2>2, <2>3, <2>5, TransferTypes
<1>6. CASE /\ j + 1 < HALF_BLOCK_SIZE /\ j' = j + 1 /\ UNCHANGED <<i, pc, request>>
  <2>1. at' = j' /\ drq' /\ ~ busy' /\ AtBlock'
    BY <1>1, <1>3, <1>6, WordFacts, TransferredFacts DEF AtBlock
  <2> QED BY <1>1, <1>5, <1>6, <2>1, WordFacts DEF ProtocolInv, Port, After
<1>7. CASE /\ j + 1 = HALF_BLOCK_SIZE /\ j' = 0 /\ i' = i + 1
           /\ i + 1 < request.count
           /\ pc' = "block_busy" /\ UNCHANGED request
  <2>1. ~ drq' /\ left > 1
    BY <1>1, <1>3, <1>7, WordFacts, TransferredFacts
  <2>2. /\ busy' /\ command' = command
        /\ lba' = lba + 1 /\ left' = left - 1
    BY <1>3, <2>1
  <2>3. AtBlock' /\ Working'
    BY <1>1, <1>7, <2>1, <2>2, WordFacts DEF AtBlock, Working
  <2> QED BY <1>1, <1>5, <1>7, <2>3, WordFacts DEF ProtocolInv, Port, After
<1>8. CASE /\ j + 1 = HALF_BLOCK_SIZE /\ j' = 0 /\ i' = i + 1
           /\ i + 1 = request.count
           /\ pc' = "idle" /\ request' = NoRequest
  <2>1. ~ drq' /\ ~ (left > 1)
    BY <1>1, <1>3, <1>8, WordFacts, TransferredFacts
  <2>2. Finishing'
    BY <1>3, <2>1 DEF Finishing
  <2> QED BY <1>5, <1>8, <2>2 DEF ProtocolInv, Port, After
<1> QED BY <1>1, <1>6, <1>7, <1>8, NextWordCases

LEMMA OutWordInStep == ProtocolInv /\ OutWord => ProtocolInv'
<1> SUFFICES ASSUME ProtocolInv, OutWord PROVE ProtocolInv'
  OBVIOUS
<1>1. pc = "word" /\ request.op = "write" /\ NextWord
  BY DEF OutWord
<1>2. drq
  BY <1>1, WordFacts
<1>3. /\ Transferred
      /\ buffer' = [buffer EXCEPT ![at] =
                      request.ptr[i * HALF_BLOCK_SIZE + j + 1]]
      /\ busy' = ~ drq'
      /\ UNCHANGED <<lba, left, command, register, memory>>
  BY <1>2 DEF OutWord
<1>4. TypeOK'
  <2>1. buffer' \in Datum
    <3>1. request.ptr \in [1 .. request.count * HALF_BLOCK_SIZE -> Word]
      BY <1>1, WordFacts, DiskAssumption
    <3>2. i * HALF_BLOCK_SIZE + j + 1 \in 1 .. request.count * HALF_BLOCK_SIZE
      BY <1>1, WordFacts, WordInRange
    <3>3. request.ptr[i * HALF_BLOCK_SIZE + j + 1] \in Word \cup {Junk}
      BY <3>1, <3>2
    <3>4. buffer \in Datum
      BY DEF ProtocolInv, TypeOK
    <3> QED BY <1>3, <3>3, <3>4 DEF Datum
  <2>2. drq' \in BOOLEAN
    BY <1>3 DEF Transferred
  <2>3. busy' \in BOOLEAN
    BY <1>3, <2>2
  <2> QED BY <1>1, <1>3, <2>1, <2>3, TransferTypes DEF ProtocolInv, TypeOK
<1>5. CASE /\ j + 1 < HALF_BLOCK_SIZE /\ j' = j + 1 /\ UNCHANGED <<i, pc, request>>
  <2>1. at' = j' /\ drq' /\ ~ busy' /\ AtBlock'
    BY <1>1, <1>3, <1>5, WordFacts, TransferredFacts DEF AtBlock
  <2> QED BY <1>1, <1>4, <1>5, <2>1, WordFacts DEF ProtocolInv, Port, After
<1>6. at' = at + 1 /\ (j + 1 = HALF_BLOCK_SIZE => ~ drq' /\ busy')
  BY <1>1, <1>3, WordFacts, TransferredFacts
<1>7. CASE /\ j + 1 = HALF_BLOCK_SIZE /\ j' = 0 /\ i' = i + 1
           /\ i + 1 < request.count
           /\ pc' = "block_busy" /\ UNCHANGED request
  <2>1. Behind'
    BY <1>1, <1>3, <1>6, <1>7, WordFacts DEF Behind
  <2> QED BY <1>1, <1>4, <1>7, <2>1, WordFacts DEF ProtocolInv, Port, After
<1>8. CASE /\ j + 1 = HALF_BLOCK_SIZE /\ j' = 0 /\ i' = i + 1
           /\ i + 1 = request.count
           /\ pc' = "idle" /\ request' = NoRequest
  <2>1. Finishing'
    BY <1>1, <1>3, <1>6, <1>8, WordFacts DEF Finishing
  <2> QED BY <1>4, <1>8, <2>1 DEF ProtocolInv, Port, After
<1> QED BY <1>1, <1>5, <1>7, <1>8, NextWordCases

----------------------------------------------------------------------------

(***************************************************************************)
(* For every drive and every call of the file system: whenever read_blocks *)
(* or write_blocks touches the data port, the drive asks for data, for     *)
(* that command, that block and that word, although ATA_DRQ_wait tests     *)
(* another bit than its name says.                                         *)
(***************************************************************************)
THEOREM StaysInStep == Spec => [](ProtocolInv /\ DataWhenAsked)
<1>1. ProtocolInv /\ [Next]_vars => ProtocolInv'
  <2> SUFFICES ASSUME ProtocolInv, [Next]_vars PROVE ProtocolInv'
    OBVIOUS
  <2>1. CASE Drive
    BY <2>1, SpinUpInStep, FetchInStep, AskForDataInStep, CommitInStep DEF Drive
  <2>2. CASE Processor
    BY <2>2, BusyWaitInStep, OutRegisterInStep, OutCommandInStep,
       BlockBusyWaitInStep, ReadyWaitInStep, InWordInStep, OutWordInStep
       DEF Processor
  <2>3. CASE PowerLoss
    BY <2>3, PowerLossInStep
  <2>4. CASE \E r \in Requests : Call(r)
    BY <2>4, CallInStep
  <2>5. CASE UNCHANGED vars
    BY <2>5 DEF vars, drive, host, ProtocolInv, TypeOK, Finishing, AtBlock,
                Working, Asking, Behind, Written, Value, Shifted
  <2> QED BY <2>1, <2>2, <2>3, <2>4, <2>5 DEF Next
<1>2. ProtocolInv => DataWhenAsked
  BY DEF ProtocolInv, DataWhenAsked, AtBlock
<1> QED BY StartsInStep, <1>1, <1>2, PTL DEF Spec

(***************************************************************************)
(* The drive never counts below zero blocks nor past the words of one, and *)
(* what read_blocks puts behind its pointer stays a sequence of words.     *)
(***************************************************************************)
THEOREM DiskTypes == Spec => []TypeOK
<1>1. ProtocolInv => TypeOK
  BY DEF ProtocolInv
<1> QED BY <1>1, StaysInStep, PTL

----------------------------------------------------------------------------
(* What goes through the data port. *)

LEMMA StartsEmpty == Init => TransferInv
BY DEF Init, TransferInv

\* Steps that transfer nothing.
LEMMA NothingTransferred ==
  ASSUME TransferInv, pc # "idle",
         UNCHANGED <<medium, buffer, lba, request, memory, i, j>>,
         drq' => drq, pc' = "word" => j = 0
  PROVE  TransferInv'
<1>1. ASSUME request.op = "write" PROVE TransferInv'
  BY <1>1 DEF TransferInv
<1>2. ASSUME request.op = "read" PROVE TransferInv'
  BY <1>2 DEF TransferInv
<1> QED BY <1>1, <1>2 DEF TransferInv

LEMMA DriveTransfers ==
  ASSUME ProtocolInv, TransferInv, Drive
  PROVE  TransferInv'
<1>1. UNCHANGED <<pc, request, memory, i, j>> /\ pc # "word"
  BY DEF Drive, SpinUp, Fetch, AskForData, Commit, host, ProtocolInv
<1>2. CASE SpinUp
  BY <1>1, <1>2 DEF SpinUp, TransferInv
<1>3. CASE Fetch
  BY <1>1, <1>3 DEF Fetch, TransferInv
<1>4. CASE AskForData
  <2>1. pc = "block_busy" /\ request.op = "write"
    BY <1>4, DiskAssumption DEF AskForData, ProtocolInv, TypeOK, Finishing,
       AtBlock, Working, Asking, Behind, Port, After
  <2> QED BY <1>1, <1>4, <2>1 DEF AskForData, TransferInv
<1>5. CASE Commit
  <2>1. \/ pc = "idle"
        \/ pc = "first_wait" /\ i = 0 /\ j = 0 /\ ~ drq
        \/ pc = "block_busy" /\ request.op = "write"
    BY <1>5, DiskAssumption DEF Commit, ProtocolInv, TypeOK, Finishing,
       AtBlock, Working, Asking, Behind, Port, After
  <2> QED BY <1>1, <1>5, <2>1 DEF Commit, TransferInv
<1> QED BY <1>2, <1>3, <1>4, <1>5 DEF Drive

LEMMA CallTransfers ==
  ASSUME ProtocolInv, NEW r \in Requests, Call(r)
  PROVE  TransferInv'
<1>1. r.op \in {"read", "write"} /\ r.count * HALF_BLOCK_SIZE \in Nat
  BY DiskAssumption
<1>2. ~ drq /\ drq' = drq /\ i' = 0 /\ j' = 0 /\ request' = r
      /\ pc' = "first_wait"
      /\ memory' = IF r.op = "read" THEN Junked(r.count * HALF_BLOCK_SIZE)
                                    ELSE << >>
  BY DEF Call, ProtocolInv, Finishing, drive
<1>3. Len(Junked(r.count * HALF_BLOCK_SIZE)) = r.count * HALF_BLOCK_SIZE
  BY <1>1 DEF Junked
<1> QED BY <1>1, <1>2, <1>3 DEF TransferInv

\* The accesses around those of the data port.
LEMMA AccessTransfers ==
  ASSUME ProtocolInv, TransferInv,
         BusyWait \/ OutRegister \/ BlockBusyWait \/ ATA_DRQ_wait
  PROVE  TransferInv'
<1>1. /\ UNCHANGED <<medium, buffer, lba, request, memory, i, drq>>
      /\ pc \notin {"idle", "word"}
      /\ j = 0 /\ j' = j
  BY DEF BusyWait, OutRegister, BlockBusyWait, ATA_DRQ_wait, drive, ProtocolInv,
         Port, After
<1> QED BY <1>1, NothingTransferred

LEMMA CommandTransfers ==
  ASSUME ProtocolInv, OutCommand, TransferInv
  PROVE  TransferInv'
<1>1. /\ UNCHANGED <<medium, request, memory, i, j, drq>>
      /\ pc = "command" /\ i = 0 /\ j = 0 /\ ~ drq /\ pc' = "block_busy"
  BY DEF OutCommand, drive, ProtocolInv
<1> QED BY <1>1 DEF TransferInv

\* The places of two words are different.
LEMMA PlacesApart ==
  ASSUME NEW m \in Nat, NEW n \in Nat, n < m, NEW o \in Offset, NEW k \in Nat
  PROVE  At(n, o) \in Int /\ At(m, k) \in Int /\ At(n, o) < At(m, k)
<1>1. HALF_BLOCK_SIZE \in Nat \ {0} /\ o \in Nat /\ o + 1 =< HALF_BLOCK_SIZE
  BY DiskAssumption DEF Offset
<1> DEFINE h == HALF_BLOCK_SIZE
<1> HIDE DEF h
<1>2. n + 1 =< m /\ h \in Nat /\ o \in Nat /\ o + 1 =< h
  BY <1>1 DEF h
<1>3. (n + 1) * h =< m * h
  BY <1>2
<1>4. (n + 1) * h = n * h + h /\ n * h \in Nat /\ m * h \in Nat
  BY <1>2
<1>5. n * h + o + 1 < m * h + k + 1
  BY <1>2, <1>3, <1>4
<1> QED BY <1>4, <1>5, <1>2 DEF At, h

\* The word that is read comes after those read before.
LEMMA WordRead ==
  ASSUME ProtocolInv, TransferInv, InWord
  PROVE  /\ UNCHANGED <<medium, buffer>> /\ Transferred
         /\ lba' = IF drq' THEN lba ELSE lba + 1
         /\ lba = request.lba + i /\ buffer = medium[lba]
         /\ Len(memory') = request.count * HALF_BLOCK_SIZE
         /\ \A n \in 0 .. i - 1, o \in Offset :
              memory'[At(n, o)] = medium[request.lba + n][o]
         /\ \A o \in 0 .. j : memory'[At(i, o)] = medium[lba][o]
<1>1. pc = "word" /\ request.op = "read" /\ NextWord
  BY DEF InWord
<1>2. drq /\ at = j /\ lba = request.lba + i
  BY <1>1, WordFacts
<1>3. /\ UNCHANGED <<medium, buffer>> /\ Transferred
      /\ lba' = IF drq' THEN lba ELSE lba + 1
      /\ memory' = [memory EXCEPT ![At(i, j)] = buffer[at]]
  BY <1>2 DEF InWord, Transferred, At
<1>4. /\ Len(memory) = request.count * HALF_BLOCK_SIZE
      /\ \A n \in 0 .. i - 1, o \in Offset :
           memory[At(n, o)] = medium[request.lba + n][o]
      /\ \A o \in 0 .. j - 1 : memory[At(i, o)] = medium[lba][o]
      /\ buffer = medium[lba]
  BY <1>1, <1>2 DEF TransferInv
<1>5. /\ At(i, j) \in 1 .. Len(memory) /\ At(i, j) \in DOMAIN memory
      /\ i \in Nat /\ j \in Nat /\ j < HALF_BLOCK_SIZE
      /\ HALF_BLOCK_SIZE \in Nat \ {0}
  <2>1. At(i, j) \in 1 .. Len(memory)
    BY <1>1, <1>4, WordFacts, WordInRange DEF At
  <2>2. memory \in Seq(Word \cup {Junk})
    BY DEF ProtocolInv, TypeOK
  <2> QED BY <1>1, <2>1, <2>2, WordFacts
<1>6. /\ Len(memory') = Len(memory)
      /\ \A k \in Int : memory'[k] = IF k = At(i, j) THEN buffer[j] ELSE memory[k]
  <2>1. memory \in Seq(Word \cup {Junk})
    BY DEF ProtocolInv, TypeOK
  <2> QED BY <1>2, <1>3, <1>5, <2>1
<1>7. \A n \in 0 .. i - 1, o \in Offset :
        memory'[At(n, o)] = medium[request.lba + n][o]
  <2> TAKE n \in 0 .. i - 1, o \in Offset
  <2>1. At(n, o) \in Int /\ At(n, o) # At(i, j)
    BY <1>5, PlacesApart
  <2> QED BY <1>4, <1>6, <2>1
<1>8. \A o \in 0 .. j : memory'[At(i, o)] = medium[lba][o]
  <2> TAKE o \in 0 .. j
  <2>1. At(i, o) \in Int /\ (o # j => At(i, o) # At(i, j))
    BY <1>5 DEF At
  <2> QED BY <1>4, <1>5, <1>6, <2>1
<1> QED BY <1>2, <1>3, <1>4, <1>6, <1>7, <1>8

\* With the last word of a block, the block is read.
LEMMA BlockRead ==
  ASSUME ProtocolInv, TransferInv, InWord, j + 1 = HALF_BLOCK_SIZE
  PROVE  \A n \in 0 .. i, o \in Offset :
           memory'[At(n, o)] = medium[request.lba + n][o]
<1> TAKE n \in 0 .. i, o \in Offset
<1>1. pc = "word" /\ i \in Nat /\ j \in Nat
  BY WordFacts DEF InWord
<1>2. n \in 0 .. i - 1 \/ n = i
  BY <1>1
<1>3. o \in 0 .. j
  BY <1>1 DEF Offset
<1> QED BY <1>2, <1>3, WordRead

LEMMA InWordTransfers ==
  ASSUME ProtocolInv, TransferInv, InWord
  PROVE  TransferInv'
<1>1. pc = "word" /\ request.op = "read" /\ NextWord
  BY DEF InWord
<1>2. i \in Nat /\ j \in Nat
  BY <1>1, WordFacts
<1>3. CASE j + 1 < HALF_BLOCK_SIZE /\ j' = j + 1 /\ UNCHANGED <<i, pc, request>>
  <2>1. drq' /\ lba' = lba
    BY <1>1, <1>3, WordRead, TransferredFacts
  <2>2. 0 .. j' - 1 = 0 .. j
    BY <1>2, <1>3
  <2>3. /\ Len(memory') = request'.count * HALF_BLOCK_SIZE
        /\ \A n \in 0 .. i' - 1, o \in Offset :
             memory'[At(n, o)] = medium'[request'.lba + n][o]
        /\ buffer' = medium'[lba']
    BY <1>3, <2>1, WordRead
  <2>4. \A o \in 0 .. j' - 1 : memory'[At(i', o)] = medium'[lba'][o]
    BY <1>3, <2>1, <2>2, WordRead
  <2>5. request'.op = "read"
    BY <1>1, <1>3
  <2> QED BY <2>3, <2>4, <2>5 DEF TransferInv
<1>4. CASE /\ j + 1 = HALF_BLOCK_SIZE /\ j' = 0 /\ i' = i + 1
            /\ pc' = "block_busy" /\ UNCHANGED request
  <2>1. ~ drq'
    BY <1>1, <1>4, WordRead, TransferredFacts
  <2>2. i' - 1 = i
    BY <1>2, <1>4
  <2>3. \A n \in 0 .. i' - 1, o \in Offset :
          memory'[At(n, o)] = medium'[request'.lba + n][o]
    BY <1>4, <2>2, WordRead, BlockRead
  <2> QED BY <1>1, <1>4, <2>1, <2>3, WordRead DEF TransferInv
<1>5. CASE pc' = "idle"
  BY <1>5 DEF TransferInv
<1> QED BY <1>1, <1>3, <1>4, <1>5, NextWordCases

LEMMA OutWordTransfers ==
  ASSUME ProtocolInv, TransferInv, OutWord
  PROVE  TransferInv'
<1>1. pc = "word" /\ request.op = "write" /\ NextWord
  BY DEF OutWord
<1>2. drq /\ at = j
  BY <1>1, WordFacts
<1>3. /\ buffer' = [buffer EXCEPT ![j] = request.ptr[At(i, j)]]
      /\ memory' = memory
  BY <1>2 DEF OutWord, At
<1>4. /\ \A o \in 0 .. j - 1 : buffer[o] = request.ptr[At(i, o)]
      /\ memory = << >>
  BY <1>1 DEF TransferInv
<1>5. j \in Nat /\ j \in Offset /\ buffer \in Datum
  BY <1>1, WordFacts DEF ProtocolInv, TypeOK
<1>6. \A o \in 0 .. j : buffer'[o] = request.ptr[At(i, o)]
  BY <1>3, <1>4, <1>5 DEF Datum
<1>7. CASE j + 1 < HALF_BLOCK_SIZE /\ j' = j + 1 /\ UNCHANGED <<i, pc, request>>
  <2>1. 0 .. j' - 1 = 0 .. j
    BY <1>5, <1>7
  <2> QED BY <1>1, <1>3, <1>4, <1>6, <1>7, <2>1 DEF TransferInv
<1>8. CASE pc' = "block_busy" /\ UNCHANGED request
  BY <1>1, <1>3, <1>4, <1>8 DEF TransferInv
<1>9. CASE pc' = "idle"
  BY <1>9 DEF TransferInv
<1> QED BY <1>1, <1>7, <1>8, <1>9, NextWordCases

LEMMA TransferStep ==
  ProtocolInv /\ TransferInv /\ [Next]_vars => TransferInv'
<1> SUFFICES ASSUME ProtocolInv, TransferInv, [Next]_vars PROVE TransferInv'
  OBVIOUS
<1>1. CASE Processor
  BY <1>1, AccessTransfers, CommandTransfers, InWordTransfers, OutWordTransfers
     DEF Processor
<1>2. CASE PowerLoss
  BY <1>2 DEF PowerLoss, TransferInv
<1>3. CASE UNCHANGED vars
  BY <1>3 DEF vars, drive, host, TransferInv
<1> QED BY <1>1, <1>2, <1>3, DriveTransfers, CallTransfers DEF Next

----------------------------------------------------------------------------
(* The block store: each step is one of BlockStore, or none. *)

Entry == [lba : Nat, datum : Datum]

\* What a write has still to send, in order.
LEMMA RestSeq ==
  ASSUME NEW r \in Requests, r.op = "write", NEW k \in 0 .. r.count
  PROVE  /\ Rest(r, k) \in Seq(Entry) /\ Len(Rest(r, k)) = r.count - k
         /\ \A n \in 1 .. r.count - k :
              Rest(r, k)[n] = [lba |-> r.lba + k + n - 1,
                               datum |-> Words(r.ptr, k + n - 1)]
<1>1. /\ r.count \in Nat /\ r.lba \in Nat /\ HALF_BLOCK_SIZE \in Nat \ {0}
      /\ r.ptr \in [1 .. r.count * HALF_BLOCK_SIZE -> Word]
  BY DiskAssumption DEF Block
<1>2. ASSUME NEW m \in 0 .. r.count - 1 PROVE Words(r.ptr, m) \in Datum
  <2>1. \A o \in Offset : At(m, o) \in 1 .. r.count * HALF_BLOCK_SIZE
    <3> TAKE o \in Offset
    <3>1. /\ m \in Nat /\ m < r.count
          /\ o \in Nat /\ o < HALF_BLOCK_SIZE
      BY <1>1 DEF Offset
    <3> QED BY <1>1, <3>1, WordInRange DEF At
  <2>2. \A o \in Offset : r.ptr[At(m, o)] \in Word \cup {Junk}
    BY <1>1, <2>1
  <2> QED BY <2>2 DEF Words, Datum
<1>3. \A n \in 1 .. r.count - k :
        [lba |-> r.lba + k + n - 1, datum |-> Words(r.ptr, k + n - 1)] \in Entry
  <2> TAKE n \in 1 .. r.count - k
  <2>1. k + n - 1 \in 0 .. r.count - 1 /\ r.lba + k + n - 1 \in Nat
    BY <1>1
  <2> QED BY <1>2, <2>1 DEF Entry
<1>4. Rest(r, k) = [n \in 1 .. r.count - k |->
                      [lba |-> r.lba + k + n - 1, datum |-> Words(r.ptr, k + n - 1)]]
  BY DEF Rest
<1>5. r.count - k \in Nat
  BY <1>1
<1> QED BY <1>3, <1>4, <1>5

\* The next block and the others.
LEMMA RestNext ==
  ASSUME NEW r \in Requests, r.op = "write", NEW k \in 0 .. r.count, k < r.count
  PROVE  Rest(r, k) =
           <<[lba |-> r.lba + k, datum |-> Words(r.ptr, k)]>> \o Rest(r, k + 1)
<1> DEFINE x == [lba |-> r.lba + k, datum |-> Words(r.ptr, k)]
           s == Rest(r, k)
           t == Rest(r, k + 1)
<1>1. r.count \in Nat /\ r.lba \in Nat /\ k + 1 \in 0 .. r.count
  BY DiskAssumption DEF Block
<1>2. /\ s \in Seq(Entry) /\ Len(s) = r.count - k
      /\ \A n \in 1 .. r.count - k :
           s[n] = [lba |-> r.lba + k + n - 1, datum |-> Words(r.ptr, k + n - 1)]
  BY RestSeq
<1>3. /\ t \in Seq(Entry) /\ Len(t) = r.count - (k + 1)
      /\ \A n \in 1 .. r.count - (k + 1) :
           t[n] = [lba |-> r.lba + (k + 1) + n - 1,
                   datum |-> Words(r.ptr, (k + 1) + n - 1)]
  BY <1>1, RestSeq
<1>4. s[1] = x
  <2>1. 1 \in 1 .. r.count - k /\ r.lba + k + 1 - 1 = r.lba + k /\ k + 1 - 1 = k
    BY <1>1
  <2> QED BY <1>2, <2>1
<1>5. \A n \in 1 .. r.count - (k + 1) : s[n + 1] = t[n]
  <2> TAKE n \in 1 .. r.count - (k + 1)
  <2>1. /\ n + 1 \in 1 .. r.count - k
        /\ r.lba + k + (n + 1) - 1 = r.lba + (k + 1) + n - 1
        /\ k + (n + 1) - 1 = (k + 1) + n - 1
    BY <1>1
  <2> QED BY <1>2, <1>3, <2>1
<1> HIDE DEF x, s, t
<1>6. s # << >> /\ x \in Entry
  BY <1>1, <1>2, <1>4
<1>7. /\ <<x>> \in Seq(Entry) /\ Len(<<x>>) = 1 /\ <<x>>[1] = x
  BY <1>6
<1>8. /\ <<x>> \o t \in Seq(Entry) /\ Len(<<x>> \o t) = Len(s)
      /\ \A n \in 1 .. Len(s) :
           (<<x>> \o t)[n] = IF n =< 1 THEN <<x>>[n] ELSE t[n - 1]
  BY <1>1, <1>2, <1>3, <1>7, ConcatProperties
<1>9. \A n \in 1 .. Len(s) : (<<x>> \o t)[n] = s[n]
  <2> TAKE n \in 1 .. Len(s)
  <2>1. CASE n = 1
    BY <1>4, <1>7, <1>8, <2>1
  <2>2. CASE n # 1
    <3>1. n - 1 \in 1 .. r.count - (k + 1) /\ n - 1 + 1 = n /\ ~ n =< 1
      BY <1>1, <1>2, <2>2
    <3> QED BY <1>5, <1>8, <3>1
  <2> QED BY <2>1, <2>2
<1>10. <<x>> \o t = s
  BY <1>2, <1>8, <1>9, SeqEqual
<1> QED BY <1>10 DEF x, s, t

\* What is buffered and what is not sent are sequences.
LEMMA PendingSeq ==
  ASSUME ProtocolInv
  PROVE  Buffered \in Seq(Entry) /\ Unsent \in Seq(Entry)
<1>1. Buffered \in Seq(Entry)
  <2>1. [lba |-> lba, datum |-> buffer] \in Entry
    BY DEF Entry, ProtocolInv, TypeOK
  <2>2. <<[lba |-> lba, datum |-> buffer]>> \in Seq(Entry)
    BY <2>1
  <2> QED BY <2>2 DEF Buffered
<1>2. ASSUME request.op # "write" PROVE Unsent \in Seq(Entry)
  <2>1. Unsent = << >>
    BY <1>2 DEF Unsent, Rest
  <2> QED BY <2>1
<1>3. ASSUME request.op = "write" PROVE Unsent \in Seq(Entry)
  <2>1. request # NoRequest
    BY <1>3 DEF NoRequest
  <2>2. request \in Requests /\ i \in 0 .. request.count
    <3>1. pc # "idle"
      BY <2>1 DEF ProtocolInv
    <3> QED BY <3>1, RequestFacts
  <2> QED BY <1>3, <2>2, RestSeq DEF Unsent
<1> QED BY <1>1, <1>2, <1>3

\* A read and an idle driver have nothing to send.
LEMMA NothingUnsent ==
  ASSUME request.op # "write" PROVE Unsent = << >>
BY DEF Unsent, Rest

\* Steps the store does not see.
LEMMA Unseen ==
  ASSUME UNCHANGED <<medium, request>>,
         Buffered' \o Unsent' = Buffered \o Unsent,
         request = NoRequest => memory' = memory
  PROVE  UNCHANGED Store!vars
<1>1. Task' = Task
  BY DEF Task
<1>2. (IF request = NoRequest THEN Blocks(memory) ELSE << >>)'
        = IF request = NoRequest THEN Blocks(memory) ELSE << >>
  BY DEF Blocks, Words
<1> QED BY <1>1, <1>2 DEF Store!vars

LEMMA BlocksOfNothing == Blocks(<< >>) = << >>
<1>1. 0 \div HALF_BLOCK_SIZE = 0
  BY DiskAssumption
<1>2. Len(<< >>) = 0
  OBVIOUS
<1> QED BY <1>1, <1>2 DEF Blocks

LEMMA StartsStored == Init => Store!Init
<1> SUFFICES ASSUME Init PROVE Store!Init
  OBVIOUS
<1>1. Buffered = << >> /\ Unsent = << >>
  BY DEF Init, Buffered, Unsent, Rest, NoRequest
<1>2. Task = [op |-> "none"]
  BY DEF Init, Task, NoRequest
<1> QED BY <1>1, <1>2, BlocksOfNothing DEF Init, Store!Init, Store!NoTask

\* So many whole blocks.
LEMMA DivProduct ==
  ASSUME NEW c \in Nat, NEW h \in Nat \ {0}
  PROVE  (c * h) \div h = c
<1> DEFINE q == (c * h) \div h
           m == (c * h) % h
<1>1. c * h \in Nat
  OBVIOUS
<1>2. q \in Nat /\ m \in Nat /\ m < h /\ c * h = h * q + m
  BY <1>1, DivMod
<1> HIDE DEF q, m
<1>3. CASE q < c
  <2>1. h * (q + 1) =< h * c
    BY <1>2, <1>3
  <2>2. h * (q + 1) = h * q + h /\ h * c = c * h /\ h * q \in Nat
    BY <1>2
  <2> QED BY <1>1, <1>2, <2>1, <2>2
<1>4. CASE q > c
  <2>1. h * (c + 1) =< h * q
    BY <1>2, <1>4
  <2>2. h * (c + 1) = h * c + h /\ h * c = c * h /\ h * q \in Nat
    BY <1>2
  <2> QED BY <1>1, <1>2, <2>1, <2>2
<1> QED BY <1>2, <1>3, <1>4 DEF q

LEMMA DriveStored ==
  ASSUME ProtocolInv, Drive
  PROVE  Store!Next \/ UNCHANGED Store!vars
<1>1. UNCHANGED <<pc, request, memory, i, j>> /\ Unsent' = Unsent
  BY DEF Drive, SpinUp, Fetch, AskForData, Commit, host, Unsent, Rest, Words
<1>2. CASE SpinUp \/ Fetch \/ AskForData
  <2>1. medium' = medium
    BY <1>2 DEF SpinUp, Fetch, AskForData
  <2>2. Buffered = << >> /\ Buffered' = << >>
    BY <1>2, DiskAssumption DEF SpinUp, Fetch, AskForData, Buffered
  <2> QED BY <1>1, <2>1, <2>2, Unseen
<1>3. CASE Commit
  <2> DEFINE x == [lba |-> lba, datum |-> buffer]
  <2>1. Buffered = <<x>> /\ Buffered' = << >>
    BY <1>3, DiskAssumption DEF Commit, Buffered
  <2>2. medium' = [medium EXCEPT ![lba] = buffer]
    BY <1>3 DEF Commit
  <2>3. /\ <<x>> \in Seq(Entry) /\ Unsent \in Seq(Entry)
        /\ x.lba = lba /\ x.datum = buffer
    BY <2>1, PendingSeq
  <2> HIDE DEF x
  <2>4. /\ <<x>> \o Unsent # << >> /\ Head(<<x>> \o Unsent) = x
        /\ Tail(<<x>> \o Unsent) = Unsent
    BY <2>3
  <2>5. << >> \o Unsent = Unsent
    BY <2>3, ConcatEmptySeq
  <2>6. Task' = Task
    BY <1>1 DEF Task
  <2>7. (IF request = NoRequest THEN Blocks(memory) ELSE << >>)'
          = IF request = NoRequest THEN Blocks(memory) ELSE << >>
    BY <1>1 DEF Blocks, Words
  <2>8. Store!Persist
    BY <1>1, <2>1, <2>2, <2>3, <2>4, <2>5, <2>6, <2>7 DEF Store!Persist
  <2> QED BY <2>8 DEF Store!Next
<1> QED BY <1>2, <1>3 DEF Drive

\* A call is one step of the store: the blocks of a write are pending.
LEMMA CallStored ==
  ASSUME ProtocolInv, NEW r \in Requests, Call(r)
  PROVE  Store!Next
<1>1. /\ request = NoRequest /\ request' = r /\ i' = 0
      /\ UNCHANGED <<medium, busy, command, at, lba, buffer>>
  BY DEF Call, ProtocolInv, drive
<1>2. /\ r.op \in {"read", "write"} /\ r # NoRequest
      /\ r.count \in Nat /\ r.lba \in Nat /\ HALF_BLOCK_SIZE \in Nat \ {0}
  BY DiskAssumption DEF NoRequest, Block
<1>3. /\ Task = [op |-> "none"]
      /\ Unsent = << >> /\ Buffered' = Buffered
  BY <1>1 DEF Task, NoRequest, Unsent, Rest, Buffered
<1>4. (IF request = NoRequest THEN Blocks(memory) ELSE << >>)' = << >>
  BY <1>1, <1>2
<1>5. Buffered \in Seq(Entry) /\ Buffered \o << >> = Buffered
  BY PendingSeq, ConcatEmptySeq
<1>6. CASE r.op = "read"
  <2>1. /\ Task' = [op |-> "read", lba |-> r.lba, count |-> r.count]
        /\ Unsent' = << >>
    BY <1>1, <1>6 DEF Task, Unsent, Rest
  <2>2. Store!Read(r)
    BY <1>1, <1>3, <1>4, <1>5, <2>1 DEF Store!Read, Store!NoTask
  <2> QED BY <1>6, <2>2 DEF Store!Next
<1>7. CASE r.op = "write"
  <2> DEFINE w == [lba |-> r.lba, data |-> Blocks(r.ptr)]
  <2>1. Task' = [op |-> "write"] /\ Unsent' = Rest(r, 0)
    BY <1>1, <1>7 DEF Task, Unsent, Rest, Words
  <2>2. /\ Len(r.ptr) = r.count * HALF_BLOCK_SIZE
        /\ (r.count * HALF_BLOCK_SIZE) \div HALF_BLOCK_SIZE = r.count
    <3>1. /\ r.ptr \in [1 .. r.count * HALF_BLOCK_SIZE -> Word]
          /\ r.count * HALF_BLOCK_SIZE \in Nat
      BY <1>2, <1>7, DiskAssumption
    <3>2. (r.count * HALF_BLOCK_SIZE) \div HALF_BLOCK_SIZE = r.count
      BY <1>2, DivProduct
    <3> QED BY <3>1, <3>2
  <2>3. Blocks(r.ptr) = [n \in 1 .. r.count |-> Words(r.ptr, n - 1)]
    BY <2>2 DEF Blocks
  <2>4. Len(Blocks(r.ptr)) = r.count
    BY <1>2, <2>3
  <2>5. Store!Addressed(w.lba, w.data) = Rest(r, 0)
    <3>1. Store!Addressed(w.lba, w.data) =
            [n \in 1 .. r.count |->
               [lba |-> r.lba + n - 1, datum |-> Words(r.ptr, n - 1)]]
      BY <2>3, <2>4 DEF Store!Addressed
    <3>2. Rest(r, 0) = [n \in 1 .. r.count - 0 |->
                          [lba |-> r.lba + 0 + n - 1,
                           datum |-> Words(r.ptr, 0 + n - 1)]]
      BY <1>7 DEF Rest
    <3>3. r.count - 0 = r.count
          /\ \A n \in 1 .. r.count : /\ r.lba + 0 + n - 1 = r.lba + n - 1
                                     /\ 0 + n - 1 = n - 1
      BY <1>2
    <3> QED BY <3>1, <3>2, <3>3
  <2>6. Store!Write(w)
    BY <1>1, <1>3, <1>4, <1>5, <2>1, <2>5 DEF Store!Write, Store!NoTask
  <2> QED BY <1>7, <2>6 DEF Store!Next
<1> QED BY <1>2, <1>6, <1>7

LEMMA AccessStored ==
  ASSUME ProtocolInv,
         BusyWait \/ OutRegister \/ OutCommand \/ BlockBusyWait \/ ATA_DRQ_wait
  PROVE  UNCHANGED Store!vars
<1>1. /\ UNCHANGED <<medium, request, memory, i>>
      /\ Unsent' = Unsent
  BY DEF BusyWait, OutRegister, OutCommand, BlockBusyWait, ATA_DRQ_wait, drive,
         Unsent, Rest, Words
<1>2. Buffered' = Buffered
  <2>1. CASE UNCHANGED drive
    BY <2>1 DEF drive, Buffered
  <2>2. CASE OutCommand /\ ~ busy /\ at' = 0
    BY <2>2, DiskAssumption DEF Buffered
  <2> QED BY <2>1, <2>2 DEF BusyWait, OutRegister, OutCommand, BlockBusyWait,
                            ATA_DRQ_wait
<1> QED BY <1>1, <1>2, Unseen

LEMMA PowerLossStored ==
  ASSUME PowerLoss PROVE Store!Next
<1>1. /\ command' = "none" /\ request' = NoRequest /\ memory' = << >>
      /\ medium' = medium
  BY DEF PowerLoss
<1>2. Buffered' = << >> /\ Unsent' = << >> /\ Task' = [op |-> "none"]
  BY <1>1 DEF Buffered, Unsent, Rest, Task, NoRequest
<1>3. (IF request = NoRequest THEN Blocks(memory) ELSE << >>)' = << >>
  <2>1. Blocks(memory)' = Blocks(<< >>)
    BY <1>1 DEF Blocks, Words
  <2> QED BY <1>1, <2>1, BlocksOfNothing
<1>4. Store!PowerLoss
  BY <1>1, <1>2, <1>3 DEF Store!PowerLoss, Store!NoTask
<1> QED BY <1>4 DEF Store!Next

\* A word read is one step with the last of a call, which returns what the
\* medium holds.
LEMMA InWordStored ==
  ASSUME ProtocolInv, TransferInv, InWord
  PROVE  Store!Next \/ UNCHANGED Store!vars
<1>1. pc = "word" /\ request.op = "read" /\ NextWord
  BY DEF InWord
<1>2. /\ ~ busy /\ command = "read" /\ request \in Requests
      /\ request # NoRequest /\ i \in Nat
      /\ request.count \in Nat /\ HALF_BLOCK_SIZE \in Nat \ {0}
  BY <1>1, WordFacts
<1>3. medium' = medium /\ command' # "write"
  BY <1>1, <1>2, WordRead, WordFacts DEF InWord
<1>4. /\ Buffered = << >> /\ Buffered' = << >>
      /\ Unsent = << >> /\ (request' = request => Unsent' = << >>)
  BY <1>1, <1>2, <1>3 DEF Buffered, Unsent, Rest
<1>5. CASE request' = request
  BY <1>2, <1>3, <1>4, <1>5, Unseen
<1>6. CASE /\ j + 1 = HALF_BLOCK_SIZE /\ i + 1 = request.count
           /\ request' = NoRequest
  <2>1. /\ Task = [op |-> "read", lba |-> request.lba, count |-> request.count]
        /\ Task' = [op |-> "none"] /\ Unsent' = << >>
    BY <1>1, <1>6 DEF Task, NoRequest, Unsent, Rest
  <2>2. Blocks(memory') = [n \in 1 .. request.count |-> Words(memory', n - 1)]
    BY <1>2, WordRead, DivProduct DEF Blocks
  <2>3. ASSUME NEW n \in 1 .. request.count
        PROVE  Words(memory', n - 1) = medium[request.lba + n - 1]
    <3>1. n - 1 \in 0 .. i /\ request.lba + (n - 1) = request.lba + n - 1
          /\ request.lba + (n - 1) \in Block
      <4>1. request.lba \in Nat /\ request.lba + request.count =< BLOCK_COUNT
            /\ BLOCK_COUNT \in Nat
        BY <1>2, DiskAssumption DEF Block
      <4> QED BY <1>2, <1>6, <4>1 DEF Block
    <3>2. \A o \in Offset :
            memory'[At(n - 1, o)] = medium[request.lba + (n - 1)][o]
      BY <1>6, <3>1, BlockRead
    <3>3. medium[request.lba + (n - 1)] \in Datum
      BY <3>1 DEF ProtocolInv, TypeOK
    <3> QED BY <3>1, <3>2, <3>3 DEF Words, Datum
  <2>4. Blocks(memory') =
          [n \in 1 .. request.count |-> medium[request.lba + n - 1]]
    BY <2>2, <2>3
  <2>5. (IF request = NoRequest THEN Blocks(memory) ELSE << >>)'
          = [n \in 1 .. request.count |-> medium[request.lba + n - 1]]
    BY <1>6, <2>4 DEF Blocks, Words
  <2>6. Store!ReadReturns
    BY <1>3, <1>4, <2>1, <2>5 DEF Store!ReadReturns, Store!NoTask
  <2> QED BY <2>6 DEF Store!Next
<1> QED BY <1>1, <1>5, <1>6, NextWordCases

\* A word written is one with the last of a call, whose block is the only one
\* left to reach the medium.
LEMMA OutWordStored ==
  ASSUME ProtocolInv, TransferInv, OutWord
  PROVE  Store!Next \/ UNCHANGED Store!vars
<1>1. pc = "word" /\ request.op = "write" /\ NextWord
  BY DEF OutWord
<1>2. /\ ~ busy /\ drq /\ command = "write" /\ request \in Requests
      /\ request # NoRequest /\ i \in Nat /\ i < request.count /\ j \in Nat
      /\ request.count \in Nat /\ HALF_BLOCK_SIZE \in Nat \ {0}
      /\ lba = request.lba + i /\ at = j
  BY <1>1, WordFacts
<1>3. /\ UNCHANGED <<medium, lba, command, memory>> /\ Transferred
      /\ busy' = ~ drq'
      /\ buffer' = [buffer EXCEPT ![j] = request.ptr[At(i, j)]]
  BY <1>2 DEF OutWord, Transferred, At
<1>4. Buffered = << >> /\ << >> \o Unsent = Unsent
  BY <1>2, PendingSeq, ConcatEmptySeq DEF Buffered
<1>5. CASE j + 1 < HALF_BLOCK_SIZE /\ j' = j + 1 /\ UNCHANGED <<i, pc, request>>
  <2>1. ~ busy'
    BY <1>1, <1>3, <1>5, TransferredFacts
  <2>2. Buffered' = << >> /\ Unsent' = Unsent
    BY <1>5, <2>1 DEF Buffered, Unsent, Rest, Words
  <2> QED BY <1>3, <1>4, <1>5, <2>2, Unseen
<1>6. ASSUME j + 1 = HALF_BLOCK_SIZE
      PROVE  Buffered' = <<[lba |-> request.lba + i,
                            datum |-> Words(request.ptr, i)]>>
  <2>1. busy' /\ at' = HALF_BLOCK_SIZE
    BY <1>1, <1>3, <1>6, TransferredFacts
  <2>2. buffer' = Words(request.ptr, i)
    <3>1. \A o \in 0 .. j - 1 : buffer[o] = request.ptr[At(i, o)]
      BY <1>1 DEF TransferInv
    <3>2. buffer \in Datum
      BY DEF ProtocolInv, TypeOK
    <3>3. \A o \in Offset : o = j \/ o \in 0 .. j - 1
      BY <1>2, <1>6 DEF Offset
    <3> QED BY <1>3, <3>1, <3>2, <3>3 DEF Words, Datum
  <2> QED BY <1>2, <1>3, <2>1, <2>2 DEF Buffered
<1> i \in 0 .. request.count
  BY <1>2
<1>7. CASE /\ j + 1 = HALF_BLOCK_SIZE /\ i' = i + 1 /\ UNCHANGED request
  <2>1. Unsent' = Rest(request, i + 1)
    BY <1>7 DEF Unsent, Rest, Words
  <2>2. Unsent = <<[lba |-> request.lba + i, datum |-> Words(request.ptr, i)]>>
                  \o Rest(request, i + 1)
    BY <1>1, <1>2, RestNext DEF Unsent
  <2>3. Buffered' \o Unsent' = Unsent
    BY <1>6, <1>7, <2>1, <2>2
  <2> QED BY <1>2, <1>3, <1>4, <1>7, <2>3, Unseen
<1>8. CASE /\ j + 1 = HALF_BLOCK_SIZE /\ i + 1 = request.count
           /\ request' = NoRequest
  <2>1. Unsent' = << >> /\ Task' = [op |-> "none"]
    BY <1>8 DEF Unsent, Rest, Task, NoRequest
  <2>2. Rest(request, i + 1) = << >> /\ Rest(request, i + 1) \in Seq(Entry)
    BY <1>1, <1>2, <1>8, RestSeq
  <2>3. Unsent = Buffered' \o << >>
    BY <1>1, <1>2, <1>6, <1>8, <2>2, RestNext DEF Unsent
  <2>4. Task.op = "write"
    BY <1>1 DEF Task
  <2>5. Len(Unsent) =< 1
    <3>1. Len(Rest(request, i)) = request.count - i
      BY <1>1, <1>2, RestSeq
    <3> QED BY <1>2, <1>8, <3>1 DEF Unsent
  <2>6. /\ (IF request = NoRequest THEN Blocks(memory) ELSE << >>) = << >>
        /\ (IF request = NoRequest THEN Blocks(memory) ELSE << >>)' = << >>
    <3>1. memory = << >>
      BY <1>1 DEF TransferInv
    <3>2. Blocks(memory)' = Blocks(<< >>)
      BY <1>3, <3>1 DEF Blocks, Words
    <3> QED BY <1>2, <3>2, BlocksOfNothing
  <2>7. Store!WriteReturns
    BY <1>3, <1>4, <2>1, <2>3, <2>4, <2>5, <2>6
    DEF Store!WriteReturns, Store!NoTask
  <2> QED BY <2>7 DEF Store!Next
<1> QED BY <1>1, <1>5, <1>7, <1>8, NextWordCases

LEMMA StepStored ==
  ProtocolInv /\ TransferInv /\ [Next]_vars => [Store!Next]_(Store!vars)
<1> SUFFICES ASSUME ProtocolInv, TransferInv, [Next]_vars
             PROVE  Store!Next \/ UNCHANGED Store!vars
  OBVIOUS
<1>1. CASE Processor
  BY <1>1, AccessStored, InWordStored, OutWordStored DEF Processor
<1>2. CASE UNCHANGED vars
  <2>1. UNCHANGED <<medium, request, memory>>
        /\ Buffered' = Buffered /\ Unsent' = Unsent
    BY <1>2 DEF vars, drive, host, Buffered, Unsent, Rest, Words
  <2> QED BY <2>1, Unseen
<1> QED BY <1>1, <1>2, DriveStored, CallStored, PowerLossStored DEF Next

(***************************************************************************)
(* For every drive, every pace of it and every call: read_blocks and       *)
(* write_blocks are a store of whole blocks written in order, of which a   *)
(* power loss can cost the ones that the drive has not reached, the last   *)
(* one of a write that has returned among them (disk.c:4-44).              *)
(***************************************************************************)
THEOREM DiskIsBlockStore == Spec => ImplementsBlockStore
<1>1. ProtocolInv /\ TransferInv /\ [Next]_vars => [Store!Next]_(Store!vars)
  BY StepStored
<1>2. Spec => []TransferInv
  BY StartsEmpty, TransferStep, StaysInStep, PTL DEF Spec
<1>3. Spec => Store!Init /\ [][Store!Next]_(Store!vars)
  BY <1>1, <1>2, StartsStored, StaysInStep, PTL DEF Spec
<1> QED BY <1>3 DEF ImplementsBlockStore, Store!Spec

=============================================================================
