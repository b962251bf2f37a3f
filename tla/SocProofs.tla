----------------------------- MODULE SocProofs -----------------------------
(***************************************************************************)
(* The parts of the TL-UL fabric and the interrupt controller behind it:   *)
(* fifo_sync of any depth is a bounded queue, the socket with any number   *)
(* of devices is an in-order bus for its host, and rv_plic with any number *)
(* of sources and priorities presents and hands out interrupts soundly;    *)
(* and the boot flow for every behaviour of the programmer's status,       *)
(* whatever the order of the resets, with sessions opened under reset.     *)
(***************************************************************************)
EXTENDS SyncFifo, TlulSocket, Plic, BootFlow, SequenceTheorems, WellFoundedInduction, TLAPS

(*                                 fifo_sync                                *)

FifoInv == FifoTypeOK /\ PointersInOrder

LEMMA AdvanceType ==
  ASSUME NEW p \in Ptr
  PROVE  Advance(p) \in Ptr
BY DepthAssumption DEF Ptr, Advance

\* An edge of the clock and a reset preserve the type and the order of pointers.
LEMMA CycleKeepsInv ==
  ASSUME FifoInv, NEW clr \in BOOLEAN, NEW wvalid \in BOOLEAN,
         NEW rready \in BOOLEAN, NEW d \in Data, FifoCycle(clr, wvalid, d, rready)
  PROVE  FifoInv'
<1> DEFINE push == wvalid /\ WReady
           pop  == RValid(wvalid) /\ rready
<1> USE DepthAssumption
<1>1. wptr' \in Ptr /\ rptr' \in Ptr
  BY AdvanceType DEF FifoCycle, Pointer, FifoInv, FifoTypeOK, ZeroPtr, Ptr
<1>2. storage' \in [0 .. Depth - 1 -> Data]
  BY DEF FifoCycle, FifoInv, FifoTypeOK, Ptr
<1>3. /\ inp' \in Data \cup {NoItem} /\ out' \in Data \cup {NoItem}
      /\ under_rst' \in BOOLEAN
  BY DEF FifoCycle, FifoInv, FifoTypeOK, Ptr, RData
<1>4. PointersInOrder'
  <2>1. CASE clr
    BY <2>1 DEF FifoCycle, Pointer, ZeroPtr, PointersInOrder
  <2>2. CASE ~clr /\ push /\ pop
    BY <2>2 DEF FifoCycle, Pointer, PointersInOrder, FifoInv, FifoTypeOK, Ptr, Advance,
                WReady, RValid, Full, Empty
  <2>3. CASE ~clr /\ push /\ ~pop
    <3>1. wptr' = Advance(wptr) /\ rptr' = rptr /\ ~Full
      BY <2>3 DEF FifoCycle, Pointer, WReady
    <3> QED
      BY <3>1 DEF PointersInOrder, FifoInv, FifoTypeOK, Ptr, Advance, Full
  <2>4. CASE ~clr /\ ~push /\ pop
    BY <2>4 DEF FifoCycle, Pointer, PointersInOrder, FifoInv, FifoTypeOK, Ptr, Advance,
                RValid, Empty, WReady, Full
  <2>5. CASE ~clr /\ ~push /\ ~pop
    BY <2>5 DEF FifoCycle, Pointer, PointersInOrder, FifoInv
  <2> QED BY <2>1, <2>2, <2>3, <2>4, <2>5
<1> QED BY <1>1, <1>2, <1>3, <1>4 DEF FifoInv, FifoTypeOK

LEMMA ResetKeepsInv ==
  ASSUME FifoInv, FifoReset
  PROVE  FifoInv'
BY DepthAssumption DEF FifoInv, FifoTypeOK, FifoReset, ZeroPtr, Ptr, PointersInOrder

\* The pointers of fifo_sync stay well-typed and within a lap of each other.
THEOREM FifoTypeCorrect == FifoSpec => [](FifoTypeOK /\ PointersInOrder)
<1>1. FifoInit => FifoInv
  BY DepthAssumption DEF FifoInit, FifoInv, FifoTypeOK, ZeroPtr, Ptr, PointersInOrder
<1>2. FifoInv /\ [FifoNext]_fifoVars => FifoInv'
  <2> SUFFICES ASSUME FifoInv, [FifoNext]_fifoVars PROVE FifoInv'
    OBVIOUS
  <2>1. ASSUME NEW clr \in BOOLEAN, NEW wvalid \in BOOLEAN, NEW rready \in BOOLEAN,
               NEW d \in Data, FifoCycle(clr, wvalid, d, rready)
        PROVE  FifoInv'
    BY <2>1, CycleKeepsInv
  <2>2. CASE FifoReset
    BY <2>2, ResetKeepsInv
  <2>3. CASE UNCHANGED fifoVars
    BY <2>3 DEF fifoVars, FifoInv, FifoTypeOK, PointersInOrder
  <2> QED BY <2>1, <2>2, <2>3 DEF FifoNext
<1> QED BY <1>1, <1>2, PTL DEF FifoSpec, FifoInv

----------------------------------------------------------------------------
(* The content as a function of two pointers and a storage, so that a cycle *)
(* that pushes and pops is a push followed by a pop.                        *)
Lapped(w, r) == IF w.wrap = r.wrap THEN r.idx <= w.idx ELSE w.idx <= r.idx

Occ(w, r) == IF w.wrap = r.wrap THEN w.idx - r.idx ELSE (Depth - r.idx) + w.idx

SlotOf(r, i) == IF r.idx + (i - 1) < Depth THEN r.idx + (i - 1)
                                           ELSE r.idx + (i - 1) - Depth

ContentsOf(w, r, st) == [i \in 1 .. Occ(w, r) |-> st[SlotOf(r, i)]]

StorageType == [0 .. Depth - 1 -> Data]

LEMMA ContentsAre ==
  ASSUME FifoInv
  PROVE  /\ Contents = ContentsOf(wptr, rptr, storage)
         /\ Empty <=> Occ(wptr, rptr) = 0
         /\ Full <=> Occ(wptr, rptr) = Depth
         /\ Lapped(wptr, rptr)
<1>1. Occupancy = Occ(wptr, rptr)
  BY DepthAssumption DEF FifoInv, FifoTypeOK, Ptr, PointersInOrder, Occupancy, Occ, Full
<1>2. Contents = ContentsOf(wptr, rptr, storage)
  BY <1>1 DEF Contents, ContentsOf, Slot, SlotOf
<1>3. Empty <=> Occ(wptr, rptr) = 0
  <2>1. Empty <=> wptr.wrap = rptr.wrap /\ wptr.idx = rptr.idx
    BY DEF FifoInv, FifoTypeOK, Ptr, Empty
  <2>2. /\ wptr.idx \in 0 .. Depth - 1 /\ rptr.idx \in 0 .. Depth - 1
        /\ wptr.wrap # rptr.wrap => wptr.idx <= rptr.idx
    BY DEF FifoInv, FifoTypeOK, Ptr, PointersInOrder
  <2> QED BY <2>1, <2>2, DepthAssumption DEF Occ
<1>4. Full <=> Occ(wptr, rptr) = Depth
  BY DepthAssumption DEF FifoInv, FifoTypeOK, Ptr, PointersInOrder, Occ, Full
<1> QED BY <1>2, <1>3, <1>4 DEF FifoInv, PointersInOrder, Lapped

LEMMA ContentsNext ==
  ASSUME FifoInv'
  PROVE  Contents' = ContentsOf(wptr', rptr', storage')
<1>1. Occupancy' = Occ(wptr', rptr')
  BY DepthAssumption DEF FifoInv, FifoTypeOK, Ptr, PointersInOrder, Occupancy, Occ, Full
<1> QED BY <1>1 DEF Contents, ContentsOf, Slot, SlotOf

LEMMA ContentsType ==
  ASSUME NEW w \in Ptr, NEW r \in Ptr, NEW st \in StorageType, Lapped(w, r)
  PROVE  /\ Occ(w, r) \in 0 .. Depth
         /\ \A i \in 1 .. Occ(w, r) : SlotOf(r, i) \in 0 .. Depth - 1
         /\ ContentsOf(w, r, st) \in Seq(Data)
         /\ Len(ContentsOf(w, r, st)) = Occ(w, r)
<1>1. Occ(w, r) \in 0 .. Depth
  BY DepthAssumption DEF Ptr, Lapped, Occ
<1>2. \A i \in 1 .. Occ(w, r) : SlotOf(r, i) \in 0 .. Depth - 1
  BY <1>1, DepthAssumption DEF Ptr, SlotOf
<1>3. ContentsOf(w, r, st) \in [1 .. Occ(w, r) -> Data]
  BY <1>2 DEF ContentsOf, StorageType
<1> QED BY <1>1, <1>2, <1>3, DepthAssumption

LEMMA PushAppends ==
  ASSUME NEW w \in Ptr, NEW r \in Ptr, NEW st \in StorageType, NEW d \in Data,
         Lapped(w, r), Occ(w, r) # Depth
  PROVE  LET w2  == Advance(w)
             st2 == [st EXCEPT ![w.idx] = d]
         IN  /\ w2 \in Ptr /\ st2 \in StorageType /\ Lapped(w2, r)
             /\ Occ(w2, r) = Occ(w, r) + 1
             /\ ContentsOf(w2, r, st2) = Append(ContentsOf(w, r, st), d)
<1> DEFINE w2  == Advance(w)
           st2 == [st EXCEPT ![w.idx] = d]
           n   == Occ(w, r)
           c   == ContentsOf(w, r, st)
           c2  == ContentsOf(w2, r, st2)
<1>1. w2 \in Ptr /\ st2 \in StorageType
  BY AdvanceType DEF Ptr, StorageType
<1>2. Lapped(w2, r) /\ Occ(w2, r) = n + 1
  BY DepthAssumption DEF Ptr, Lapped, Occ, Advance
<1>3. n \in Nat /\ SlotOf(r, n + 1) = w.idx
  BY DepthAssumption DEF Ptr, Lapped, Occ, SlotOf
<1>4. \A i \in 1 .. n : SlotOf(r, i) \in 0 .. Depth - 1 /\ SlotOf(r, i) # w.idx
  BY DepthAssumption DEF Ptr, Lapped, Occ, SlotOf
<1>5. c \in Seq(Data) /\ Len(c) = n
  BY ContentsType
<1>6. c2 \in Seq(Data) /\ Len(c2) = n + 1
  BY <1>1, <1>2, ContentsType
<1>7. ASSUME NEW i \in 1 .. n + 1 PROVE c2[i] = Append(c, d)[i]
  <2>1. c2[i] = st2[SlotOf(r, i)]
    BY <1>2, <1>3 DEF ContentsOf
  <2>2. CASE i = n + 1
    BY <2>1, <2>2, <1>3, <1>5 DEF StorageType, Ptr
  <2>3. CASE i # n + 1
    <3>1. i \in 1 .. n
      BY <2>3, <1>3
    <3>2. c[i] = st[SlotOf(r, i)]
      BY <3>1 DEF ContentsOf
    <3>3. st2[SlotOf(r, i)] = st[SlotOf(r, i)]
      BY <3>1, <1>4 DEF StorageType
    <3>4. Append(c, d)[i] = c[i]
      BY <3>1, <1>5
    <3> QED BY <2>1, <3>2, <3>3, <3>4
  <2> QED BY <2>2, <2>3
<1>8. Append(c, d) \in Seq(Data) /\ Len(Append(c, d)) = n + 1
  BY <1>5
<1>9. c2 = Append(c, d)
  <2> HIDE DEF c, c2
  <2> QED BY <1>3, <1>6, <1>7, <1>8
<1> QED BY <1>1, <1>2, <1>9

LEMMA PopTakesHead ==
  ASSUME NEW w \in Ptr, NEW r \in Ptr, NEW st \in StorageType,
         Lapped(w, r), Occ(w, r) # 0
  PROVE  LET r2 == Advance(r)
         IN  /\ r2 \in Ptr /\ Lapped(w, r2)
             /\ ContentsOf(w, r, st) # << >>
             /\ st[r.idx] = Head(ContentsOf(w, r, st))
             /\ ContentsOf(w, r2, st) = Tail(ContentsOf(w, r, st))
<1> DEFINE r2 == Advance(r)
           n  == Occ(w, r)
           c  == ContentsOf(w, r, st)
           c2 == ContentsOf(w, r2, st)
<1>1. r2 \in Ptr
  BY AdvanceType
<1>2. Lapped(w, r2) /\ Occ(w, r2) = n - 1 /\ n \in Nat
  <2>1. n \in Nat
    BY ContentsType, DepthAssumption
  <2>2. CASE r.idx = Depth - 1
    BY <2>2, DepthAssumption DEF Ptr, Lapped, Occ, Advance
  <2>3. CASE r.idx # Depth - 1
    BY <2>3, DepthAssumption DEF Ptr, Lapped, Occ, Advance
  <2> QED BY <2>1, <2>2, <2>3
<1>3. c \in Seq(Data) /\ Len(c) = n
  BY ContentsType
<1>4. c2 \in Seq(Data) /\ Len(c2) = n - 1
  BY <1>1, <1>2, ContentsType
<1>5. c # << >> /\ c[1] = st[r.idx]
  <2>1. SlotOf(r, 1) = r.idx
    BY DepthAssumption DEF Ptr, SlotOf
  <2> QED BY <2>1, <1>2, <1>3 DEF ContentsOf
<1>6. ASSUME NEW i \in 1 .. n - 1 PROVE c2[i] = Tail(c)[i]
  <2>1. i \in 1 .. Occ(w, r2) /\ i + 1 \in 1 .. Occ(w, r)
    BY <1>2
  <2>2. SlotOf(r2, i) = SlotOf(r, i + 1)
    <3>1. n <= Depth
      BY ContentsType
    <3> HIDE DEF n
    <3> QED BY <3>1, <1>2, DepthAssumption DEF Ptr, SlotOf, Advance
  <2>3. c2[i] = st[SlotOf(r2, i)] /\ c[i + 1] = st[SlotOf(r, i + 1)]
    BY <2>1 DEF ContentsOf
  <2>4. Tail(c)[i] = c[i + 1]
    BY <1>2, <1>3, <1>5
  <2> QED BY <2>2, <2>3, <2>4
<1>7. Tail(c) \in Seq(Data) /\ Len(Tail(c)) = n - 1
  BY <1>3, <1>5
<1>8. c2 = Tail(c)
  <2> HIDE DEF c, c2, n
  <2> QED BY <1>2, <1>4, <1>6, <1>7
<1>9. Head(c) = c[1]
  BY <1>3, <1>5
<1> QED BY <1>1, <1>2, <1>5, <1>8, <1>9
----------------------------------------------------------------------------
LEMMA ContentsEmptyAtZero == ContentsOf(ZeroPtr, ZeroPtr, storage') = << >>
BY DEF ContentsOf, Occ, ZeroPtr

\* A clock edge without a flush is one of the queue's own steps.
LEMMA TransferImplements ==
  ASSUME FifoInv, NEW wvalid \in BOOLEAN, NEW rready \in BOOLEAN, NEW d \in Data,
         FifoCycle(FALSE, wvalid, d, rready)
  PROVE  Queue!Next
<1> DEFINE push == wvalid /\ WReady
           pop  == RValid(wvalid) /\ rready
           w2   == Advance(wptr)
           st2  == [storage EXCEPT ![wptr.idx] = d]
           c    == ContentsOf(wptr, rptr, storage)
           c2   == ContentsOf(w2, rptr, st2)
<1>1. /\ FifoInv'
      /\ Contents' = ContentsOf(wptr', rptr', storage')
      /\ Contents = c /\ Lapped(wptr, rptr)
      /\ wptr \in Ptr /\ rptr \in Ptr /\ storage \in StorageType
  BY CycleKeepsInv, ContentsNext, ContentsAre DEF FifoInv, FifoTypeOK, StorageType
<1>2. c \in Seq(Data) /\ Len(c) = Occ(wptr, rptr) /\ Len(c) <= Depth
  BY <1>1, ContentsType, DepthAssumption
<1>3. (Empty <=> Occ(wptr, rptr) = 0) /\ (Full <=> Occ(wptr, rptr) = Depth)
  BY ContentsAre
<1>4. ASSUME push
      PROVE  /\ wptr' = w2 /\ storage' = st2 /\ Len(c) < Depth
             /\ w2 \in Ptr /\ st2 \in StorageType /\ Lapped(w2, rptr)
             /\ Occ(w2, rptr) = Occ(wptr, rptr) + 1
             /\ c2 = Append(c, d)
  <2>1. wptr' = w2 /\ storage' = st2 /\ ~Full
    BY <1>4 DEF FifoCycle, Pointer, WReady
  <2>2. Occ(wptr, rptr) # Depth /\ Len(c) < Depth
    BY <2>1, <1>2, <1>3, DepthAssumption
  <2> QED BY <2>1, <2>2, <1>1, PushAppends
<1>5. CASE push /\ pop
  <2>1. rptr' = Advance(rptr) /\ inp' = d /\ out' = RData(wvalid, d)
    BY <1>5 DEF FifoCycle, Pointer
  <2>2. Occ(w2, rptr) # 0
    BY <1>4, <1>5, <1>1, ContentsType, DepthAssumption
  <2>3. Contents' = Tail(c2) /\ st2[rptr.idx] = Head(c2)
    <3>1. /\ ContentsOf(w2, Advance(rptr), st2) = Tail(c2)
          /\ st2[rptr.idx] = Head(c2)
      <4>1. w2 \in Ptr /\ st2 \in StorageType /\ Lapped(w2, rptr)
        BY <1>4, <1>5
      <4> HIDE DEF w2, st2
      <4> QED BY <4>1, <2>2, <1>1, PopTakesHead
    <3>2. Contents' = ContentsOf(w2, Advance(rptr), st2)
      BY <2>1, <1>1, <1>4, <1>5
    <3> QED BY <3>1, <3>2
  <2>4. out' = Head(c2)
    <3>1. CASE Empty
      <4>1. Pass /\ out' = d
        BY <3>1, <2>1, <1>5 DEF RValid, RData
      <4>2. wptr.idx = rptr.idx
        BY <3>1 DEF Empty
      <4>3. st2[rptr.idx] = d
        BY <4>2, <1>1 DEF StorageType, Ptr
      <4> QED BY <4>1, <4>3, <2>3
    <3>2. CASE ~Empty
      <4>1. out' = storage[rptr.idx] /\ storage[rptr.idx] = Head(c)
        BY <3>2, <2>1, <1>1, <1>3, PopTakesHead DEF RData
      <4>2. c # << >> /\ c[1] = Head(c) /\ Append(c, d)[1] = c[1]
        BY <3>2, <1>2, <1>3
      <4>3. Head(c2) = c2[1]
        BY <1>2, <1>4, <1>5
      <4> QED BY <4>1, <4>2, <4>3, <1>4, <1>5
    <3> QED BY <3>1, <3>2
  <2>5. Pass \/ c # << >>
    BY <1>5, <1>2, <1>3 DEF RValid
  <2>6. Queue!PutTake(d)
    BY <2>1, <2>3, <2>4, <2>5, <1>1, <1>4, <1>5 DEF Queue!PutTake
  <2> QED BY <2>6 DEF Queue!Next
<1>6. CASE push /\ ~pop
  <2>1. rptr' = rptr /\ inp' = d /\ out' = NoItem
    BY <1>6 DEF FifoCycle, Pointer
  <2>2. Queue!Put(d)
    BY <2>1, <1>1, <1>4, <1>6 DEF Queue!Put
  <2> QED BY <2>2 DEF Queue!Next
<1>7. CASE ~push /\ pop
  <2>1. /\ wptr' = wptr /\ rptr' = Advance(rptr) /\ storage' = storage
        /\ inp' = NoItem /\ out' = RData(wvalid, d)
    BY <1>7 DEF FifoCycle, Pointer
  <2>2. ~Empty
    <3>1. Empty => ~Full
      BY <1>3, DepthAssumption
    <3> QED BY <3>1, <1>7 DEF RValid, WReady
  <2>3. /\ out' = Head(c) /\ c # << >> /\ Contents' = Tail(c)
    BY <2>1, <2>2, <1>1, <1>3, PopTakesHead DEF RData
  <2>4. Queue!Take
    BY <2>1, <2>3, <1>1 DEF Queue!Take
  <2> QED BY <2>4 DEF Queue!Next
<1>8. CASE ~push /\ ~pop
  <2>1. /\ wptr' = wptr /\ rptr' = rptr /\ storage' = storage
        /\ inp' = NoItem /\ out' = NoItem
    BY <1>8 DEF FifoCycle, Pointer
  <2>2. Queue!Idle
    BY <2>1, <1>1 DEF Queue!Idle
  <2> QED BY <2>2 DEF Queue!Next
<1> QED BY <1>5, <1>6, <1>7, <1>8

\* A flush empties the queue; a reader of the same cycle gets the oldest item.
LEMMA FlushImplements ==
  ASSUME FifoInv, NEW wvalid \in BOOLEAN, NEW rready \in BOOLEAN, NEW d \in Data,
         FifoCycle(TRUE, wvalid, d, rready)
  PROVE  Queue!Next
<1>1. /\ Contents' = << >>
      /\ Contents = ContentsOf(wptr, rptr, storage) /\ Lapped(wptr, rptr)
      /\ wptr \in Ptr /\ rptr \in Ptr /\ storage \in StorageType
  <2>1. wptr' = ZeroPtr /\ rptr' = ZeroPtr
    BY DEF FifoCycle, Pointer
  <2> QED BY <2>1, CycleKeepsInv, ContentsNext, ContentsAre, ContentsEmptyAtZero
          DEF FifoInv, FifoTypeOK, StorageType
<1>2. /\ \/ out' = NoItem
         \/ out' = RData(wvalid, d) /\ RValid(wvalid)
      /\ inp' = IF wvalid /\ WReady THEN d ELSE NoItem
  BY DEF FifoCycle
<1>0. /\ inp' \in Data \cup {NoItem}
      /\ inp' # NoItem => Len(Contents) < Depth
  <2>1. /\ Contents \in Seq(Data) /\ Len(Contents) = Occ(wptr, rptr)
        /\ Occ(wptr, rptr) \in 0 .. Depth
    BY <1>1, ContentsType
  <2>2. ~Full => Occ(wptr, rptr) # Depth
    BY ContentsAre
  <2> QED BY <2>1, <2>2, <1>2, DepthAssumption DEF WReady
<1>3. CASE out' = RData(wvalid, d) /\ RValid(wvalid) /\ ~Empty
  <2>1. out' = Head(Contents) /\ Contents # << >>
    BY <1>1, <1>3, ContentsAre, PopTakesHead DEF RData
  <2> QED BY <2>1, <1>0, <1>1 DEF Queue!Next, Queue!Flush
<1>4. CASE out' = RData(wvalid, d) /\ RValid(wvalid) /\ Empty
  <2>1. Pass /\ inp' = d /\ out' = d
    <3>1. ~Full
      BY <1>4, ContentsAre, DepthAssumption
    <3> QED BY <3>1, <1>2, <1>4 DEF RData, RValid, WReady
  <2>2. Contents = << >>
    BY <1>1, <1>4, ContentsAre, ContentsType DEF ContentsOf
  <2> QED BY <2>1, <2>2, <1>0, <1>1, DataAssumption DEF Queue!Next, Queue!Flush
<1>5. CASE out' = NoItem
  BY <1>0, <1>1, <1>5 DEF Queue!Next, Queue!Flush
<1> QED BY <1>2, <1>3, <1>4, <1>5

\* fifo_sync implements the bounded queue for every depth, with and without
\* the pass-through path.
THEOREM FifoIsQueue == FifoSpec => ImplementsQueue
<1>1. FifoInit => Queue!Init
  <2> SUFFICES ASSUME FifoInit PROVE Queue!Init
    OBVIOUS
  <2>1. Occupancy = 0
    BY DepthAssumption DEF FifoInit, ZeroPtr, Occupancy, Full
  <2>2. Contents = << >>
    BY <2>1 DEF Contents
  <2> QED BY <2>2 DEF FifoInit, Queue!Init
<1>2. FifoInv /\ [FifoNext]_fifoVars => [Queue!Next]_(Queue!vars)
  <2> SUFFICES ASSUME FifoInv, [FifoNext]_fifoVars PROVE [Queue!Next]_(Queue!vars)
    OBVIOUS
  <2>1. ASSUME NEW clr \in BOOLEAN, NEW wvalid \in BOOLEAN, NEW rready \in BOOLEAN,
               NEW d \in Data, FifoCycle(clr, wvalid, d, rready)
        PROVE  Queue!Next
    BY <2>1, TransferImplements, FlushImplements
  <2>2. CASE FifoReset
    <3>1. Contents' = << >> /\ inp' = NoItem /\ out' = NoItem
      BY <2>2, ResetKeepsInv, ContentsNext, ContentsEmptyAtZero DEF FifoReset
    <3> QED BY <3>1 DEF Queue!Next, Queue!Flush
  <2>3. CASE UNCHANGED fifoVars
    <3>1. Contents' = Contents /\ inp' = inp /\ out' = out
      BY <2>3 DEF fifoVars, Contents, Occupancy, Slot, Full
    <3> QED BY <3>1 DEF Queue!vars
  <2> QED BY <2>1, <2>2, <2>3 DEF FifoNext
<1>3. FifoSpec => []FifoInv
  BY FifoTypeCorrect, PTL DEF FifoInv
<1> QED BY <1>1, <1>2, <1>3, PTL DEF FifoSpec, Queue!Spec, ImplementsQueue

-----------------------------------------------------------------------------
(*                               tlul_socket_1n                             *)

\* The source number n requests before q.
Back(q, n) == IF n <= q THEN q - n ELSE (q + MaxReqs) - n

\* Source numbers are handed out in turn and at most MaxReqs are in use.
SourcesInTurn ==
  /\ Len(sent) <= MaxReqs
  /\ req # Nothing => Len(sent) < MaxReqs
  /\ \A k \in DOMAIN sent : sent[k].src = Back(source_q, (Len(sent) - k) + 1)

\* The error responder holds one answer, fresh or stalled.
ErrOnce == ~(err_req_pending /\ err_rsp_pending)

SocketInv == SocketTypeOK /\ CounterExact /\ OneDeviceBusy /\ SourcesInTurn /\ ErrOnce

LEMMA SourcesOfType ==
  ASSUME NEW s \in Seq(Request)
  PROVE  /\ SourcesOf(s) \in Seq(Sources)
         /\ Len(SourcesOf(s)) = Len(s)
         /\ \A k \in 1 .. Len(s) : SourcesOf(s)[k] = s[k].src
<1>1. Len(s) \in Nat /\ DOMAIN s = 1 .. Len(s)
  OBVIOUS
<1>2. \A k \in 1 .. Len(s) : s[k] \in Request /\ s[k].src \in Sources
  <2>1. \A k \in 1 .. Len(s) : s[k] \in Request
    OBVIOUS
  <2> QED BY <2>1 DEF Request
<1>3. SourcesOf(s) = [k \in 1 .. Len(s) |-> s[k].src]
  BY <1>1 DEF SourcesOf
<1>4. SourcesOf(s) \in [1 .. Len(s) -> Sources]
  BY <1>2, <1>3
<1> QED BY <1>1, <1>3, <1>4

LEMMA SourcesOfAppend ==
  ASSUME NEW s \in Seq(Request), NEW r \in Request
  PROVE  SourcesOf(Append(s, r)) = Append(SourcesOf(s), r.src)
<1>1. SourcesOf(s) \in Seq(Sources) /\ Len(SourcesOf(s)) = Len(s)
  BY SourcesOfType
<1>2. SourcesOf(Append(s, r)) = [k \in 1 .. Len(s) + 1 |-> Append(s, r)[k].src]
  BY DEF SourcesOf
<1>3. ASSUME NEW k \in 1 .. Len(s) + 1
      PROVE  Append(s, r)[k].src = Append(SourcesOf(s), r.src)[k]
  <2>1. CASE k = Len(s) + 1
    BY <2>1, <1>1
  <2>2. CASE k # Len(s) + 1
    <3>1. k \in 1 .. Len(s)
      BY <2>2
    <3>2. Append(s, r)[k] = s[k] /\ Append(SourcesOf(s), r.src)[k] = SourcesOf(s)[k]
      BY <3>1, <1>1
    <3> QED BY <3>1, <3>2 DEF SourcesOf
  <2> QED BY <2>1, <2>2
<1>4. Append(SourcesOf(s), r.src) = [k \in 1 .. Len(s) + 1 |-> Append(SourcesOf(s), r.src)[k]]
  BY <1>1 DEF Request
<1> QED BY <1>2, <1>3, <1>4

LEMMA SourcesOfTail ==
  ASSUME NEW s \in Seq(Request), s # << >>
  PROVE  /\ SourcesOf(Tail(s)) = Tail(SourcesOf(s))
         /\ SourcesOf(s) # << >>
         /\ Head(SourcesOf(s)) = Head(s).src
<1>1. SourcesOf(s) \in Seq(Sources) /\ Len(SourcesOf(s)) = Len(s) /\ Len(s) \in Nat \ {0}
  <2>1. Len(s) \in Nat \ {0}
    OBVIOUS
  <2> QED BY <2>1, SourcesOfType
<1>2. ASSUME NEW k \in 1 .. Len(s) - 1
      PROVE  Tail(s)[k].src = Tail(SourcesOf(s))[k]
  <2>1. k + 1 \in 1 .. Len(s)
    BY <1>1
  <2>2. Tail(s)[k] = s[k + 1] /\ Tail(SourcesOf(s))[k] = SourcesOf(s)[k + 1]
    BY <1>1
  <2> QED BY <2>1, <2>2 DEF SourcesOf
<1>3. SourcesOf(Tail(s)) = [k \in 1 .. Len(s) - 1 |-> Tail(s)[k].src]
  BY <1>1 DEF SourcesOf
<1>4. Tail(SourcesOf(s)) = [k \in 1 .. Len(s) - 1 |-> Tail(SourcesOf(s))[k]]
  <2> DEFINE t == SourcesOf(s)
  <2> HIDE DEF t
  <2>1. t \in Seq(Sources) /\ Len(t) = Len(s) /\ Len(s) \in Nat \ {0}
    BY <1>1 DEF t
  <2>2. Tail(t) \in Seq(Sources) /\ Len(Tail(t)) = Len(s) - 1
    BY <2>1
  <2>3. ASSUME NEW u \in Seq(Sources) PROVE u = [k \in 1 .. Len(u) |-> u[k]]
    OBVIOUS
  <2>4. Tail(t) = [k \in 1 .. Len(s) - 1 |-> Tail(t)[k]]
    BY <2>2, <2>3
  <2> QED BY <2>4 DEF t
<1>5. Head(SourcesOf(s)) = Head(s).src
  BY <1>1 DEF SourcesOf
<1> QED BY <1>1, <1>2, <1>3, <1>4, <1>5

LEMMA SourcesOfEmpty == SourcesOf(<< >>) = << >>
BY DEF SourcesOf

LEMMA AnswerIsOldest ==
  ASSUME SocketInv, NEW valid \in SUBSET Busy, NEW d_ready \in BOOLEAN,
         AcceptRsp(valid, d_ready)
  PROVE  /\ sent # << >>
         /\ Head(sent) = [dev |-> dev_select_outstanding, src |-> AnswerSource]
<1>1. sent \in Seq(Request) /\ dev_select_outstanding \in Targets
  BY DEF SocketInv, SocketTypeOK
<1>2. sent # << >> /\ AnswerSource = Head(sent).src
  <2>1. CASE dev_select_outstanding = N
    <3>1. sent # << >> /\ err_source = sent[1].src
      BY <2>1 DEF AcceptRsp, SocketInv, OneDeviceBusy
    <3> QED BY <3>1, <2>1, <1>1 DEF AnswerSource
  <2>2. CASE dev_select_outstanding # N
    <3>1. /\ dev_select_outstanding \in Devices
          /\ dq[dev_select_outstanding] # << >>
      BY <2>2, <1>1, NAssumption DEF AcceptRsp, Busy, Targets, Devices
    <3>2. dq[dev_select_outstanding] = SourcesOf(sent)
      BY <3>1 DEF SocketInv, OneDeviceBusy
    <3>3. sent # << >>
      <4>1. SourcesOf(<< >>) = << >>
        BY DEF SourcesOf
      <4> QED BY <4>1, <3>1, <3>2
    <3> QED BY <3>2, <3>3, <2>2, <1>1, SourcesOfTail DEF AnswerSource
  <2> QED BY <2>1, <2>2
<1>3. Head(sent) \in Request /\ Head(sent) = sent[1] /\ 1 \in DOMAIN sent
  BY <1>1, <1>2
<1>4. Head(sent).dev = dev_select_outstanding
  BY <1>3 DEF SocketInv, OneDeviceBusy
<1> QED BY <1>2, <1>3, <1>4 DEF Request

\* A request is accepted only into an empty pipeline or behind requests for the
\* same device, and never when all source numbers are taken.
LEMMA AcceptIsSafe ==
  ASSUME SocketInv, NEW rdy \in BOOLEAN, NEW d_ready \in BOOLEAN,
         AcceptReq(rdy, d_ready)
  PROVE  /\ req \in Targets
         /\ [dev |-> req, src |-> source_q] \in Request
         /\ Len(sent) < MaxReqs
         /\ sent = << >> \/ req = dev_select_outstanding
<1>1. req \in Targets /\ source_q \in Sources /\ sent \in Seq(Request)
  BY DEF SocketInv, SocketTypeOK, AcceptReq
<1>2. num_req_outstanding = Len(sent) /\ Len(sent) < MaxReqs
  BY DEF SocketInv, CounterExact, SourcesInTurn, AcceptReq
<1>3. num_req_outstanding = 0 \/ req = dev_select_outstanding
  BY DEF AcceptReq, HoldAllRequests
<1> QED BY <1>1, <1>2, <1>3 DEF Request

\* The requests in flight after a cycle: the oldest leaves (d), a new one joins (a).
LEMMA FlightStep ==
  ASSUME NEW s \in Seq(Request), NEW r \in Request,
         NEW a \in BOOLEAN, NEW d \in BOOLEAN, d => s # << >>
  PROVE  LET rest == IF d THEN Tail(s) ELSE s
             next == IF a THEN Append(rest, r) ELSE rest
         IN  /\ rest \in Seq(Request) /\ next \in Seq(Request)
             /\ Len(rest) = IF d THEN Len(s) - 1 ELSE Len(s)
             /\ Len(next) = IF a THEN Len(rest) + 1 ELSE Len(rest)
             /\ \A k \in 1 .. Len(rest) :
                  /\ rest[k] = IF d THEN s[k + 1] ELSE s[k]
                  /\ next[k] = rest[k]
             /\ a => next[Len(next)] = r
<1> DEFINE rest == IF d THEN Tail(s) ELSE s
           next == IF a THEN Append(rest, r) ELSE rest
<1>1. /\ rest \in Seq(Request)
      /\ Len(rest) = IF d THEN Len(s) - 1 ELSE Len(s)
      /\ \A k \in 1 .. Len(rest) : rest[k] = IF d THEN s[k + 1] ELSE s[k]
  <2>1. CASE d
    <3>1. Tail(s) \in Seq(Request) /\ Len(Tail(s)) = Len(s) - 1
      BY <2>1
    <3>2. \A k \in 1 .. Len(s) - 1 : Tail(s)[k] = s[k + 1]
      BY <2>1
    <3> QED BY <2>1, <3>1, <3>2
  <2>2. CASE ~d
    BY <2>2
  <2> QED BY <2>1, <2>2
<1> HIDE DEF rest
<1>2. /\ next \in Seq(Request)
      /\ Len(next) = IF a THEN Len(rest) + 1 ELSE Len(rest)
      /\ \A k \in 1 .. Len(rest) : next[k] = rest[k]
      /\ a => next[Len(next)] = r
  <2>1. CASE a
    BY <1>1, <2>1
  <2>2. CASE ~a
    BY <1>1, <2>2
  <2> QED BY <2>1, <2>2
<1> QED BY <1>1, <1>2 DEF rest

\* Going back from the next source number, and back to a number still in use.
LEMMA BackNext ==
  ASSUME source_q \in Sources, NEW n \in Nat, n < MaxReqs
  PROVE  /\ NextSource \in Sources
         /\ Back(NextSource, n + 1) = Back(source_q, n)
         /\ Back(source_q, 0) = source_q
         /\ n >= 1 => Back(source_q, n) # source_q
BY MaxReqsAssumption DEF Back, NextSource, Sources

LEMMA CounterStep ==
  ASSUME SocketInv, NEW a \in BOOLEAN, NEW d \in BOOLEAN,
         a => Len(sent) < MaxReqs, d => sent # << >>
  PROVE  /\ Counter(a, d) \in 0 .. CountMod - 1
         /\ Counter(a, d) = (IF d THEN Len(sent) - 1 ELSE Len(sent))
                            + (IF a THEN 1 ELSE 0)
<1>1. /\ num_req_outstanding = Len(sent) /\ Len(sent) \in Nat
      /\ Len(sent) <= MaxReqs
      /\ d => Len(sent) # 0
  BY DEF SocketInv, SocketTypeOK, CounterExact, SourcesInTurn
<1>2. CASE a /\ ~d
  <2>1. Len(sent) + 1 \in 0 .. CountMod - 1
    BY <1>1, <1>2, CountAssumption, MaxReqsAssumption
  <2>2. (Len(sent) + 1) % CountMod = Len(sent) + 1
    BY <2>1, CountAssumption
  <2> QED BY <2>1, <2>2, <1>1, <1>2 DEF Counter
<1>3. CASE ~a /\ d
  BY <1>1, <1>3, CountAssumption, MaxReqsAssumption DEF Counter
<1>4. CASE a = d
  BY <1>1, <1>4, CountAssumption, MaxReqsAssumption DEF Counter
<1> QED BY <1>2, <1>3, <1>4

----------------------------------------------------------------------------
\* One clock edge: the invariant is kept, and the host sees a step of the bus.
LEMMA SocketCycleStep ==
  ASSUME SocketInv, NEW rdy \in BOOLEAN, NEW valid \in SUBSET Busy,
         NEW d_ready \in HostReady, Cycle(rdy, valid, d_ready)
  PROVE  SocketInv' /\ Bus!Next
<1> DEFINE a    == AcceptReq(rdy, d_ready)
           d    == AcceptRsp(valid, d_ready)
           r    == [dev |-> req, src |-> source_q]
           rest == IF d THEN Tail(sent) ELSE sent
           dev  == dev_select_outstanding
<1>0. /\ d_ready \in BOOLEAN /\ a \in BOOLEAN /\ d \in BOOLEAN
      /\ sent \in Seq(Request) /\ dev \in Targets /\ source_q \in Sources
      /\ num_req_outstanding = Len(sent) /\ Len(sent) \in Nat /\ Len(sent) <= MaxReqs
      /\ 0 \in Sources
  BY ReadyAssumption, MaxReqsAssumption
     DEF SocketInv, SocketTypeOK, AcceptReq, AcceptRsp, CounterExact, SourcesInTurn, Sources
<1>1. ASSUME a
      PROVE  /\ req \in Targets /\ r \in Request /\ Len(sent) < MaxReqs
             /\ sent = << >> \/ req = dev
  BY <1>0, <1>1, AcceptIsSafe
<1>2. ASSUME d
      PROVE  /\ sent # << >> /\ Len(sent) >= 1
             /\ Head(sent) = [dev |-> dev, src |-> AnswerSource]
             /\ Head(sent) \in Request
  <2>1. sent # << >> /\ Head(sent) = [dev |-> dev, src |-> AnswerSource]
    BY <1>0, <1>2, AnswerIsOldest
  <2>2. Head(sent) \in Request /\ Len(sent) >= 1
    BY <2>1, <1>0
  <2> QED BY <2>1, <2>2
<1>3. /\ sent' = IF a THEN Append(rest, r) ELSE rest
      /\ got' = IF d THEN Head(sent) ELSE Nothing
      /\ num_req_outstanding' = Counter(a, d)
      /\ dev_select_outstanding' = IF a THEN req ELSE dev
      /\ source_q' = IF a THEN NextSource ELSE source_q
      /\ dq' = [i \in Devices |-> DeviceQueue(i, a, valid, d_ready)]
      /\ ErrResp(a, d_ready)
      /\ HostRequest(a)
  BY <1>2 DEF Cycle
<1>4. /\ rest \in Seq(Request) /\ sent' \in Seq(Request)
      /\ Len(rest) = IF d THEN Len(sent) - 1 ELSE Len(sent)
      /\ Len(sent') = IF a THEN Len(rest) + 1 ELSE Len(rest)
      /\ \A k \in 1 .. Len(rest) :
           /\ rest[k] = IF d THEN sent[k + 1] ELSE sent[k]
           /\ sent'[k] = rest[k]
      /\ a => sent'[Len(sent')] = r
  <2>1. CASE a
    BY <1>0, <1>1, <1>2, <1>3, <2>1, FlightStep
  <2>2. CASE ~a
    <3>1. PICK r0 \in Request : TRUE
      <4>1. [dev |-> 0, src |-> 0] \in Request
        BY <1>0, NAssumption DEF Request, Targets
      <4> QED BY <4>1
    <3> QED BY <3>1, <1>0, <1>2, <1>3, <2>2, FlightStep
  <2> QED BY <2>1, <2>2
<1>5. CounterExact' /\ num_req_outstanding' \in 0 .. CountMod - 1
  <2>1. a => Len(sent) < MaxReqs
    BY <1>1
  <2>2. d => sent # << >>
    BY <1>2
  <2>3. /\ Counter(a, d) \in 0 .. CountMod - 1
        /\ Counter(a, d) = (IF d THEN Len(sent) - 1 ELSE Len(sent)) + (IF a THEN 1 ELSE 0)
    BY <2>1, <2>2, <1>0, CounterStep
  <2>4. Len(sent') = (IF d THEN Len(sent) - 1 ELSE Len(sent)) + (IF a THEN 1 ELSE 0)
    <3>1. Len(rest) = IF d THEN Len(sent) - 1 ELSE Len(sent)
      BY <1>4
    <3>2. Len(rest) \in Nat
      BY <1>4
    <3>3. CASE a
      <4>1. Len(sent') = Len(rest) + 1
        BY <3>3, <1>4
      <4> QED BY <4>1, <3>1, <3>3
    <3>4. CASE ~a
      <4>1. Len(sent') = Len(rest)
        BY <3>4, <1>4
      <4>2. Len(rest) + 0 = Len(rest)
        BY <3>2
      <4> QED BY <4>1, <4>2, <3>1, <3>4
    <3> QED BY <3>3, <3>4
  <2> QED BY <2>3, <2>4, <1>3 DEF CounterExact
<1>6. SourcesInTurn'
  <2>1. Len(sent') <= MaxReqs
    <3>1. Len(rest) \in Nat /\ Len(rest) <= Len(sent)
      BY <1>0, <1>4
    <3>2. CASE a
      BY <3>1, <3>2, <1>0, <1>1, <1>4, MaxReqsAssumption
    <3>3. CASE ~a
      BY <3>1, <3>3, <1>0, <1>4, MaxReqsAssumption
    <3> QED BY <3>2, <3>3
  <2>2. req' # Nothing => Len(sent') < MaxReqs
    <3>1. CASE req # Nothing /\ ~a
      <4>1. req' = req /\ Len(sent) < MaxReqs
        BY <3>1, <1>3 DEF HostRequest, SocketInv, SourcesInTurn
      <4>2. Len(sent') <= Len(sent) /\ Len(sent') \in Nat
        BY <3>1, <1>0, <1>4
      <4> QED BY <4>1, <4>2, <1>0, MaxReqsAssumption
    <3>2. CASE req = Nothing \/ a
      BY <3>2, <1>3 DEF HostRequest
    <3> QED BY <3>1, <3>2
  <2>3. ASSUME NEW k \in 1 .. Len(rest)
        PROVE  sent'[k].src = Back(source_q, (Len(rest) - k) + 1)
    <3>1. CASE d
      <4>1. k + 1 \in DOMAIN sent /\ (Len(sent) - (k + 1)) + 1 = (Len(rest) - k) + 1
        BY <3>1, <1>0, <1>4
      <4>2. sent[k + 1].src = Back(source_q, (Len(sent) - (k + 1)) + 1)
        BY <4>1 DEF SocketInv, SourcesInTurn
      <4> QED BY <4>1, <4>2, <3>1, <1>4
    <3>2. CASE ~d
      <4>1. k \in DOMAIN sent /\ Len(sent) = Len(rest)
        BY <3>2, <1>0, <1>4
      <4>2. sent[k].src = Back(source_q, (Len(sent) - k) + 1)
        BY <4>1 DEF SocketInv, SourcesInTurn
      <4> QED BY <4>1, <4>2, <3>2, <1>4
    <3> QED BY <3>1, <3>2
  <2>4. ASSUME NEW k \in DOMAIN sent'
        PROVE  sent'[k].src = Back(source_q', (Len(sent') - k) + 1)
    <3>0. Len(rest) \in Nat /\ k \in 1 .. Len(sent')
      BY <1>0, <1>4
    <3>1. CASE a /\ k \in 1 .. Len(rest)
      <4>1. /\ (Len(rest) - k) + 1 \in Nat /\ (Len(rest) - k) + 1 < MaxReqs
            /\ (Len(sent') - k) + 1 = ((Len(rest) - k) + 1) + 1
        <5>1. /\ Len(rest) \in Nat /\ Len(rest) <= Len(sent)
              /\ Len(sent') = Len(rest) + 1 /\ Len(sent) < MaxReqs
          BY <3>0, <3>1, <1>0, <1>1, <1>4
        <5> QED BY <5>1, <3>1, <1>0, MaxReqsAssumption
      <4>2. Back(NextSource, ((Len(rest) - k) + 1) + 1) = Back(source_q, (Len(rest) - k) + 1)
        BY <4>1, <1>0, BackNext
      <4> QED BY <4>1, <4>2, <3>1, <2>3, <1>3
    <3>2. CASE a /\ k \notin 1 .. Len(rest)
      <4>1. k = Len(sent') /\ sent'[k] = r
        BY <3>0, <3>2, <1>4
      <4>2. Back(NextSource, 0 + 1) = Back(source_q, 0) /\ Back(source_q, 0) = source_q
        BY <1>0, MaxReqsAssumption, BackNext
      <4> QED BY <4>1, <4>2, <3>2, <3>0, <1>3
    <3>3. CASE ~a
      BY <3>0, <3>3, <2>3, <1>3, <1>4
    <3> QED BY <3>1, <3>2, <3>3
  <2> QED BY <2>1, <2>2, <2>4 DEF SourcesInTurn
<1>7. \A k \in DOMAIN sent' : sent'[k].dev = dev_select_outstanding'
  <2> SUFFICES ASSUME NEW k \in DOMAIN sent'
               PROVE  sent'[k].dev = dev_select_outstanding'
    OBVIOUS
  <2>0. Len(rest) \in Nat /\ k \in 1 .. Len(sent')
    BY <1>0, <1>4
  <2>1. CASE k \in 1 .. Len(rest)
    <3>1. sent # << >> /\ sent'[k].dev = dev
      <4>1. CASE d
        BY <4>1, <2>1, <1>0, <1>2, <1>4 DEF SocketInv, OneDeviceBusy
      <4>2. CASE ~d
        BY <4>2, <2>1, <1>0, <1>4 DEF SocketInv, OneDeviceBusy
      <4> QED BY <4>1, <4>2
    <3> QED BY <3>1, <1>1, <1>3
  <2>2. CASE k \notin 1 .. Len(rest)
    <3>1. a /\ sent'[k] = r
      BY <2>0, <2>2, <1>4
    <3> QED BY <3>1, <1>3
  <2> QED BY <2>1, <2>2
<1>8. ASSUME NEW i \in Devices
      PROVE  dq'[i] = IF i = dev_select_outstanding' THEN SourcesOf(sent') ELSE << >>
  <2> DEFINE left == IF i \in valid /\ d_ready THEN Tail(dq[i]) ELSE dq[i]
  <2>0. i # N /\ dq'[i] = IF a /\ req = i THEN Append(left, source_q) ELSE left
    BY <1>3, NAssumption DEF DeviceQueue, Devices
  <2>1. left = IF i = dev THEN SourcesOf(rest) ELSE << >>
    <3>0. dq[i] = IF i = dev THEN SourcesOf(sent) ELSE << >>
      BY DEF SocketInv, OneDeviceBusy
    <3>1. CASE i \in valid /\ d_ready
      <4>1. i = dev
        BY <3>0, <3>1 DEF Busy
      <4>2. d
        BY <4>1, <3>1, <2>0 DEF AcceptRsp
      <4> QED BY <4>1, <4>2, <3>0, <3>1, <1>0, <1>2, SourcesOfTail
    <3>2. CASE ~(i \in valid /\ d_ready)
      <4>1. i = dev => ~d
        BY <3>2, <2>0 DEF AcceptRsp
      <4> QED BY <4>1, <3>0, <3>2
    <3> QED BY <3>1, <3>2
  <2> HIDE DEF left
  <2>2. CASE a
    <3>1. rest = << >> \/ req = dev
      BY <2>2, <1>1, <1>2
    <3>2. SourcesOf(sent') = Append(SourcesOf(rest), source_q)
      BY <2>2, <1>1, <1>3, <1>4, SourcesOfAppend
    <3>3. CASE i = req
      BY <3>1, <3>2, <3>3, <2>0, <2>1, <2>2, <1>3, SourcesOfEmpty
    <3>4. CASE i # req
      BY <3>1, <3>4, <2>0, <2>1, <2>2, <1>3, SourcesOfEmpty
    <3> QED BY <3>3, <3>4
  <2>3. CASE ~a
    BY <2>0, <2>1, <2>3, <1>3
  <2> QED BY <2>2, <2>3
<1>9. /\ IF dev_select_outstanding' = N /\ sent' # << >>
         THEN ErrDValid' /\ Len(sent') = 1 /\ err_source' = sent'[1].src
         ELSE ~ErrDValid'
      /\ ErrOnce'
  <2>0. /\ ErrOnce
        /\ err_req_pending \in BOOLEAN /\ err_rsp_pending \in BOOLEAN
        /\ dev = N /\ sent # << >> => ErrDValid /\ Len(sent) = 1
        /\ ~(dev = N /\ sent # << >>) => ~ErrDValid
        /\ Len(rest) \in Nat
    BY <1>0, <1>4 DEF SocketInv, OneDeviceBusy, SocketTypeOK
  <2>1. CASE a /\ req = N
    <3>1. ~err_rsp_pending /\ (err_req_pending => d_ready)
      BY <2>1, <1>0 DEF AcceptReq, ErrAReady
    <3>2. Len(rest) = 0
      <4>1. CASE sent = << >>
        BY <4>1, <1>2, <1>4
      <4>2. CASE sent # << >>
        <5>1. dev = N /\ ErrDValid /\ Len(sent) = 1
          BY <4>2, <2>0, <2>1, <1>1
        <5>2. d
          BY <5>1, <3>1 DEF AcceptRsp, ErrDValid
        <5> QED BY <5>1, <5>2, <1>4
      <4> QED BY <4>1, <4>2
    <3>3. Len(sent') = 1 /\ sent'[1] = r
      BY <3>2, <2>1, <1>4
    <3>4. err_req_pending' /\ err_source' = source_q /\ ~err_rsp_pending'
      BY <2>1, <1>3, <3>1 DEF ErrResp, ErrDValid
    <3> QED BY <3>3, <3>4, <2>1, <1>3 DEF ErrDValid, ErrOnce
  <2>2. CASE a /\ req # N
    <3>1. ~ErrDValid
      BY <2>0, <2>2, <1>1
    <3>2. ~err_req_pending' /\ ~err_rsp_pending'
      BY <3>1, <2>2, <1>3 DEF ErrResp, ErrDValid
    <3> QED BY <3>2, <2>2, <1>3 DEF ErrDValid, ErrOnce
  <2>3. CASE ~a
    <3>1. /\ ~err_req_pending' /\ (err_rsp_pending' <=> ErrDValid /\ ~d_ready)
          /\ err_source' = err_source /\ dev_select_outstanding' = dev
      BY <2>0, <2>3, <1>3 DEF ErrResp, ErrOnce
    <3>2. CASE dev = N /\ sent # << >>
      <4>1. d <=> d_ready
        BY <3>2, <2>0, <1>0 DEF AcceptRsp
      <4>2. CASE d
        <5>1. Len(sent') = 0
          BY <4>2, <3>2, <2>0, <2>3, <1>4
        <5> QED BY <5>1, <4>1, <4>2, <3>1 DEF ErrDValid, ErrOnce
      <4>3. CASE ~d
        <5>1. sent' = sent /\ err_source = sent[1].src
          BY <4>3, <3>2, <2>3, <1>3 DEF SocketInv, OneDeviceBusy
        <5> QED BY <5>1, <4>1, <4>3, <3>1, <3>2, <2>0 DEF ErrDValid, ErrOnce
      <4> QED BY <4>2, <4>3
    <3>3. CASE ~(dev = N /\ sent # << >>)
      <4>1. sent = << >> => sent' = << >>
        BY <1>2, <1>3, <2>3
      <4> QED BY <4>1, <3>1, <3>3, <2>0 DEF ErrDValid, ErrOnce
    <3> QED BY <3>2, <3>3
  <2> QED BY <2>1, <2>2, <2>3
<1>10. OneDeviceBusy'
  BY <1>7, <1>8, <1>9 DEF OneDeviceBusy
<1>11. SocketTypeOK'
  <2>1. req' \in Targets \cup {Nothing}
    BY <1>3 DEF HostRequest, SocketInv, SocketTypeOK
  <2>2. source_q' \in Sources
    <3>1. NextSource \in Sources
      BY <1>0, MaxReqsAssumption DEF NextSource, Sources
    <3> QED BY <3>1, <1>3, <1>0
  <2>3. dev_select_outstanding' \in Targets
    BY <1>0, <1>1, <1>3
  <2>4. dq' \in [Devices -> Seq(Sources)]
    <3>1. ASSUME NEW i \in Devices PROVE dq'[i] \in Seq(Sources)
      <4>1. SourcesOf(sent') \in Seq(Sources) /\ << >> \in Seq(Sources)
        BY <1>4, SourcesOfType
      <4> QED BY <4>1, <1>8
    <3> QED BY <3>1, <1>3
  <2>5. /\ err_req_pending' \in BOOLEAN /\ err_rsp_pending' \in BOOLEAN
        /\ err_source' \in Sources
    BY <1>0, <1>3 DEF ErrResp, ErrDValid, SocketInv, SocketTypeOK
  <2>6. got' \in Request \cup {Nothing}
    BY <1>2, <1>3
  <2> QED BY <2>1, <2>2, <2>3, <2>4, <2>5, <2>6, <1>4, <1>5 DEF SocketTypeOK
<1>12. Bus!Next
  <2>1. ASSUME a PROVE Bus!Fresh(r) /\ r \in Bus!Request
    <3>1. ASSUME NEW k \in DOMAIN sent PROVE sent[k].src # source_q
      <4>1. /\ (Len(sent) - k) + 1 \in Nat /\ (Len(sent) - k) + 1 >= 1
            /\ (Len(sent) - k) + 1 < MaxReqs
        <5>1. Len(sent) < MaxReqs /\ k \in 1 .. Len(sent)
          BY <2>1, <1>0, <1>1
        <5> QED BY <5>1, <1>0, MaxReqsAssumption
      <4>2. sent[k].src = Back(source_q, (Len(sent) - k) + 1)
        BY DEF SocketInv, SourcesInTurn
      <4> QED BY <4>1, <4>2, <1>0, BackNext
    <3> QED BY <3>1, <2>1, <1>1 DEF Bus!Fresh, Bus!Request, Request
  <2>2. CASE a /\ d
    <3>1. Bus!AcceptAnswer(r)
      BY <2>1, <2>2, <1>1, <1>2, <1>3 DEF Bus!AcceptAnswer
    <3> QED BY <3>1, <2>1, <2>2 DEF Bus!Next
  <2>3. CASE a /\ ~d
    <3>1. Bus!Accept(r)
      BY <2>1, <2>3, <1>1, <1>3 DEF Bus!Accept
    <3> QED BY <3>1, <2>1, <2>3 DEF Bus!Next
  <2>4. CASE ~a /\ d
    BY <2>4, <1>2, <1>3 DEF Bus!Answer, Bus!Next
  <2>5. CASE ~a /\ ~d
    BY <2>5, <1>3 DEF Bus!Idle, Bus!Next
  <2> QED BY <2>2, <2>3, <2>4, <2>5
<1> QED BY <1>5, <1>6, <1>9, <1>10, <1>11, <1>12 DEF SocketInv

LEMMA SocketInitHolds == SocketInit => SocketInv
<1> SUFFICES ASSUME SocketInit PROVE SocketInv
  OBVIOUS
<1>1. SocketTypeOK
  <2>1. 0 \in Targets /\ 0 \in Sources /\ 0 \in 0 .. CountMod - 1
    BY NAssumption, MaxReqsAssumption, CountAssumption DEF Targets, Sources
  <2>2. dq \in [Devices -> Seq(Sources)]
    BY DEF SocketInit
  <2>3. sent \in Seq(Request)
    BY DEF SocketInit
  <2> QED BY <2>1, <2>2, <2>3 DEF SocketInit, SocketTypeOK
<1>2. CounterExact /\ ErrOnce
  BY DEF SocketInit, CounterExact, ErrOnce
<1>3. OneDeviceBusy
  BY SourcesOfEmpty DEF SocketInit, OneDeviceBusy, ErrDValid
<1>4. SourcesInTurn
  BY MaxReqsAssumption DEF SocketInit, SourcesInTurn
<1> QED BY <1>1, <1>2, <1>3, <1>4 DEF SocketInv

LEMMA SocketStepHolds == SocketInv /\ [SocketNext]_socketVars => SocketInv'
<1> SUFFICES ASSUME SocketInv, [SocketNext]_socketVars PROVE SocketInv'
  OBVIOUS
<1>1. CASE SocketNext
  BY <1>1, SocketCycleStep DEF SocketNext
<1>2. CASE UNCHANGED socketVars
  BY <1>2 DEF socketVars, hostVars, errVars, SocketInv, SocketTypeOK, CounterExact, OneDeviceBusy,
              ErrDValid, SourcesInTurn, ErrOnce
<1> QED BY <1>1, <1>2

\* The registers of the socket keep their types.
THEOREM SocketTypeCorrect == SocketSpec => []SocketTypeOK
BY SocketInitHolds, SocketStepHolds, PTL DEF SocketSpec, SocketInv

\* The counter is exact: it never underflows, and it returns to zero exactly
\* when nothing is in flight.
THEOREM CounterIsExact == SocketSpec => []CounterExact
BY SocketInitHolds, SocketStepHolds, PTL DEF SocketSpec, SocketInv

\* Whatever is in flight is at the device whose answers the socket passes on.
THEOREM OnlyOneDeviceBusy == SocketSpec => []OneDeviceBusy
BY SocketInitHolds, SocketStepHolds, PTL DEF SocketSpec, SocketInv

\* The socket, with any number of devices, implements the in-order bus.
THEOREM SocketIsInOrderBus == SocketSpec => ImplementsBus
<1>1. SocketInit => Bus!Init
  BY DEF SocketInit, Bus!Init
<1>2. SocketInv /\ [SocketNext]_socketVars => [Bus!Next]_(Bus!vars)
  <2>1. SocketInv /\ SocketNext => Bus!Next
    BY SocketCycleStep DEF SocketNext
  <2>2. UNCHANGED socketVars => UNCHANGED Bus!vars
    BY DEF socketVars, Bus!vars
  <2> QED BY <2>1, <2>2
<1> QED BY <1>1, <1>2, SocketInitHolds, SocketStepHolds, PTL DEF SocketSpec, Bus!Spec, ImplementsBus

-----------------------------------------------------------------------------
(*                                  rv_plic                                 *)

----------------------------------------------------------------------------
(* Induction over the levels of the tree.                                   *)

Less == {p \in Nat \X Nat : p[1] < p[2]}

LEMMA Least ==
  ASSUME NEW X, X \subseteq Nat, X # {}
  PROVE  \E x \in X : \A y \in X : ~(y < x)
<1>1. IsWellFoundedOn(Less, Nat)
  BY NatLessThanWellFounded DEF OpToRel, Less
<1>2. \E x \in X : \A y \in X : ~(<<y, x>> \in Less)
  BY <1>1, WFMin
<1> QED BY <1>2 DEF Less

LEMMA Inductive ==
  ASSUME NEW n \in Nat, NEW X, 0 \in X, \A k \in 0 .. n : k + 1 <= n /\ k \in X => k + 1 \in X
  PROVE  \A k \in 0 .. n : k \in X
<1> SUFFICES ASSUME NEW k0 \in 0 .. n, k0 \notin X PROVE FALSE
  OBVIOUS
<1> DEFINE Y == {k \in 0 .. n : k \notin X}
<1>1. PICK m \in Y : \A y \in Y : ~(y < m)
  <2>1. Y \subseteq Nat /\ Y # {}
    OBVIOUS
  <2> HIDE DEF Y
  <2> QED BY <2>1, Least
<1>2. m \in 0 .. n /\ m \notin X /\ m # 0
  OBVIOUS
<1>3. m - 1 \in 0 .. n /\ m - 1 < m /\ (m - 1) + 1 = m
  BY <1>2
<1>4. m - 1 \in X
  BY <1>1, <1>3
<1> QED BY <1>2, <1>3, <1>4

\* f[h] is what h applications of F make of d.
Iterates(f, n, D, d, F) == /\ f \in [0 .. n -> D] /\ f[0] = d
                           /\ \A h \in 1 .. n : f[h] = F[f[h - 1]]

LEMMA Iterate ==
  ASSUME NEW n \in Nat, NEW D, NEW d \in D, NEW F \in [D -> D]
  PROVE  \E f : Iterates(f, n, D, d, F)
<1> USE DEF Iterates
<1> DEFINE X == {k \in 0 .. n : \E f \in [0 .. k -> D] :
                                  f[0] = d /\ \A h \in 1 .. k : f[h] = F[f[h - 1]]}
<1>1. 0 \in X
  <2> DEFINE f == [h \in 0 .. 0 |-> d]
  <2>1. f \in [0 .. 0 -> D] /\ f[0] = d /\ \A h \in 1 .. 0 : f[h] = F[f[h - 1]]
    OBVIOUS
  <2> HIDE DEF f
  <2> QED BY <2>1
<1>2. ASSUME NEW k \in 0 .. n, k + 1 <= n, k \in X
      PROVE  k + 1 \in X
  <2>1. PICK f \in [0 .. k -> D] : f[0] = d /\ \A h \in 1 .. k : f[h] = F[f[h - 1]]
    BY <1>2
  <2> DEFINE g == [h \in 0 .. k + 1 |-> IF h = k + 1 THEN F[f[k]] ELSE f[h]]
  <2>2. g \in [0 .. k + 1 -> D]
    <3>1. f[k] \in D /\ F[f[k]] \in D
      BY <2>1
    <3>2. \A h \in 0 .. k + 1 : h # k + 1 => h \in 0 .. k
      OBVIOUS
    <3> QED BY <3>1, <3>2
  <2>3. g[0] = d
    BY <2>1
  <2>4. ASSUME NEW h \in 1 .. k + 1 PROVE g[h] = F[g[h - 1]]
    <3>1. h - 1 \in 0 .. k /\ g[h - 1] = f[h - 1]
      OBVIOUS
    <3>2. CASE h = k + 1
      BY <3>1, <3>2
    <3>3. CASE h # k + 1
      <4>1. h \in 1 .. k /\ g[h] = f[h]
        BY <3>3
      <4> QED BY <2>1, <3>1, <4>1
    <3> QED BY <3>2, <3>3
  <2>5. k + 1 \in 0 .. n
    BY <1>2
  <2> HIDE DEF g
  <2> QED BY <2>2, <2>3, <2>4, <2>5
<1> HIDE DEF X
<1>3. n \in X
  BY <1>1, <1>2, Inductive
<1> QED BY <1>3 DEF X

LEMMA NodesDouble ==
  /\ Nodes \in [0 .. Levels -> Nat] /\ Nodes[0] = 1
  /\ \A h \in 1 .. Levels : Nodes[h] = 2 * Nodes[h - 1]
<1> DEFINE F == [x \in Nat |-> 2 * x]
<1>0. Levels \in Nat /\ 1 \in Nat /\ F \in [Nat -> Nat]
  BY LevelsAssumption
<1>1. PICK f \in [0 .. Levels -> Nat] : f[0] = 1 /\ \A h \in 1 .. Levels : f[h] = F[f[h - 1]]
  <2> HIDE DEF F
  <2>1. PICK f : Iterates(f, Levels, Nat, 1, F)
    BY <1>0, Iterate, Zenon
  <2> QED BY <2>1 DEF Iterates
<1>2. f = [h \in 0 .. Levels |-> IF h = 0 THEN 1 ELSE 2 * f[h - 1]]
  <2>1. \A h \in 1 .. Levels : f[h - 1] \in Nat
    BY <1>0
  <2>2. \A h \in 1 .. Levels : f[h] = 2 * f[h - 1]
    BY <1>1, <2>1
  <2>3. \A h \in 0 .. Levels : h # 0 => h \in 1 .. Levels
    BY <1>0
  <2>4. \A h \in 0 .. Levels : f[h] = IF h = 0 THEN 1 ELSE 2 * f[h - 1]
    BY <1>1, <2>2, <2>3
  <2> QED BY <2>4
<1>3. Nodes = [h \in 0 .. Levels |-> IF h = 0 THEN 1 ELSE 2 * Nodes[h - 1]]
  BY <1>2 DEF Nodes
<1> DEFINE X == {k \in 0 .. Levels : Nodes[k] \in Nat}
<1>4. 0 \in X
  BY <1>0, <1>3
<1>5. \A k \in 0 .. Levels : k + 1 <= Levels /\ k \in X => k + 1 \in X
  <2> SUFFICES ASSUME NEW k \in 0 .. Levels, k + 1 <= Levels, k \in X PROVE k + 1 \in X
    OBVIOUS
  <2>1. k + 1 \in 0 .. Levels /\ k + 1 # 0 /\ (k + 1) - 1 = k
    BY <1>0
  <2>2. Nodes[k + 1] = 2 * Nodes[k]
    BY <1>3, <2>1
  <2> QED BY <2>1, <2>2
<1> HIDE DEF X
<1>6. \A k \in 0 .. Levels : k \in X
  BY <1>0, <1>4, <1>5, Inductive
<1>7. \A k \in 0 .. Levels : Nodes[k] \in Nat
  BY <1>6 DEF X
<1>8. Nodes \in [0 .. Levels -> Nat]
  <2> DEFINE nodes == Nodes
  <2>1. nodes = [h \in 0 .. Levels |-> IF h = 0 THEN 1 ELSE 2 * nodes[h - 1]]
    BY <1>3
  <2>2. \A h \in 0 .. Levels : nodes[h] \in Nat
    BY <1>7
  <2> HIDE DEF nodes
  <2>3. nodes = [h \in 0 .. Levels |-> nodes[h]]
    BY <2>1
  <2>4. nodes \in [0 .. Levels -> Nat]
    BY <2>2, <2>3
  <2> QED BY <2>4 DEF nodes
<1>9. 0 \in 0 .. Levels /\ \A h \in 1 .. Levels : h \in 0 .. Levels /\ h # 0
  BY <1>0
<1>10. Nodes[0] = 1 /\ \A h \in 1 .. Levels : Nodes[h] = 2 * Nodes[h - 1]
  BY <1>3, <1>9
<1> QED BY <1>8, <1>10

----------------------------------------------------------------------------
(* The priority tree.                                                       *)

Entry == [is : BOOLEAN, id : Nat, max : Nat]

Asking == ip \cap ie

\* A level of the tree, from the one that is nearer to the leaves.
Above == [row \in [Nat -> Entry] |->
            [offset \in Nat |-> Forward(row[2 * offset], row[2 * offset + 1])]]

Leaves == [offset \in Nat |-> Leaf(offset)]

LEMMA SrcNat == Src \subseteq Nat \ {0} /\ Prio \subseteq Nat
<1>1. NumSrc \in Nat
  <2>1. Levels \in 0 .. Levels
    BY LevelsAssumption
  <2>2. Nodes[Levels] \in Nat
    BY <2>1, NodesDouble
  <2> QED BY <2>2, SourcesAssumption
<1> QED BY <1>1, PrioAssumption DEF Src, Prio

LEMMA LeafEntry ==
  ASSUME PlicTypeOK, NEW n \in Nat
  PROVE  Leaf(n) \in Entry
<1>1. ASSUME n \in Src PROVE prio[n] \in Nat /\ n \in Nat
  BY <1>1, SrcNat DEF PlicTypeOK
<1> QED BY <1>1 DEF Leaf, Entry

LEMMA TreeRows ==
  ASSUME PlicTypeOK
  PROVE  /\ \A h \in 0 .. Levels : Tree[h] \in [Nat -> Entry]
         /\ Tree[0] = Leaves
         /\ \A h \in 1 .. Levels, offset \in Nat :
              Tree[h][offset] = Forward(Tree[h - 1][2 * offset], Tree[h - 1][2 * offset + 1])
<1> DEFINE Rows == [Nat -> Entry]
<1>0. Levels \in Nat /\ 0 \in 0 .. Levels /\ \A h \in 1 .. Levels : h \in 0 .. Levels /\ h # 0
  BY LevelsAssumption
<1>1. Leaves \in Rows
  BY LeafEntry DEF Leaves
<1>2. Above \in [Rows -> Rows]
  <2>1. ASSUME NEW row \in Rows
        PROVE  [offset \in Nat |-> Forward(row[2 * offset], row[2 * offset + 1])] \in Rows
    <3>1. \A offset \in Nat : Forward(row[2 * offset], row[2 * offset + 1]) \in Entry
      BY DEF Forward
    <3> QED BY <3>1
  <2> QED BY <2>1 DEF Above
<1>3. PICK f \in [0 .. Levels -> Rows] :
        f[0] = Leaves /\ \A h \in 1 .. Levels : f[h] = Above[f[h - 1]]
  <2> HIDE DEF Rows
  <2>1. PICK f : Iterates(f, Levels, Rows, Leaves, Above)
    BY <1>0, <1>1, <1>2, Iterate, Zenon
  <2> QED BY <2>1 DEF Iterates
<1> DEFINE Row(g, h) == [offset \in Nat |-> Forward(g[h - 1][2 * offset], g[h - 1][2 * offset + 1])]
<1>4. \A h \in 1 .. Levels : f[h] = Row(f, h)
  <2> SUFFICES ASSUME NEW h \in 1 .. Levels PROVE f[h] = Row(f, h)
    OBVIOUS
  <2>1. h - 1 \in 0 .. Levels
    BY <1>0
  <2>2. f[h - 1] \in Rows
    BY <2>1
  <2>3. Above[f[h - 1]] = Row(f, h)
    BY <2>2 DEF Above
  <2> QED BY <1>3, <2>3
<1>5. f = [h \in 0 .. Levels |-> IF h = 0 THEN Leaves ELSE Row(f, h)]
  <2>1. \A h \in 0 .. Levels : h # 0 => h \in 1 .. Levels
    BY <1>0
  <2>2. \A h \in 0 .. Levels : f[h] = IF h = 0 THEN Leaves ELSE Row(f, h)
    BY <1>3, <1>4, <2>1
  <2> HIDE DEF Row
  <2> QED BY <2>2
<1>6. Tree = [h \in 0 .. Levels |-> IF h = 0 THEN Leaves ELSE Row(Tree, h)]
  BY <1>5 DEF Tree, Leaves
<1>7. Tree[0] = Leaves /\ \A h \in 1 .. Levels : Tree[h] = Row(Tree, h)
  <2> HIDE DEF Row
  <2> QED BY <1>0, <1>6
<1> DEFINE X == {k \in 0 .. Levels : Tree[k] \in Rows}
<1>8. 0 \in X
  BY <1>0, <1>1, <1>7
<1>9. ASSUME NEW k \in 0 .. Levels, k + 1 <= Levels, k \in X
      PROVE  k + 1 \in X
  <2>1. k + 1 \in 1 .. Levels /\ (k + 1) - 1 = k /\ k + 1 \in 0 .. Levels
    BY <1>0, <1>9
  <2>2. Tree[k + 1] = [offset \in Nat |-> Forward(Tree[k][2 * offset], Tree[k][2 * offset + 1])]
    BY <1>7, <2>1
  <2>3. \A offset \in Nat : Forward(Tree[k][2 * offset], Tree[k][2 * offset + 1]) \in Entry
    BY <1>9 DEF Forward
  <2>4. Tree[k + 1] \in Rows
    BY <2>2, <2>3
  <2> QED BY <2>1, <2>4
<1> HIDE DEF X
<1>10. \A k \in 0 .. Levels : k \in X
  BY <1>0, <1>8, <1>9, Inductive
<1>11. \A k \in 0 .. Levels : Tree[k] \in Rows
  BY <1>10 DEF X
<1>12. \A h \in 1 .. Levels, offset \in Nat :
         Tree[h][offset] = Forward(Tree[h - 1][2 * offset], Tree[h - 1][2 * offset + 1])
  BY <1>7
<1> QED BY <1>7, <1>11, <1>12

\* A node that shows a source shows one that asks, with its own priority, and of
\* two nodes of a level the first shows the lower number.
SoundNode(e) == e.is => e.id \in Asking /\ e.max = prio[e.id]

InOrder(row) == \A o1, o2 \in Nat :
                  o1 < o2 /\ row[o1].is /\ row[o2].is => row[o1].id < row[o2].id

LEMMA TreeSound ==
  ASSUME PlicTypeOK
  PROVE  \A h \in 0 .. Levels : (\A offset \in Nat : SoundNode(Tree[h][offset])) /\ InOrder(Tree[h])
<1> DEFINE Good(row) == (\A offset \in Nat : SoundNode(row[offset])) /\ InOrder(row)
           X == {k \in 0 .. Levels : Good(Tree[k])}
<1>0. Levels \in Nat
  BY LevelsAssumption
<1>1. 0 \in X
  <2>1. \A n \in Nat : Tree[0][n] = Leaf(n)
    BY TreeRows DEF Leaves
  <2>2. \A n \in Nat : Leaf(n).is => n \in Asking /\ Leaf(n).id = n /\ Leaf(n).max = prio[n]
    BY DEF Leaf, Asking
  <2> DEFINE row == Tree[0]
  <2>3. \A n \in Nat : row[n].is => n \in Asking /\ row[n].id = n /\ row[n].max = prio[n]
    BY <2>1, <2>2
  <2> HIDE DEF row
  <2>4. Good(row)
    BY <2>3 DEF SoundNode, InOrder
  <2> QED BY <1>0, <2>4 DEF row
<1>2. ASSUME NEW k \in 0 .. Levels, k + 1 <= Levels, k \in X
      PROVE  k + 1 \in X
  <2>1. k + 1 \in 1 .. Levels /\ (k + 1) - 1 = k
    BY <1>0, <1>2
  <2> DEFINE row == Tree[k]
             top == Tree[k + 1]
  <2>2. Good(row)
    BY <1>2
  <2>3. \A o \in Nat : top[o] = Forward(row[2 * o], row[2 * o + 1])
    BY <2>1, TreeRows
  <2> HIDE DEF row, top
  <2>4. \A o \in Nat : top[o] \in {row[2 * o], row[2 * o + 1]}
    BY <2>3 DEF Forward
  <2>5. \A o \in Nat : SoundNode(top[o])
    <3> SUFFICES ASSUME NEW o \in Nat PROVE SoundNode(top[o])
      OBVIOUS
    <3>1. 2 * o \in Nat /\ 2 * o + 1 \in Nat
      OBVIOUS
    <3>2. SoundNode(row[2 * o]) /\ SoundNode(row[2 * o + 1])
      BY <2>2, <3>1
    <3> QED BY <2>4, <3>2
  <2>6. InOrder(top)
    <3> SUFFICES ASSUME NEW o1 \in Nat, NEW o2 \in Nat, o1 < o2, top[o1].is, top[o2].is
                 PROVE  top[o1].id < top[o2].id
      BY DEF InOrder
    <3>1. PICK p1 \in Nat : p1 \in {2 * o1, 2 * o1 + 1} /\ top[o1] = row[p1]
      BY <2>4
    <3>2. PICK p2 \in Nat : p2 \in {2 * o2, 2 * o2 + 1} /\ top[o2] = row[p2]
      BY <2>4
    <3>3. p1 < p2
      BY <3>1, <3>2
    <3>4. row[p1].id < row[p2].id
      BY <2>2, <3>1, <3>2, <3>3 DEF InOrder
    <3> QED BY <3>1, <3>2, <3>4
  <2> HIDE DEF Good
  <2>7. k + 1 \in 0 .. Levels /\ Good(top)
    <3>1. Good(top)
      BY <2>5, <2>6 DEF Good
    <3> QED BY <1>0, <1>2, <3>1
  <2> QED BY <2>7 DEF top
<1> HIDE DEF X
<1>3. \A k \in 0 .. Levels : k \in X
  BY <1>0, <1>1, <1>2, Inductive
<1> QED BY <1>3 DEF X

\* What the tree shows asks, and it shows a source that outranks all that ask.
LEMMA RootSound ==
  ASSUME PlicTypeOK
  PROVE  /\ Root \in Entry
         /\ Root.is => Root.id \in Asking /\ Root.max = prio[Root.id]
<1>1. Levels \in 0 .. Levels /\ 0 \in Nat
  BY LevelsAssumption
<1>2. Tree[Levels] \in [Nat -> Entry]
  BY <1>1, TreeRows
<1>3. SoundNode(Tree[Levels][0])
  BY <1>1, TreeSound
<1>4. Tree[Levels][0] \in Entry
  BY <1>2
<1> QED BY <1>3, <1>4 DEF Root, SoundNode

LEMMA ForwardHighest ==
  ASSUME PlicTypeOK, NEW s \in Asking, \A r \in Asking \ {s} : Outranks(s, r),
         NEW c0 \in Entry, NEW c1 \in Entry, SoundNode(c0), SoundNode(c1),
         c0.is /\ c1.is => c0.id < c1.id
  PROVE  \/ c0.is /\ c0.id = s
         \/ c1.is /\ c1.id = s
         => Forward(c0, c1).is /\ Forward(c0, c1).id = s
<1>1. /\ s \in Nat /\ prio[s] \in Nat
      /\ \A r \in Asking : r \in Nat /\ prio[r] \in Nat
  BY SrcNat DEF PlicTypeOK, Asking
<1>2. \A r \in Asking : r # s => prio[s] > prio[r] \/ (prio[s] = prio[r] /\ s < r)
  BY DEF Outranks
<1>3. c0.is \in BOOLEAN /\ c1.is \in BOOLEAN
  BY DEF Entry
<1>4. CASE c0.is /\ c0.id = s
  <2>1. ASSUME c1.is PROVE ~(c1.max > c0.max)
    <3>1. PICK r \in Asking : r = c1.id /\ c1.max = prio[r]
      BY <2>1 DEF SoundNode
    <3>2. c0.max = prio[s] /\ prio[r] \in Nat /\ prio[s] \in Nat
      BY <1>1, <1>4 DEF SoundNode
    <3>3. ~(prio[r] > prio[s])
      BY <1>1, <1>2, <3>2
    <3> QED BY <3>1, <3>2, <3>3
  <2>2. ~Sel(c0, c1)
    BY <1>4, <2>1 DEF Sel
  <2> QED BY <1>4, <2>2 DEF Forward
<1>5. CASE c1.is /\ c1.id = s
  <2>1. CASE ~c0.is
    BY <1>5, <2>1 DEF Forward, Sel
  <2>2. CASE c0.is
    <3>1. PICK r \in Asking : r = c0.id /\ c0.max = prio[r] /\ r < s
      BY <1>5, <2>2 DEF SoundNode
    <3>2. prio[s] > prio[r]
      <4>1. r \in Nat /\ s \in Nat
        BY <1>1
      <4>2. \A i, j \in Nat : i < j => i # j /\ ~(j < i)
        OBVIOUS
      <4>3. r # s /\ ~(s < r)
        BY <3>1, <4>1, <4>2
      <4> QED BY <1>2, <4>3
    <3>3. c1.max > c0.max
      BY <1>5, <3>1, <3>2 DEF SoundNode
    <3> QED BY <1>5, <2>2, <3>3 DEF Forward, Sel
  <2> QED BY <2>1, <2>2
<1> QED BY <1>4, <1>5

LEMMA RootHighest ==
  ASSUME PlicTypeOK, NEW s \in Asking, \A r \in Asking \ {s} : Outranks(s, r)
  PROVE  Root.is /\ Root.id = s
<1> DEFINE Shows(e) == e.is /\ e.id = s
           X == {k \in 0 .. Levels :
                   \E o \in Nat : o < Nodes[Levels - k] /\ Shows(Tree[k][o])}
<1>0. Levels \in Nat
  BY LevelsAssumption
<1>1. 0 \in X
  <2>1. s \in Src /\ s \in Nat
    BY SrcNat DEF PlicTypeOK, Asking
  <2>2. s < Nodes[Levels]
    <3>1. Nodes[Levels] \in Nat
      BY <1>0, NodesDouble
    <3> QED BY <2>1, <3>1, SourcesAssumption DEF Src
  <2>3. Shows(Leaf(s)) /\ Tree[0][s] = Leaf(s)
    BY <2>1, TreeRows DEF Leaf, Leaves, Asking
  <2>4. Levels - 0 = Levels
    BY <1>0
  <2> QED BY <1>0, <2>1, <2>2, <2>3, <2>4
<1>2. ASSUME NEW k \in 0 .. Levels, k + 1 <= Levels, k \in X
      PROVE  k + 1 \in X
  <2>1. PICK o \in Nat : o < Nodes[Levels - k] /\ Shows(Tree[k][o])
    BY <1>2
  <2>2. /\ k + 1 \in 1 .. Levels /\ (k + 1) - 1 = k /\ k + 1 \in 0 .. Levels
        /\ Levels - k \in 1 .. Levels /\ (Levels - k) - 1 = Levels - (k + 1)
        /\ Levels - (k + 1) \in 0 .. Levels
    BY <1>0, <1>2
  <2>3. Nodes[Levels - k] = 2 * Nodes[Levels - (k + 1)] /\ Nodes[Levels - (k + 1)] \in Nat
    BY <2>2, NodesDouble
  <2>4. PICK p \in Nat : o = 2 * p \/ o = 2 * p + 1
    <3>1. o \div 2 \in Nat /\ (o = 2 * (o \div 2) \/ o = 2 * (o \div 2) + 1)
      OBVIOUS
    <3> QED BY <3>1
  <2>5. p < Nodes[Levels - (k + 1)] /\ 2 * p \in Nat /\ 2 * p + 1 \in Nat /\ 2 * p < 2 * p + 1
    BY <2>1, <2>3, <2>4
  <2> DEFINE c0 == Tree[k][2 * p]
             c1 == Tree[k][2 * p + 1]
  <2>6. /\ c0 \in Entry /\ c1 \in Entry
        /\ Tree[k + 1][p] = Forward(c0, c1)
    BY <2>2, <2>5, TreeRows
  <2>7. SoundNode(c0) /\ SoundNode(c1) /\ (c0.is /\ c1.is => c0.id < c1.id)
    BY <2>5, TreeSound DEF InOrder
  <2>8. Shows(c0) \/ Shows(c1)
    BY <2>1, <2>4
  <2> HIDE DEF c0, c1
  <2>9. Shows(Forward(c0, c1))
    BY <2>6, <2>7, <2>8, ForwardHighest
  <2> QED BY <2>2, <2>5, <2>6, <2>9
<1> HIDE DEF X
<1>3. Levels \in X
  BY <1>0, <1>1, <1>2, Inductive
<1>4. PICK o \in Nat : o < Nodes[Levels - Levels] /\ Shows(Tree[Levels][o])
  BY <1>3 DEF X
<1>5. Levels - Levels = 0
  BY <1>0
<1>6. o = 0
  BY <1>4, <1>5, NodesDouble
<1> QED BY <1>4, <1>6 DEF Root

----------------------------------------------------------------------------
(* Gateways, target and software.                                           *)

PlicInv == PlicTypeOK /\ ActiveAccounted /\ ClaimSound

LEMMA TargetSound ==
  ASSUME PlicTypeOK
  PROVE  /\ Irq \in BOOLEAN /\ IrqId \in Src \cup {0}
         /\ IrqId # 0 => IrqId \in Asking
         /\ Irq => Raises(IrqId)
<1>1. Root \in Entry /\ (Root.is => Root.id \in Asking /\ Root.max = prio[Root.id])
  BY RootSound
<1>2. Root.is \in BOOLEAN
  BY <1>1 DEF Entry
<1>3. Asking \subseteq Src
  BY DEF PlicTypeOK, Asking
<1> QED BY <1>1, <1>2, <1>3 DEF Irq, IrqId, Raises, Asking

\* What the gateways do of an edge at which id is claimed and done is completed.
LEMMA GatewaysStep ==
  ASSUME PlicTypeOK, ActiveAccounted, NEW claim, NEW complete, Edge(claim, complete)
  PROVE  /\ {intr_src, src_q, ip, ia}' \subseteq SUBSET Src
         /\ irq_q' \in BOOLEAN /\ irq_id_q' \in Src \cup {0}
         /\ ip' = (ip \cup (Set \ ia)) \ (ip \cap claim)
         /\ ia' = (ia \cup Set) \ ((inService \cap complete) \ ip)
<1>1. Set \subseteq Src
  BY DEF PlicTypeOK, Set
<1>2. irq_q' \in BOOLEAN /\ irq_id_q' \in Src \cup {0}
  BY TargetSound DEF Edge
<1>3. /\ ip' = (ip \cup (Set \ ia)) \ (ip \cap claim)
      /\ ia' = (ia \cup Set) \ ((inService \cap complete) \ ip)
  BY DEF Edge, Pending, Active, ActiveAccounted
<1>4. intr_src' \subseteq Src /\ src_q' = intr_src
  BY DEF Edge
<1> QED BY <1>1, <1>2, <1>3, <1>4 DEF PlicTypeOK

LEMMA IdleStep ==
  ASSUME PlicInv, Idle
  PROVE  PlicInv'
<1>1. /\ Edge({}, {}) /\ PlicTypeOK /\ ActiveAccounted
      /\ UNCHANGED <<le, ie, prio, threshold, inService>> /\ outstanding' = FALSE
  BY DEF Idle, regs, PlicInv
<1>2. /\ {intr_src, src_q, ip, ia}' \subseteq SUBSET Src
      /\ irq_q' \in BOOLEAN /\ irq_id_q' \in Src \cup {0}
      /\ ip' = ip \cup (Set \ ia)
      /\ ia' = ia \cup Set
  BY <1>1, GatewaysStep
<1>3. PlicTypeOK'
  BY <1>1, <1>2 DEF PlicTypeOK
<1>4. ActiveAccounted'
  BY <1>1, <1>2 DEF ActiveAccounted
<1>5. irq_q' = Irq /\ irq_id_q' = IrqId
  BY <1>1 DEF Edge
<1>6. irq_id_q' # 0 => irq_id_q' \in (ip' \cap ie') \ inService'
  BY <1>1, <1>2, <1>4, <1>5, TargetSound DEF Asking, ActiveAccounted
<1>7. irq_q' => Raises(irq_id_q)'
  BY <1>1, <1>2, <1>5, TargetSound DEF Raises
<1> QED BY <1>3, <1>4, <1>6, <1>7 DEF PlicInv, ClaimSound

LEMMA ClaimStep ==
  ASSUME PlicInv, Claim
  PROVE  PlicInv'
<1>1. /\ Edge({irq_id_q}, {}) /\ PlicTypeOK /\ ActiveAccounted
      /\ UNCHANGED <<le, ie, prio, threshold>> /\ outstanding' = TRUE
      /\ inService' = inService \cup ({irq_id_q} \ {0})
  BY DEF Claim, Access, regs, PlicInv
<1>2. irq_id_q # 0 => irq_id_q \in (ip \cap ie) \ inService
  BY DEF Claim, Access, PlicInv, ClaimSound
<1>3. /\ {intr_src, src_q, ip, ia}' \subseteq SUBSET Src
      /\ irq_q' \in BOOLEAN /\ irq_id_q' \in Src \cup {0}
      /\ ip' = (ip \cup (Set \ ia)) \ (ip \cap {irq_id_q})
      /\ ia' = ia \cup Set
  BY <1>1, GatewaysStep
<1>4. PlicTypeOK'
  BY <1>1, <1>3 DEF PlicTypeOK
<1>5. 0 \notin ip
  BY <1>1, SrcNat DEF PlicTypeOK
<1>6. ActiveAccounted'
  BY <1>1, <1>2, <1>3, <1>5 DEF ActiveAccounted
<1> QED BY <1>1, <1>4, <1>6 DEF PlicInv, ClaimSound, AReady

LEMMA CompleteStep ==
  ASSUME PlicInv, NEW s \in Src, Complete(s)
  PROVE  PlicInv'
<1>1. /\ Edge({}, {s}) /\ PlicTypeOK /\ ActiveAccounted /\ s \in inService
      /\ UNCHANGED <<le, ie, prio, threshold>> /\ outstanding' = TRUE
      /\ inService' = inService \ {s}
  BY DEF Complete, Access, regs, PlicInv
<1>2. /\ {intr_src, src_q, ip, ia}' \subseteq SUBSET Src
      /\ irq_q' \in BOOLEAN /\ irq_id_q' \in Src \cup {0}
      /\ ip' = ip \cup (Set \ ia)
      /\ ia' = (ia \cup Set) \ ((inService \cap {s}) \ ip)
  BY <1>1, GatewaysStep
<1>3. PlicTypeOK'
  BY <1>1, <1>2 DEF PlicTypeOK
<1>4. ActiveAccounted'
  BY <1>1, <1>2 DEF ActiveAccounted
<1> QED BY <1>1, <1>3, <1>4 DEF PlicInv, ClaimSound, AReady

LEMMA WriteStep ==
  ASSUME PlicInv, NEW l \in SUBSET Src, NEW e \in SUBSET Src, NEW p \in [Src -> Prio],
         NEW t \in Prio, Write(l, e, p, t)
  PROVE  PlicInv'
<1>1. /\ Edge({}, {}) /\ PlicTypeOK /\ ActiveAccounted
      /\ le' = l /\ ie' = e /\ prio' = p /\ threshold' = t
      /\ outstanding' = TRUE /\ inService' = inService
  BY DEF Write, Access, PlicInv
<1>2. /\ {intr_src, src_q, ip, ia}' \subseteq SUBSET Src
      /\ irq_q' \in BOOLEAN /\ irq_id_q' \in Src \cup {0}
      /\ ip' = ip \cup (Set \ ia)
      /\ ia' = ia \cup Set
  BY <1>1, GatewaysStep
<1>3. PlicTypeOK'
  BY <1>1, <1>2 DEF PlicTypeOK
<1>4. ActiveAccounted'
  BY <1>1, <1>2 DEF ActiveAccounted
<1> QED BY <1>1, <1>3, <1>4 DEF PlicInv, ClaimSound, AReady

LEMMA ConfigureStep ==
  ASSUME PlicInv, Configure
  PROVE  PlicInv'
<1>1. le \in SUBSET Src /\ ie \in SUBSET Src /\ prio \in [Src -> Prio] /\ threshold \in Prio
  BY DEF PlicInv, PlicTypeOK
<1>2. CASE \E e \in SUBSET Src \ {ie} : Write(le, e, prio, threshold)
  BY <1>1, <1>2, WriteStep
<1>3. CASE \E t \in Prio \ {threshold} : Write(le, ie, prio, t)
  BY <1>1, <1>3, WriteStep
<1>4. CASE \E s \in Src : \E p \in Prio \ {prio[s]} :
             Write(le, ie, [prio EXCEPT ![s] = p], threshold)
  <2>1. PICK s \in Src, p \in Prio : Write(le, ie, [prio EXCEPT ![s] = p], threshold)
    BY <1>4
  <2>2. [prio EXCEPT ![s] = p] \in [Src -> Prio]
    BY <1>1
  <2> QED BY <1>1, <2>1, <2>2, WriteStep
<1>5. CASE \E l \in SUBSET Src \ {le} : ie = {} /\ Write(l, ie, prio, threshold)
  BY <1>1, <1>5, WriteStep
<1> QED BY <1>2, <1>3, <1>4, <1>5 DEF Configure

LEMMA ResetStep ==
  ASSUME PlicInv, Reset
  PROVE  PlicInv'
<1>0. 0 \in Prio /\ [s \in Src |-> 0] \in [Src -> Prio]
  BY PrioAssumption DEF Prio
<1>1. PlicTypeOK'
  BY <1>0 DEF PlicInv, PlicTypeOK, Reset
<1> QED BY <1>1 DEF PlicInv, ActiveAccounted, ClaimSound, Reset

LEMMA PlicInvAlways == PlicSpec => []PlicInv
<1>0. 0 \in Prio /\ [s \in Src |-> 0] \in [Src -> Prio]
  BY PrioAssumption DEF Prio
<1>1. PlicInit => PlicInv
  BY <1>0 DEF PlicInit, PlicInv, PlicTypeOK, ActiveAccounted, ClaimSound
<1>2. PlicInv /\ [PlicNext]_plicVars => PlicInv'
  <2> SUFFICES ASSUME PlicInv, [PlicNext]_plicVars PROVE PlicInv'
    OBVIOUS
  <2>1. CASE UNCHANGED plicVars
    BY <2>1 DEF plicVars, regs, PlicInv, PlicTypeOK, ActiveAccounted, ClaimSound, AReady, Raises
  <2> QED BY <2>1, IdleStep, ClaimStep, CompleteStep, ConfigureStep, ResetStep DEF PlicNext
<1> QED BY <1>1, <1>2, PTL DEF PlicSpec

THEOREM PlicTypeCorrect == PlicSpec => []PlicTypeOK
<1>1. PlicInv => PlicTypeOK
  BY DEF PlicInv
<1> QED BY PlicInvAlways, <1>1, PTL

\* Whatever the devices do with their lines and software with the registers, a claim
\* names a source that is pending, enabled and not being served, although the
\* identifier it reads was computed a cycle earlier.
THEOREM ClaimsAreSound == PlicSpec => []ClaimSound
<1>1. PlicInv => ClaimSound
  BY DEF PlicInv
<1> QED BY PlicInvAlways, <1>1, PTL

\* No gateway is left closed and none reopens while its source is being served.
THEOREM GatewaysAccounted == PlicSpec => []ActiveAccounted
<1>1. PlicInv => ActiveAccounted
  BY DEF PlicInv
<1> QED BY PlicInvAlways, <1>1, PTL

\* For any number of sources and any tree above them, the source of the highest
\* priority is presented, of equal ones the lowest.
THEOREM HighestIsPresented == PlicSpec => HighestFirst
<1> DEFINE P == \A s \in ip \cap ie :
                  (\A r \in (ip \cap ie) \ {s} : Outranks(s, r)) => irq_id_q' = s
<1>1. ASSUME PlicInv, PlicNext, ~Reset
      PROVE  P
  <2>1. irq_id_q' = IrqId
    BY <1>1 DEF PlicNext, Idle, Claim, Complete, Configure, Write, Access, Edge
  <2>2. ASSUME NEW s \in Asking, \A r \in Asking \ {s} : Outranks(s, r)
        PROVE  IrqId = s
    BY <1>1, <2>2, RootHighest DEF IrqId, PlicInv
  <2> QED BY <2>1, <2>2 DEF Asking
<1> HIDE DEF P
<1>2. PlicInv /\ [PlicNext]_plicVars => [~Reset => P]_plicVars
  BY <1>1
<1>3. PlicSpec => [][~Reset => P]_plicVars
  BY PlicInvAlways, <1>2, PTL DEF PlicSpec
<1> QED BY <1>3 DEF HighestFirst, P

-----------------------------------------------------------------------------
(*                                 boot flow                                *)

SessionShown == session # "none" <=> ~iccm_prog_done

OutOfReset == /\ at # "off" => sync2
              /\ sync2 => sync1

(* While a session lasts, every place the core may look at next names the ROM *)
(* once the session has had the time to show there, and a register s1 read    *)
(* since then too.                                                            *)
HeldInRom ==
  session # "none" =>
    /\ since >= 1 => boot_addr_q = RomBase /\ boot_reg_val_q = "ROM"
    /\ since = 2 /\ at \in {"banner", "wait"} => boot_reg = "ROM"
    /\ ~unseen /\ at \in {"test", "clean", "jump"} => at = "test" /\ s1 = "ROM"

\* As long as the ICCM holds no whole program, no such place names it.
NothingNamesIccm ==
  iccm # "full" =>
    /\ session # "iccm" => target_memory
    /\ since >= 1 \/ session = "none" => boot_addr_q.mem # "ICCM" /\ boot_reg_val_q # "ICCM"
    /\ since = 2 /\ at \in {"banner", "wait"} => boot_reg # "ICCM"
    /\ ~unseen /\ at \in {"test", "clean", "jump"} => s1 # "ICCM"

IInv == TypeOK /\ SessionShown /\ OutOfReset /\ HeldInRom /\ NothingNamesIccm

LEMMA IInvAtStart == Init => IInv
<1> SUFFICES ASSUME Init PROVE IInv
  OBVIOUS
<1> USE DEF Init
<1>1. TypeOK
  <2>1. RomBase \in Entries /\ {"ROM", "zero"} \subseteq Memories \cup {"zero"}
    BY DEF Entries, Memories
  <2>2. 2 \in 0..2 /\ "ROM" \in Memories
    BY DEF Memories
  <2> QED BY <2>1, <2>2 DEF TypeOK
<1>2. SessionShown /\ OutOfReset /\ HeldInRom
  BY DEF SessionShown, OutOfReset, HeldInRom
<1>3. NothingNamesIccm
  BY DEF NothingNamesIccm, RomBase
<1> QED BY <1>1, <1>2, <1>3 DEF IInv

LEMMA AddressTypes ==
  /\ RomBase \in Entries /\ QspiCode \in Entries /\ IccmBase \in Entries
  /\ RomBase.mem = "ROM" /\ QspiCode.mem = "QSPI" /\ IccmBase.mem = "ICCM"
BY DEF Entries, RomBase, QspiBase, QspiCode, IccmBase

LEMMA VectorType ==
  ASSUME boot_addr_q \in Entries
  PROVE  BootVector \in Entries /\ BootVector.mem = boot_addr_q.mem
BY DEF BootVector, Entries, RomBase, QspiBase, QspiCode

----------------------------------------------------------------------------
(* One edge of the clock, part by part.                                     *)

LEMMA TypeStep ==
  ASSUME TypeOK, Clock
  PROVE  TypeOK'
<1> USE DEF TypeOK, Clock
<1>1. /\ session' \in {"none", "iccm", "flash"}
      /\ iccm_prog_done' \in BOOLEAN /\ target_memory' \in BOOLEAN
  BY DEF Programmer, Status!Clock, Status!Open, Status!SetTarget, Status!End, Status!vars
<1>2. iccm' \in {"none", "part", "full"}
  BY DEF Programmer
<1>3. boot_addr_q' \in Entries
  BY AddressTypes DEF BootManager, BootAddrD
<1>4. boot_reg_val_q' \in Memories
  BY DEF BootManager, BootRegD, Selected, Memories
<1>5. boot_reg' \in Memories \cup {"zero"}
  BY DEF BootRegister
<1>6. sync1' \in BOOLEAN /\ sync2' \in BOOLEAN
  BY DEF ResetManager
<1>7. /\ gpio0' \in BOOLEAN
      /\ at' \in {"off", "set", "banner", "wait", "test", "clean", "jump", "run"}
      /\ s1' \in Memories \cup {"zero"}
      /\ pc' \in Entries
  BY AddressTypes, VectorType
  DEF Hart, HartStep, LeaveReset, BootSet, Banner, LoadBootReg, TestBootReg, Clean,
      Jump, Program, Goto, JumpTarget, hartVars
<1>8. since' \in 0..2 /\ unseen' \in BOOLEAN
  BY DEF Watch
<1> QED BY <1>1, <1>2, <1>3, <1>4, <1>5, <1>6, <1>7, <1>8

LEMMA SessionStep ==
  ASSUME SessionShown, Clock
  PROVE  SessionShown'
BY DEF SessionShown, Clock, Programmer, Status!Clock, Status!Open, Status!SetTarget,
       Status!End, Status!vars

LEMMA OutOfResetStep ==
  ASSUME TypeOK, OutOfReset, Clock
  PROVE  OutOfReset'
BY DEF OutOfReset, TypeOK, Clock, ResetManager, Hart, HartStep, LeaveReset, BootSet, Banner,
       LoadBootReg, TestBootReg, Clean, Jump, Program, Goto, hartVars

\* A session that opens takes two edges to show; the core takes its s1 from the boot
\* register.
LEMMA Watched ==
  ASSUME TypeOK, Clock
  PROVE  /\ Opens => since' = 0 /\ unseen'
         /\ since' >= 1 => ~Opens
         /\ since' = 2 => ~Opens /\ since >= 1
         /\ LoadBootReg /\ ~unseen' => since = 2
         /\ ~LoadBootReg /\ ~unseen' => ~unseen
<1>1. /\ since' = IF Opens THEN 0 ELSE IF since = 0 THEN 1 ELSE 2
      /\ unseen' = (Opens \/ (IF LoadBootReg THEN since < 2 ELSE unseen))
      /\ since \in {0, 1, 2} /\ unseen \in BOOLEAN
  BY DEF TypeOK, Clock, Watch
<1>2. /\ Opens => since' = 0
      /\ ~Opens => since' = IF since = 0 THEN 1 ELSE 2
  BY <1>1
<1>3. /\ Opens => unseen'
      /\ LoadBootReg /\ ~unseen' => ~(since < 2)
      /\ ~LoadBootReg /\ ~unseen' => ~unseen
  BY <1>1, Zenon
<1> QED BY <1>1, <1>2, <1>3

\* Where the core is after an edge, and where it was.
LEMMA Places ==
  ASSUME OutOfReset, Clock
  PROVE  /\ at' \in {"banner", "wait"} =>
              boot_reg' = boot_reg_val_q /\ ~LoadBootReg
         /\ at' = "wait" /\ at = "test" => s1 = "ROM"
         /\ at' \in {"test", "clean", "jump"} =>
              \/ LoadBootReg /\ at = "wait" /\ at' = "test" /\ s1' = boot_reg
              \/ /\ ~LoadBootReg /\ s1' = s1 /\ at \in {"test", "clean", "jump"}
                 /\ at = "test" /\ s1 = "ROM" => at' = "test"
BY DEF OutOfReset, Clock, BootRegister, Hart, HartStep, LeaveReset, BootSet, Banner,
       LoadBootReg, TestBootReg, Clean, Jump, Program, Goto, hartVars

LEMMA HeldStep ==
  ASSUME TypeOK, SessionShown, OutOfReset, HeldInRom, Clock
  PROVE  HeldInRom'
<1> SUFFICES ASSUME session' # "none" PROVE HeldInRom'
  BY DEF HeldInRom
<1>1. since' >= 1 => session # "none"
  BY Watched DEF Opens
<1>2. since' >= 1 => boot_addr_q' = RomBase /\ boot_reg_val_q' = "ROM"
  <2> SUFFICES ASSUME since' >= 1 PROVE boot_addr_q' = RomBase /\ boot_reg_val_q' = "ROM"
    OBVIOUS
  <2>1. ~iccm_prog_done
    BY <1>1 DEF SessionShown
  <2> QED BY <2>1 DEF Clock, BootManager, BootAddrEnable, BootAddrD, BootRegD
<1>3. since' = 2 /\ at' \in {"banner", "wait"} => boot_reg' = "ROM"
  <2> SUFFICES ASSUME since' = 2, at' \in {"banner", "wait"} PROVE boot_reg' = "ROM"
    OBVIOUS
  <2>1. boot_reg_val_q = "ROM"
    BY <1>1, Watched DEF HeldInRom
  <2> QED BY <2>1, Places
<1>4. ~unseen' /\ at' \in {"test", "clean", "jump"} => at' = "test" /\ s1' = "ROM"
  <2> SUFFICES ASSUME ~unseen', at' \in {"test", "clean", "jump"}
               PROVE  at' = "test" /\ s1' = "ROM"
    OBVIOUS
  <2>1. session # "none"
    BY Watched DEF Opens
  <2>2. CASE LoadBootReg
    <3>1. since = 2 /\ at = "wait"
      BY <2>2, Watched DEF LoadBootReg
    <3> QED BY <2>1, <2>2, <3>1, Places DEF HeldInRom
  <2>3. CASE ~LoadBootReg
    BY <2>1, <2>3, Watched, Places DEF HeldInRom
  <2> QED BY <2>2, <2>3
<1> QED BY <1>2, <1>3, <1>4 DEF HeldInRom

LEMMA NamesStep ==
  ASSUME TypeOK, SessionShown, OutOfReset, NothingNamesIccm, Clock
  PROVE  NothingNamesIccm'
<1> SUFFICES ASSUME iccm' # "full" PROVE NothingNamesIccm'
  BY DEF NothingNamesIccm
<1>1. since' >= 1 \/ ~unseen' => iccm # "full" /\ ~Opens
  <2> SUFFICES ASSUME since' >= 1 \/ ~unseen' PROVE iccm # "full" /\ ~Opens
    OBVIOUS
  <2>1. ~Opens
    BY Watched
  <2> QED BY <2>1 DEF Clock, Programmer, Ends, Opens
<1>2. session' # "iccm" => target_memory'
  <2> SUFFICES ASSUME session' # "iccm" PROVE target_memory'
    OBVIOUS
  <2>1. session # "iccm"
    BY DEF Clock, Programmer, Opens, Ends, Status!Clock, Status!Open, Status!SetTarget,
           Status!End, Status!vars
  <2>2. iccm # "full"
    BY <2>1 DEF Clock, Programmer, Opens, Ends
  <2>3. target_memory
    BY <2>1, <2>2 DEF NothingNamesIccm
  <2>4. CASE Status!SetTarget
    <3>1. session = "flash"
      BY <2>1, <2>4 DEF TypeOK, Status!SetTarget
    <3> QED BY <2>4, <3>1 DEF Status!SetTarget
  <2>5. CASE ~Status!SetTarget
    <3>1. target_memory' = target_memory
      BY <2>5 DEF Clock, Programmer, Status!Clock, Status!Open, Status!End, Status!vars
    <3> QED BY <2>3, <3>1
  <2> QED BY <2>4, <2>5
<1>3. since' >= 1 \/ session' = "none" => boot_addr_q'.mem # "ICCM" /\ boot_reg_val_q' # "ICCM"
  <2> SUFFICES ASSUME since' >= 1 \/ session' = "none"
               PROVE  boot_addr_q'.mem # "ICCM" /\ boot_reg_val_q' # "ICCM"
    OBVIOUS
  <2>0. iccm # "full"
    <3>1. ~Opens
      BY Watched DEF Opens
    <3> QED BY <3>1 DEF Clock, Programmer, Ends
  <2>1. iccm_prog_done => target_memory /\ boot_addr_q.mem # "ICCM"
    BY <2>0 DEF SessionShown, NothingNamesIccm
  <2>2. CASE BootAddrEnable
    BY <2>1, <2>2, AddressTypes DEF Clock, BootManager, BootAddrD, BootRegD, Selected
  <2>3. CASE ~BootAddrEnable
    BY <2>1, <2>3 DEF Clock, BootManager, BootAddrEnable, BootRegD, Selected
  <2> QED BY <2>2, <2>3
<1>4. since' = 2 /\ at' \in {"banner", "wait"} => boot_reg' # "ICCM"
  BY <1>1, Watched, Places DEF NothingNamesIccm
<1>5. ~unseen' /\ at' \in {"test", "clean", "jump"} => s1' # "ICCM"
  <2> SUFFICES ASSUME ~unseen', at' \in {"test", "clean", "jump"} PROVE s1' # "ICCM"
    OBVIOUS
  <2>1. CASE LoadBootReg
    <3>1. since = 2 /\ at = "wait"
      BY <2>1, Watched DEF LoadBootReg
    <3> QED BY <1>1, <2>1, <3>1, Places DEF NothingNamesIccm
  <2>2. CASE ~LoadBootReg
    BY <1>1, <2>2, Watched, Places DEF NothingNamesIccm
  <2> QED BY <2>1, <2>2
<1> QED BY <1>2, <1>3, <1>4, <1>5 DEF NothingNamesIccm

----------------------------------------------------------------------------
(* The resets.                                                              *)

LEMMA SystemResetStep ==
  ASSUME IInv, SystemReset
  PROVE  IInv'
<1> USE DEF IInv, SystemReset, progVars, mngrVars, histVars
<1>1. TypeOK'
  BY AddressTypes DEF TypeOK
<1>2. SessionShown' /\ OutOfReset' /\ HeldInRom'
  BY DEF SessionShown, OutOfReset, HeldInRom
<1>3. NothingNamesIccm'
  BY DEF NothingNamesIccm
<1> QED BY <1>1, <1>2, <1>3

LEMMA PowerOnResetStep ==
  ASSUME IInv, PowerOnReset
  PROVE  IInv'
<1> USE DEF IInv, PowerOnReset, Status!Reset, hartVars, histVars
<1>1. TypeOK'
  BY AddressTypes DEF TypeOK, Memories
<1>2. SessionShown' /\ OutOfReset' /\ HeldInRom'
  BY DEF SessionShown, OutOfReset, HeldInRom
<1>3. NothingNamesIccm'
  BY AddressTypes DEF NothingNamesIccm
<1> QED BY <1>1, <1>2, <1>3

LEMMA IInvStep ==
  ASSUME IInv, [Next]_vars
  PROVE  IInv'
<1>1. CASE Clock
  BY <1>1, TypeStep, SessionStep, OutOfResetStep, HeldStep, NamesStep DEF IInv
<1>2. CASE SystemReset
  BY <1>2, SystemResetStep
<1>3. CASE PowerOnReset
  BY <1>3, PowerOnResetStep
<1>4. CASE UNCHANGED vars
  BY <1>4 DEF IInv, TypeOK, SessionShown, OutOfReset, HeldInRom, NothingNamesIccm, vars,
              progVars, mngrVars, hartVars, histVars
<1> QED BY <1>1, <1>2, <1>3, <1>4 DEF Next

\* Whenever the host opens its sessions, boot addresses, the boot register and the
\* places of the core keep their values.
THEOREM TypeCorrect == Spec => []TypeOK
<1>1. Init => TypeOK
  BY IInvAtStart DEF IInv
<1>2. TypeOK /\ [Next]_vars => TypeOK'
  <2>1. SUFFICES ASSUME TypeOK, [Next]_vars PROVE TypeOK'
    OBVIOUS
  <2>2. CASE Clock
    BY <2>1, <2>2, TypeStep
  <2>3. CASE SystemReset
    BY <2>1, <2>3, AddressTypes DEF TypeOK, SystemReset, progVars, mngrVars, histVars
  <2>4. CASE PowerOnReset
    BY <2>1, <2>4, AddressTypes DEF TypeOK, PowerOnReset, Status!Reset, Memories, hartVars, histVars
  <2>5. CASE UNCHANGED vars
    BY <2>1, <2>5 DEF TypeOK, vars, progVars, mngrVars, hartVars, histVars
  <2> QED BY <2>1, <2>2, <2>3, <2>4, <2>5 DEF Next
<1> QED BY <1>1, <1>2, PTL DEF Spec

\* Whenever the host opens its sessions and whatever is reset, the core leaves the ROM
\* only when no session is open, and for the ICCM only when a whole program is in it:
\* through the boot register, and through a boot address that an earlier boot left
\* pointing at a memory.  A session that opens later than the named edges finds it gone.
THEOREM CoreEntersReadyMemory == Spec => EntersReadyMemory
<1> DEFINE Ready == at # "run" /\ at' = "run" =>
                      \/ /\ iccm_prog_done
                         /\ pc'.mem = "ICCM" => iccm = "full"
                      \/ at = "set" /\ since = 0
                      \/ at = "jump" /\ unseen
<1>1. IInv /\ [Next]_vars => IInv'
  BY IInvStep
<1>2. ASSUME IInv, Clock, at # "run", at' = "run",
             ~(at = "set" /\ since = 0), ~(at = "jump" /\ unseen)
      PROVE  iccm_prog_done /\ (pc'.mem = "ICCM" => iccm = "full")
  <2>1. \/ at = "set" /\ BootVector.mem # "ROM" /\ pc' = BootVector
        \/ at = "jump" /\ pc' = JumpTarget
    BY <1>2
    DEF Clock, Hart, HartStep, LeaveReset, BootSet, Banner, LoadBootReg, TestBootReg,
        Clean, Jump, Program, Goto, hartVars
  <2>2. CASE at = "set"
    <3>1. since >= 1 /\ BootVector.mem = boot_addr_q.mem
      BY <1>2, <2>2, VectorType DEF IInv, TypeOK
    <3>2. session = "none"
      BY <1>2, <2>1, <2>2, <3>1, AddressTypes DEF IInv, HeldInRom
    <3> QED BY <1>2, <2>1, <2>2, <3>1, <3>2 DEF IInv, SessionShown, NothingNamesIccm
  <2>3. CASE at = "jump"
    <3>1. session = "none"
      BY <1>2, <2>3 DEF IInv, HeldInRom
    <3>2. iccm # "full" => JumpTarget.mem # "ICCM"
      BY <1>2, <2>3, AddressTypes DEF IInv, NothingNamesIccm, JumpTarget
    <3> QED BY <1>2, <2>1, <2>3, <3>1, <3>2 DEF IInv, SessionShown
  <2> QED BY <2>1, <2>2, <2>3
<1>3. IInv /\ [Next]_vars => [Ready]_vars
  BY <1>2 DEF Next, SystemReset, PowerOnReset, hartVars
<1> QED BY IInvAtStart, <1>1, <1>3, PTL DEF Spec, EntersReadyMemory
=============================================================================
