----------------------------- MODULE SyncFifo -----------------------------
(***************************************************************************)
(* fifo_sync: the register FIFO of the bus adapters.  A pointer is an      *)
(* index into the storage and a wrap bit; equal pointers mean empty, equal *)
(* indices with different wrap bits mean full.  One step is one clock      *)
(* edge.                                                                   *)
(***************************************************************************)
EXTENDS Naturals, Sequences

CONSTANTS Depth,    \* number of storage words
          Pass,     \* an item may leave in the cycle it arrives
          Data,     \* items
          NoItem   \* no item was read

ASSUME DepthAssumption == Depth \in Nat \ {0}
ASSUME PassAssumption  == Pass \in BOOLEAN
ASSUME DataAssumption  == NoItem \notin Data

VARIABLES wptr, rptr, storage, under_rst,
          inp, out  \* history: the items written and read at the last edge

fifoVars == <<wptr, rptr, storage, under_rst, inp, out>>

Ptr == [wrap : {0, 1}, idx : 0 .. Depth - 1]

FifoTypeOK == /\ wptr \in Ptr
          /\ rptr \in Ptr
          /\ storage \in [0 .. Depth - 1 -> Data]
          /\ under_rst \in BOOLEAN
          /\ inp \in Data \cup {NoItem}
          /\ out \in Data \cup {NoItem}

ZeroPtr == [wrap |-> 0, idx |-> 0]

Advance(p) == IF p.idx = Depth - 1 THEN [wrap |-> 1 - p.wrap, idx |-> 0]
                                   ELSE [p EXCEPT !.idx = p.idx + 1]

Full  == wptr.idx = rptr.idx /\ wptr.wrap # rptr.wrap
Empty == wptr = rptr

Occupancy == IF Full THEN Depth
             ELSE IF wptr.wrap = rptr.wrap THEN wptr.idx - rptr.idx
             ELSE (Depth - rptr.idx) + wptr.idx

WReady_Overrun == ~under_rst

WReady == ~Full /\ ~under_rst

RValid(wvalid) == (~Empty \/ (Pass /\ wvalid)) /\ ~under_rst

RData_NoBypass(wvalid, d) == storage[rptr.idx]

RData(wvalid, d) == IF Pass /\ Empty /\ wvalid THEN d ELSE storage[rptr.idx]

\* The storage is not reset: its first content is arbitrary.
FifoInit == /\ wptr = ZeroPtr
        /\ rptr = ZeroPtr
        /\ storage \in [0 .. Depth - 1 -> Data]
        /\ under_rst = TRUE
        /\ inp = NoItem
        /\ out = NoItem

Pointer(p, clr, incr) == IF clr THEN ZeroPtr ELSE IF incr THEN Advance(p) ELSE p

FifoCycle(clr, wvalid, d, rready) ==
  LET push == wvalid /\ WReady
      pop  == RValid(wvalid) /\ rready
  IN  /\ wptr' = Pointer(wptr, clr, push)
      /\ rptr' = Pointer(rptr, clr, pop)
      /\ storage' = IF push THEN [storage EXCEPT ![wptr.idx] = d] ELSE storage
      /\ inp' = IF push THEN d ELSE NoItem
      /\ out' = IF pop THEN RData(wvalid, d) ELSE NoItem
      /\ under_rst' = FALSE

\* rst_ni falls: the pointers and the flag are reset at once.
FifoReset == /\ wptr' = ZeroPtr
         /\ rptr' = ZeroPtr
         /\ under_rst' = TRUE
         /\ inp' = NoItem
         /\ out' = NoItem
         /\ \E d \in Data : storage' = [storage EXCEPT ![0] = d]

FifoNext == \/ \E clr, wvalid, rready \in BOOLEAN, d \in Data :
             FifoCycle(clr, wvalid, d, rready)
        \/ FifoReset

FifoSpec == FifoInit /\ [][FifoNext]_fifoVars

----------------------------------------------------------------------------
\* The slot that holds the i-th oldest item.
Slot(i) == IF rptr.idx + (i - 1) < Depth THEN rptr.idx + (i - 1)
                                         ELSE rptr.idx + (i - 1) - Depth

Contents == [i \in 1 .. Occupancy |-> storage[Slot(i)]]

Queue == INSTANCE BoundedQueue WITH
           q <- Contents, Nothing <- NoItem, Cap <- Depth, Through <- Pass

\* The FIFO implements a bounded queue: nothing is lost, repeated, reordered or
\* read out of storage that was never written, across wrap-around, the
\* pass-through cycle, a flush in the cycle of a transfer, and reset.
ImplementsQueue == Queue!Spec

\* The pointers never overtake each other: the writer is at most one lap ahead
\* of the reader, so full and empty are told apart by the wrap bit alone.
PointersInOrder == IF wptr.wrap = rptr.wrap THEN rptr.idx <= wptr.idx
                                            ELSE wptr.idx <= rptr.idx
============================================================================
