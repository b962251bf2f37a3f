---------------------------- MODULE SramAdapter ----------------------------
(***************************************************************************)
(* tlul_sram_adapter with Outstanding = 2: the request, SRAM-request and   *)
(* response FIFOs between the bus and a memory.  The memories extend this  *)
(* module and supply gnt_i, rvalid_i and rdata_i: an SRAM grants always    *)
(* and returns read data one cycle after the access, the flash grants when *)
(* it has begun a transfer.                                                *)
(*                                                                         *)
(* The FIFOs are the queues SyncFifo implements.  tlul_host_adapter only   *)
(* sends aligned full-size requests (reads with all lanes), so             *)
(* error_internal is never raised and no entry carries an error.           *)
(***************************************************************************)
EXTENDS Naturals, Sequences, FiniteSets

CONSTANTS Addr, Lanes, Byte,  \* a word is a byte for each lane
          Ops,                \* "Get", "Put": what the host of this memory sends
          Outstanding,        \* depth of the three FIFOs
          HostReady,          \* values the host drives on d_ready
          Nothing

ASSUME OutstandingAssumption == Outstanding \in Nat \ {0}
ASSUME ByteAssumption == 0 \in Byte
ASSUME OpsAssumption == Ops \subseteq {"Get", "Put"}
ASSUME ReadyAssumption == HostReady \subseteq BOOLEAN

Word == [Lanes -> Byte]
Zero == [l \in Lanes |-> 0]

Request == {r \in [op : Ops, addr : Addr, mask : SUBSET Lanes \ {{}}, data : Word] :
              r.op = "Get" => r.mask = Lanes /\ r.data = Zero}

VARIABLES treq,         \* request the host holds on the A channel, or Nothing
          reqfifo,      \* operation of every accepted, unanswered request
          sramreqfifo,  \* number of reads the SRAM has not returned
          rspfifo,      \* read data the bus has not taken
          got           \* answer the bus took in the last cycle, or Nothing

adapterVars == <<treq, reqfifo, sramreqfifo, rspfifo, got>>

AdapterTypeOK == /\ treq \in Request \cup {Nothing}
                 /\ reqfifo \in Seq(Ops) /\ Len(reqfifo) <= Outstanding
                 /\ sramreqfifo \in 0 .. Outstanding
                 /\ rspfifo \in Seq(Word) /\ Len(rspfifo) <= Outstanding
                 /\ got \in [op : Ops, data : Word] \cup {Nothing}

AdapterInit == /\ treq \in Request \cup {Nothing}
               /\ reqfifo = <<>> /\ sramreqfifo = 0 /\ rspfifo = <<>>
               /\ got = Nothing

ReqReady     == Len(reqfifo) < Outstanding
SramReqReady == sramreqfifo < Outstanding
RspReady     == Len(rspfifo) < Outstanding

\* Request to the SRAM.  It does not look at the SRAM-request FIFO.
ReqO == treq # Nothing /\ ReqReady
WeO  == treq # Nothing /\ treq.op = "Put"

AReady(gnt) == gnt /\ ReqReady /\ SramReqReady
AAck(gnt)   == treq # Nothing /\ AReady(gnt)

\* The response FIFO takes what the SRAM returns, if it has room, and shows it
\* to its reader in the same cycle.
RspWValid(rvalid) == rvalid /\ reqfifo # <<>>

RspWData(rdata) == IF sramreqfifo = 0 THEN Zero ELSE rdata

RspFifo(rvalid, rdata) == IF RspWValid(rvalid) /\ RspReady
                          THEN Append(rspfifo, RspWData(rdata)) ELSE rspfifo

DValid_ReadsOnly(rsp) == reqfifo # <<>> /\ rsp # <<>>

DValid(rsp) == /\ reqfifo # <<>>
               /\ Head(reqfifo) = "Get" => rsp # <<>>

Answer(rsp) == [op |-> Head(reqfifo),
                data |-> IF Head(reqfifo) = "Get" /\ rsp # <<>> THEN Head(rsp) ELSE Zero]

\* Only a read takes an entry of the response FIFO.
RspPop(rsp) == Head(reqfifo) = "Get" /\ rsp # <<>>

SramReqNext_NoPop(gnt, rvalid) ==
  IF ReqO /\ gnt /\ ~WeO /\ SramReqReady THEN sramreqfifo + 1 ELSE sramreqfifo

\* Pushed with an SRAM read, popped with the data it returns.
SramReqNext(gnt, rvalid) ==
  LET left == IF RspWValid(rvalid) /\ sramreqfifo > 0
              THEN sramreqfifo - 1 ELSE sramreqfifo
  IN  IF ReqO /\ gnt /\ ~WeO /\ SramReqReady THEN left + 1 ELSE left

AdapterCycle(gnt, rvalid, rdata, d_ready) ==
  LET rsp  == RspFifo(rvalid, rdata)
      dack == DValid(rsp) /\ d_ready
      rest == IF dack THEN Tail(reqfifo) ELSE reqfifo
  IN  /\ reqfifo' = IF AAck(gnt) THEN Append(rest, treq.op) ELSE rest
      /\ sramreqfifo' = SramReqNext(gnt, rvalid)
      /\ rspfifo' = IF dack /\ RspPop(rsp) THEN Tail(rsp) ELSE rsp
      /\ got' = IF dack THEN Answer(rsp) ELSE Nothing

\* The host holds a request until it is accepted.
HostRequest(gnt) == IF treq # Nothing /\ ~AAck(gnt) THEN treq' = treq
                    ELSE treq' \in Request \cup {Nothing}

----------------------------------------------------------------------------
\* Number of reads among the first k operations of s, and in all of s.
Rank(s, k) == Cardinality({j \in 1 .. k : s[j] = "Get"})

Reads(s) == Rank(s, Len(s))

\* The answers to the operations s when data has come back for the reads, in order.
AnswersTo(s, data) ==
  [k \in 1 .. Len(s) |->
     [op |-> s[k],
      data |-> IF s[k] = "Get" /\ Rank(s, k) <= Len(data) THEN data[Rank(s, k)] ELSE Zero]]

\* Read data in the adapter, with those the SRAM is returning in this cycle.
DataBack(rvalid, rdata) ==
  IF RspWValid(rvalid) THEN Append(rspfifo, RspWData(rdata)) ELSE rspfifo

\* The answers owed to the bus.
Owed(rvalid, rdata) == AnswersTo(reqfifo, DataBack(rvalid, rdata))
============================================================================
