----------------------------- MODULE InstrMem -----------------------------
(***************************************************************************)
(* instr_mem_top with its SRAM: the ICCM.  The instruction fetch port is   *)
(* behind a tlul_sram_adapter; while iccm_wsel (the programmer's p_done)   *)
(* is low the SRAM belongs to the SPI programmer.                          *)
(*                                                                         *)
(* The programmer is external here: it writes only while p_done is low     *)
(* (SpiProgrammer shows it).  Disciplined says whether the core leaves the *)
(* ICCM alone while it is programmed: the ROM code does, and no hardware   *)
(* enforces it, for the programmer's reset request is not connected.       *)
(***************************************************************************)
EXTENDS SramAdapter

CONSTANT Disciplined

ASSUME DisciplinedAssumption == Disciplined \in BOOLEAN

VARIABLES mem, rdata,  \* the SRAM and its registered output
          rvalid,      \* registered: the SRAM output is a read of the bus
          iccm_wsel,   \* TRUE: the SRAM belongs to the bus
          iccm_ctrl    \* the programmer's write [addr, data], or Nothing

vars == <<adapterVars, mem, rdata, rvalid, iccm_wsel, iccm_ctrl>>

Write == [addr : Addr, data : Word]

TypeOK == /\ AdapterTypeOK
          /\ mem \in [Addr -> Word]
          /\ rdata \in Word
          /\ rvalid \in BOOLEAN
          /\ iccm_wsel \in BOOLEAN
          /\ iccm_ctrl \in Write \cup {Nothing}

Init == /\ AdapterInit
        /\ mem \in [Addr -> Word]
        /\ rdata \in Word
        /\ rvalid = FALSE
        /\ iccm_wsel = TRUE
        /\ iccm_ctrl = Nothing

\* Faults that the runs must notice, each placed before what it replaces.
Rvalid_Sticky == rvalid \/ ReqO

Rvalid == iccm_ctrl = Nothing /\ ~WeO /\ ReqO

Sram_NoMux ==
  /\ rdata' = IF ReqO THEN mem[treq.addr] ELSE rdata
  /\ mem' = IF iccm_wsel /\ iccm_ctrl # Nothing
            THEN [mem EXCEPT ![iccm_ctrl.addr] = iccm_ctrl.data] ELSE mem

Sram ==
  /\ rdata' = IF iccm_wsel /\ ReqO /\ ~WeO THEN mem[treq.addr] ELSE rdata
  /\ mem' = CASE iccm_wsel /\ ReqO /\ WeO ->
                   [mem EXCEPT ![treq.addr] =
                      [l \in Lanes |-> IF l \in treq.mask THEN treq.data[l] ELSE @[l]]]
              [] ~iccm_wsel /\ iccm_ctrl # Nothing ->
                   [mem EXCEPT ![iccm_ctrl.addr] = iccm_ctrl.data]
              [] OTHER -> mem

\* p_done and the write port are registers of the programmer.
Programmer == /\ iccm_wsel' \in BOOLEAN
              /\ iccm_ctrl' \in (IF iccm_wsel' THEN {} ELSE Write) \cup {Nothing}

\* No fetch is raised or in flight while the ICCM is programmed.
Discipline == ~iccm_wsel' => treq' = Nothing /\ reqfifo' = <<>>

Cycle(d_ready) == /\ AdapterCycle(TRUE, rvalid, rdata, d_ready)
                  /\ rvalid' = Rvalid
                  /\ Sram
                  /\ Programmer
                  /\ HostRequest(TRUE)
                  /\ Disciplined => Discipline

Next == \E d_ready \in HostReady : Cycle(d_ready)

Spec == Init /\ [][Next]_vars

\* The clock ticks, and tlul_host_adapter ties d_ready to 1.  No request need ever
\* follow, so none may be what makes an earlier one progress.
Delivering == \E d_ready \in HostReady :
                d_ready /\ Cycle(d_ready) /\ (treq = Nothing => treq' = Nothing)

LiveSpec == Spec /\ WF_vars(Delivering)

----------------------------------------------------------------------------
\* Nothing the SRAM returns is dropped, although nobody looks at the response
\* FIFO's wready: it has room for all reads, and one entry of the SRAM-request
\* FIFO waits for the data of exactly the cycle that returns it.
\* The SRAM is never accessed for a request that the bus sees refused and repeats:
\* req_o ignores the SRAM-request FIFO, which must therefore never be the fuller one.
EveryReadTracked ==
  /\ ReqO => AAck(TRUE)
  /\ sramreqfifo = (IF rvalid THEN 1 ELSE 0)
  /\ Len(rspfifo) + sramreqfifo = Reads(reqfifo)

\* Each fetch is answered with the word its address held when the fetch was
\* accepted, in order, whatever was programmed before.
Port == INSTANCE MemoryPort
          WITH load <- iccm_ctrl, store <- mem,
               pend <- Owed(rvalid, rdata), out <- got,
               Shadow <- {}, ShadowWords <- {}, Cap <- Outstanding

ImplementsMemory == Port!Spec

\* "D response is waiting until read data arrives": every request is accepted
\* and answered.
Served == (treq # Nothing \/ reqfifo # <<>>) ~> (got # Nothing)
============================================================================
