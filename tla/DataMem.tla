------------------------------ MODULE DataMem ------------------------------
(***************************************************************************)
(* data_mem_top with its SRAM: the DCCM behind a tlul_sram_adapter, with   *)
(* the boot register laid over one of its words.  The load/store unit      *)
(* reads and writes it, bytes of a word too.                               *)
(***************************************************************************)
EXTENDS SramAdapter

CONSTANTS BootAddr,  \* 32'h20002000
          BootWords  \* values of boot_reg_i

ASSUME BootAssumption == BootAddr \in Addr /\ BootWords \subseteq Word

VARIABLES mem, rdata,    \* the SRAM and its registered output
          rvalid,        \* registered: the SRAM output is a read of the bus
          boot_reg,      \* the last boot_reg_i taken
          read_boot_reg  \* registered: the address was the boot register's

vars == <<adapterVars, mem, rdata, rvalid, boot_reg, read_boot_reg>>

TypeOK == /\ AdapterTypeOK
          /\ mem \in [Addr -> Word]
          /\ rdata \in Word
          /\ rvalid \in BOOLEAN
          /\ boot_reg \in BootWords \cup {Zero}
          /\ read_boot_reg \in BOOLEAN

Init == /\ AdapterInit
        /\ mem \in [Addr -> Word]
        /\ rdata \in Word
        /\ rvalid = FALSE
        /\ boot_reg = Zero
        /\ read_boot_reg = FALSE

\* Faults that the runs must notice, each placed before what it replaces.
Rvalid_OnWrites == ReqO

Rvalid == ~WeO /\ ReqO

Merged(old) == [l \in Lanes |-> IF l \in treq.mask THEN treq.data[l] ELSE old[l]]

Sram == /\ rdata' = IF ReqO /\ ~WeO THEN mem[treq.addr] ELSE rdata
        /\ mem' = IF ReqO /\ WeO
                  THEN [mem EXCEPT ![treq.addr] = Merged(@)] ELSE mem

BootRegister_Sticky(a_address) ==
  /\ read_boot_reg' = (read_boot_reg \/ a_address = BootAddr)
  /\ boot_reg' \in BootWords

\* The address bus is compared in every cycle, valid or not; the register keeps
\* its value while the bus stays on the boot address.
BootRegister(a_address) ==
  IF a_address = BootAddr THEN read_boot_reg' = TRUE /\ UNCHANGED boot_reg
                          ELSE read_boot_reg' = FALSE /\ boot_reg' \in BootWords

Returned == IF read_boot_reg THEN boot_reg ELSE rdata

\* Without a request the address bus shows anything.
Cycle(d_ready, a_address) == /\ treq # Nothing => a_address = treq.addr
                             /\ AdapterCycle(TRUE, rvalid, Returned, d_ready)
                             /\ rvalid' = Rvalid
                             /\ Sram
                             /\ BootRegister(a_address)
                             /\ HostRequest(TRUE)

Next == \E d_ready \in HostReady, a_address \in Addr : Cycle(d_ready, a_address)

Spec == Init /\ [][Next]_vars

\* The clock ticks, and tlul_host_adapter ties d_ready to 1.  No request need ever
\* follow, so none may be what makes an earlier one progress.
Delivering == \E d_ready \in HostReady, a_address \in Addr :
                d_ready /\ Cycle(d_ready, a_address) /\ (treq = Nothing => treq' = Nothing)

LiveSpec == Spec /\ WF_vars(Delivering)

----------------------------------------------------------------------------
\* Nothing the SRAM returns is dropped or left for a later request, although the
\* response FIFO's wready is unused and a write kills the read-valid register.
\* The SRAM is never accessed for a request that the bus sees refused and repeats:
\* req_o ignores the SRAM-request FIFO, which must therefore never be the fuller one.
EveryReadTracked ==
  /\ ReqO => AAck(TRUE)
  /\ sramreqfifo = (IF rvalid THEN 1 ELSE 0)
  /\ Len(rspfifo) + sramreqfifo = Reads(reqfifo)

\* Loads and stores are answered in order; a load returns the bytes last stored,
\* except at the boot address, where it returns a boot value and never SRAM data.
Port == INSTANCE MemoryPort
          WITH load <- Nothing, store <- mem,
               pend <- Owed(rvalid, Returned), out <- got,
               Shadow <- {BootAddr}, ShadowWords <- BootWords \cup {Zero},
               Cap <- Outstanding

ImplementsMemory == Port!Spec

\* Each request is accepted and answered, a write without waiting for the SRAM.
Served == (treq # Nothing \/ reqfifo # <<>>) ~> (got # Nothing)
============================================================================
