----------------------------- MODULE QspiXip -----------------------------
(***************************************************************************)
(* qspi_top: the instruction fetch port on the serial flash.  A fetch is a *)
(* read command on one wire, or in XIP mode only an address on four.  The  *)
(* adapter's request is granted two cycles after it started a transfer.    *)
(*                                                                         *)
(* The 32-bit shift register is modelled by the address loaded into it,    *)
(* how often it was shifted, and how many of the flash's symbols (bits, in *)
(* XIP mode nibbles) it has taken in their order.  The flash is external;  *)
(* its mode and dummy cycles agree with the configuration register.  Flash *)
(* addresses count words.                                                  *)
(***************************************************************************)
EXTENDS SramAdapter

CONSTANTS Flash,      \* the word at each flash address
          FlashSize,
          Bases,      \* values of addr_reg
          Dummies,    \* values of dummy_cycles
          EndsXip     \* does a configuration ask to leave XIP mode (e_xip)?

ASSUME FlashAssumption ==
  /\ FlashSize \in Nat \ {0}
  /\ Flash \in [0 .. FlashSize - 1 -> Word]
  /\ Addr \cup Bases \subseteq Nat
  /\ Dummies \subseteq 1 .. 63
  /\ EndsXip \in BOOLEAN
  /\ Nothing \notin Nat

\* The crossbar connects the flash to the fetch port alone.
ASSUME FetchesOnly == Ops = {"Get"}

VARIABLES rst_ni,
          config,                     \* [xip, exit: config_reg, dummy, base]
          gnt_sync, gnt, trig,        \* qspi_top
          next_state, cycle_cnt, shift_reg, qspi_oe, qspi_csb, clr_exip,
          rvalid, rdata,
          flash                       \* rising edges of qspi_clk since qspi_csb fell,
                                      \* and whether they brought the address

grantVars == <<gnt_sync, gnt, trig>>
xipVars   == <<next_state, cycle_cnt, shift_reg, qspi_oe, qspi_csb, clr_exip, rvalid, rdata>>
vars == <<adapterVars, rst_ni, config, grantVars, xipVars, flash>>

Configs == [xip : BOOLEAN, exit : {FALSE, EndsXip}, dummy : Dummies, base : Bases]

DefaultConfig == [xip |-> FALSE, exit |-> FALSE, dummy |-> 10, base |-> 0]

FlashAddr(a) == (a + config.base) % FlashSize

\* The longest transfer, in clocks.
MaxClocks == 64 + 14

Deselected == [edges |-> 0, heard |-> TRUE]

Cleared == [addr |-> Nothing, out |-> 0, in |-> 0]

\* qspi_oe: on which of the four wires the controller drives (the bits are low).
TypeOK ==
  /\ AdapterTypeOK
  /\ {rst_ni, gnt_sync, gnt, trig, qspi_csb, clr_exip, rvalid} \subseteq BOOLEAN
  /\ config \in Configs \cup {DefaultConfig}
  /\ next_state \in {"IDLE", "TRANSMIT", "TOGGLE", "RECEIVE"}
  /\ cycle_cnt \in 0 .. MaxClocks
  /\ shift_reg \in [addr : 0 .. FlashSize - 1 \cup {Nothing}, out : 0 .. MaxClocks, in : 0 .. 32]
  /\ qspi_oe \in {"first", "all", "none"}
  /\ rdata \in Word
  /\ flash \in [edges : Nat, heard : BOOLEAN]

Init == /\ AdapterInit
        /\ rst_ni = TRUE
        /\ config \in Configs
        /\ gnt_sync = FALSE /\ gnt = FALSE /\ trig = FALSE
        /\ next_state = "IDLE" /\ cycle_cnt = 0 /\ shift_reg = Cleared
        /\ qspi_oe = "first" /\ qspi_csb = TRUE /\ clr_exip = FALSE
        /\ rvalid = FALSE /\ rdata = Zero
        /\ flash = Deselected

----------------------------------------------------------------------------
(* The grant: a pulse two cycles after a request, one for each answer.      *)

Triggers == ReqO /\ ~gnt /\ ~trig

TrigNext_Stuck == Triggers \/ trig

TrigNext == Triggers \/ (trig /\ ~rvalid)

Grant == /\ trig' = TrigNext
         /\ gnt_sync' = IF Triggers THEN TRUE ELSE gnt_sync /\ rvalid
         /\ gnt' = IF ~Triggers /\ rvalid THEN gnt ELSE gnt_sync

----------------------------------------------------------------------------
(* qspi_xip, one action for each state.                                     *)

Leaving == config.xip /\ config.exit

\* A request starts a transfer.
Start ==
  /\ next_state = "IDLE" /\ ReqO
  /\ next_state' = "TRANSMIT"
  /\ cycle_cnt' = 0
  /\ shift_reg' = [Cleared EXCEPT !.addr = IF Leaving THEN Nothing ELSE FlashAddr(treq.addr)]
  /\ qspi_oe' = IF config.xip THEN "all" ELSE "first"
  /\ qspi_csb' = FALSE
  /\ rvalid' = FALSE
  /\ UNCHANGED <<clr_exip, rdata, flash>>

Rest ==
  /\ next_state = "IDLE" /\ ~ReqO
  /\ cycle_cnt' = 0
  /\ shift_reg' = Cleared
  /\ qspi_oe' = "first"
  /\ qspi_csb' = TRUE
  /\ clr_exip' = FALSE
  /\ rvalid' = FALSE
  /\ flash' = Deselected
  /\ UNCHANGED <<next_state, rdata>>

\* Symbols the flash is sent before it answers: command and address bits, or
\* address nibbles and dummy cycles.
Sent    == IF config.xip THEN 6 + config.dummy ELSE 32
Symbols == IF config.xip THEN 8 ELSE 32

Shifts == cycle_cnt > 0 /\ (Leaving \/ cycle_cnt <= Sent)

Releases_Late == cycle_cnt >= Sent + 1

Releases == cycle_cnt >= Sent - 1

\* qspi_clk falls.
Transmit ==
  /\ next_state = "TRANSMIT"
  /\ next_state' = "TOGGLE"
  /\ cycle_cnt' = (cycle_cnt + 1) % 128
  /\ shift_reg' = IF Shifts THEN [shift_reg EXCEPT !.out = @ + 1, !.in = 0] ELSE shift_reg
  /\ qspi_oe' = CASE Leaving /\ cycle_cnt >= 6 -> "first"
                  [] config.xip /\ ~Leaving /\ Releases -> "none"
                  [] OTHER -> qspi_oe
  /\ UNCHANGED <<qspi_csb, clr_exip, rvalid, rdata, flash>>

\* The symbol the flash drives since qspi_clk fell (0: none).
Driven == IF flash.edges >= Sent THEN flash.edges - Sent + 1 ELSE 0

Samples_Late == ~Leaving /\ cycle_cnt > Sent + 1

Samples == ~Leaving /\ cycle_cnt > Sent

LastClock_Late == cycle_cnt = Sent + Symbols + 1

LastClock == cycle_cnt = IF Leaving THEN Sent + 2 ELSE Sent + Symbols

\* The flash takes a symbol if the controller drives it.
Hears == /\ shift_reg.addr # Nothing
         /\ shift_reg.out = flash.edges
         /\ qspi_oe = IF config.xip THEN "all" ELSE "first"

AddressSymbols == IF config.xip THEN 6 ELSE 32

\* qspi_clk rises.
Toggle ==
  /\ next_state = "TOGGLE"
  /\ next_state' = CASE ~LastClock -> "TRANSMIT"
                     [] LastClock /\ Leaving -> "IDLE"
                     [] OTHER -> "RECEIVE"
  /\ cycle_cnt' = IF LastClock THEN 0 ELSE cycle_cnt
  /\ shift_reg' = IF Samples
                  THEN [shift_reg EXCEPT !.in = IF Driven = @ + 1 THEN @ + 1 ELSE 0]
                  ELSE shift_reg
  /\ clr_exip' = (clr_exip \/ (LastClock /\ Leaving))
  /\ flash' = [edges |-> flash.edges + 1,
               heard |-> flash.heard /\ (flash.edges < AddressSymbols => Hears)]
  /\ UNCHANGED <<qspi_oe, qspi_csb, rvalid, rdata>>

\* The word that was asked for, if the flash heard the address and its symbols
\* are all there; otherwise any.
Received == IF flash.heard /\ shift_reg.in = Symbols THEN {Flash[shift_reg.addr]} ELSE Word

Gap_Longer == 4

Gap == 3

Receive ==
  /\ next_state = "RECEIVE"
  /\ next_state' = IF cycle_cnt # Gap THEN "RECEIVE" ELSE "IDLE"
  /\ cycle_cnt' = IF cycle_cnt # Gap THEN cycle_cnt + 1 ELSE 0
  /\ qspi_csb' = TRUE
  /\ IF cycle_cnt = 0 THEN rdata' \in Received ELSE UNCHANGED rdata
  /\ rvalid' = (cycle_cnt = 0)
  /\ flash' = Deselected
  /\ UNCHANGED <<shift_reg, qspi_oe, clr_exip>>

Xip == Start \/ Rest \/ Transmit \/ Toggle \/ Receive

----------------------------------------------------------------------------
Cycle(d_ready) == /\ rst_ni
                  /\ AdapterCycle(gnt, rvalid, rdata, d_ready)
                  /\ HostRequest(gnt)
                  /\ Grant
                  /\ Xip
                  /\ config' = IF clr_exip THEN [config EXCEPT !.exit = FALSE] ELSE config
                  /\ UNCHANGED rst_ni

\* rst_ni falls, at any moment: the host and everything but the configuration.
Reset == /\ rst_ni
         /\ rst_ni' = FALSE
         /\ treq' = Nothing /\ reqfifo' = <<>> /\ sramreqfifo' = 0 /\ rspfifo' = <<>>
         /\ got' = Nothing
         /\ gnt_sync' = FALSE /\ gnt' = FALSE /\ trig' = FALSE
         /\ next_state' = "IDLE" /\ cycle_cnt' = 0 /\ shift_reg' = Cleared
         /\ qspi_oe' = "first" /\ qspi_csb' = TRUE /\ clr_exip' = FALSE
         /\ rvalid' = FALSE /\ rdata' = Zero
         /\ flash' = Deselected
         /\ UNCHANGED config

\* The SPI programmer writes the configuration, or por_ni clears it, while the
\* system is in reset.
Configure == /\ ~rst_ni
             /\ config' \in Configs \cup {DefaultConfig}
             /\ UNCHANGED <<adapterVars, rst_ni, grantVars, xipVars, flash>>

Release == /\ ~rst_ni
           /\ rst_ni' = TRUE
           /\ UNCHANGED <<adapterVars, config, grantVars, xipVars, flash>>

Next == \/ \E d_ready \in HostReady : Cycle(d_ready)
        \/ Reset \/ Configure \/ Release

Spec == Init /\ [][Next]_vars

\* The clock ticks, and tlul_host_adapter ties d_ready to 1.  No request need ever
\* follow, so none may be what makes an earlier one progress.
Delivering == \E d_ready \in HostReady :
                d_ready /\ Cycle(d_ready) /\ (treq = Nothing => treq' = Nothing)

LiveSpec == Spec /\ WF_vars(Delivering)

----------------------------------------------------------------------------
\* The grant pulse, which is two registers behind the request, always meets the
\* transfer of the request it grants, while it begins.  A request that follows an
\* answer at once has its pulse in the very cycle in which the state machine is
\* back in IDLE.  The adapter does not look whether an answer was asked for, nor
\* whether its FIFO has room: every answer of the flash belongs to the one read in
\* flight.
GrantMeetsTransfer ==
  /\ gnt => /\ AAck(gnt)
            /\ next_state # "RECEIVE"
            /\ next_state # "IDLE" =>
                 cycle_cnt <= 1 /\ (Leaving \/ shift_reg.addr = FlashAddr(treq.addr))
  /\ rvalid => sramreqfifo = 1
  /\ sramreqfifo = 1 => trig
  /\ Len(rspfifo) + sramreqfifo = Reads(reqfifo)

\* The controller has let go of the wires when the flash begins to drive them.
FlashDrives == /\ ~qspi_csb /\ ~Leaving
               /\ \/ flash.edges > Sent
                  \/ flash.edges = Sent /\ next_state = "TOGGLE"

NoContention == FlashDrives => qspi_oe = IF config.xip THEN "none" ELSE "first"

\* Until the next reset each fetch is answered with the word of the flash at its
\* address and base, in order, in either mode.
InFlight == IF rvalid \/ shift_reg.addr = Nothing THEN rdata ELSE Flash[shift_reg.addr]

Port == INSTANCE MemoryPort
          WITH load <- Nothing, store <- [a \in Addr |-> Flash[FlashAddr(a)]],
               pend <- Owed(sramreqfifo > 0, InFlight), out <- got,
               Shadow <- {}, ShadowWords <- {}, Cap <- Outstanding

ImplementsMemory ==
  Port!Init /\ [][Port!Next \/ ~rst_ni \/ ~rst_ni']_(Port!vars)

\* "D response is waiting until read data arrives": every fetch is accepted and
\* answered, unless the system is reset.
Served == (treq # Nothing \/ reqfifo # <<>>) ~> (got # Nothing \/ ~rst_ni)
============================================================================
