----------------------------- MODULE BootFlow -----------------------------
(***************************************************************************)
(* How the core comes to run a program: the programmer's status (as        *)
(* SpiProgrammer shows it behave), azadi_boot_mngr, the boot register in   *)
(* front of the DCCM, azadi_rst_mngr, and the core executing the boot ROM  *)
(* (verif/tests/post-rom/test.s).  One step is one clock edge or a reset.  *)
(*                                                                         *)
(* The boot register's values and the boot addresses are named by the      *)
(* memory they stand for; an address is a memory and an offset.            *)
(***************************************************************************)
EXTENDS Naturals

VARIABLES
  session,            \* what the SPI host is doing: "none", "iccm" or "flash"
  iccm,               \* what the ICCM holds: "none", "part" or "full" of a program
  iccm_prog_done, target_memory,           \* the programmer's status
  boot_addr_q, boot_reg_val_q,             \* azadi_boot_mngr
  boot_reg,                                \* data_mem_top
  sync1, sync2,                            \* azadi_rst_mngr
  gpio0,                                   \* gpio_out_o[0], the management input
  at, s1, pc,                              \* the core: place in the ROM, register s1,
                                           \* where it runs once it has left the ROM
  since, unseen                            \* history: edges since a session opened, up to
                                           \* 2; one opened that s1 does not show

mngrVars == <<boot_addr_q, boot_reg_val_q>>
progVars == <<session, iccm, iccm_prog_done, target_memory>>
hartVars == <<gpio0, at, s1, pc>>
histVars == <<since, unseen>>
vars     == <<progVars, mngrVars, boot_reg, sync1, sync2, hartVars, histVars>>

Memories == {"ROM", "QSPI", "ICCM"}

RomBase  == [mem |-> "ROM",  off |-> 0]
QspiBase == [mem |-> "QSPI", off |-> 0]
QspiCode == [mem |-> "QSPI", off |-> 8]

IccmBase == [mem |-> "ICCM", off |-> 0]

\* Where a program can start: the boot vector has no offset.
Entries == {RomBase, QspiBase, QspiCode, [mem |-> "ICCM", off |-> 0]}

TypeOK == /\ session \in {"none", "iccm", "flash"}
          /\ iccm \in {"none", "part", "full"}
          /\ {iccm_prog_done, target_memory, sync1, sync2, gpio0, unseen} \subseteq BOOLEAN
          /\ since \in 0..2
          /\ boot_addr_q \in Entries
          /\ boot_reg_val_q \in Memories
          /\ boot_reg \in Memories \cup {"zero"}
          /\ at \in {"off", "set", "banner", "wait", "test", "clean", "jump", "run"}
          /\ s1 \in Memories \cup {"zero"}
          /\ pc \in Entries

Init == /\ session = "none" /\ iccm = "none"
        /\ iccm_prog_done = TRUE /\ target_memory = TRUE
        /\ boot_addr_q = RomBase /\ boot_reg_val_q = "ROM"
        /\ boot_reg = "zero" /\ sync1 = FALSE /\ sync2 = FALSE
        /\ gpio0 = FALSE /\ at = "off" /\ s1 = "zero" /\ pc = RomBase
        /\ since = 2 /\ unseen = FALSE

----------------------------------------------------------------------------
(* The SPI programmer.                                                      *)

Status == INSTANCE ProgrammerStatus

Opens == session = "none" /\ session' # "none"
Ends  == session # "none" /\ session' = "none"

\* The host opens a session whenever it likes.  A load overwrites the ICCM from its
\* first word to its last.
Programmer ==
  /\ Status!Clock
  /\ iccm' = CASE Opens /\ session' = "iccm" -> "part"
               [] Ends /\ session = "iccm"   -> "full"
               [] OTHER -> iccm

----------------------------------------------------------------------------
(* The boot manager.                                                        *)

Selected == IF target_memory THEN "QSPI" ELSE "ICCM"

BootRegD_Eager == Selected
BootRegD_Rom   == "ROM"

BootRegD == IF iccm_prog_done THEN Selected ELSE "ROM"

BootAddrD == CASE ~iccm_prog_done -> RomBase
               [] iccm_prog_done /\ target_memory -> QspiCode
               [] OTHER -> IccmBase

BootAddrEnable == gpio0 \/ ~iccm_prog_done

BootManager ==
  /\ boot_addr_q' = IF BootAddrEnable THEN BootAddrD ELSE boot_addr_q
  /\ boot_reg_val_q' = BootRegD

\* The reset manager releases the system reset two edges after rst_ni.
ResetManager == sync1' = TRUE /\ sync2' = sync1

----------------------------------------------------------------------------
(* The core.  Each of its steps may take any number of cycles.              *)

Goto(where) == at' = where /\ UNCHANGED <<s1, pc>>

\* The fetch unit drops the low byte of the boot address.
BootVector == [boot_addr_q EXCEPT !.off = 0]

\* RESET, then BOOT_SET, which fetches from the boot vector.
LeaveReset == at = "off" /\ sync2 /\ Goto("set") /\ UNCHANGED gpio0

BootSet ==
  /\ at = "set"
  /\ at' = IF BootVector.mem = "ROM" THEN "banner" ELSE "run"
  /\ pc' = BootVector
  /\ UNCHANGED <<gpio0, s1>>

\* The banner is printed and GPIO 0, the led, is switched on.
Banner == at = "banner" /\ Goto("wait") /\ gpio0' = TRUE

LoadBootReg == /\ at = "wait"
               /\ at' = "test"
               /\ s1' = boot_reg
               /\ UNCHANGED <<gpio0, pc>>

TestBootReg == /\ at = "test"
               /\ Goto(IF s1 = "ROM" THEN "wait" ELSE "clean")
               /\ UNCHANGED gpio0

\* A value that is not one of the three falls through to the QSPI branch.
JumpTarget == IF s1 = "ICCM" THEN IccmBase ELSE QspiCode

Clean == at = "clean" /\ Goto("jump") /\ gpio0' = FALSE

\* clean zeroes s1 too; here it keeps the branch taken until the jump.
Jump == /\ at = "jump"
        /\ at' = "run"
        /\ s1' = "zero"
        /\ pc' = JumpTarget
        /\ UNCHANGED gpio0

\* A program may drive GPIO 0.
Program == at = "run" /\ gpio0' = ~gpio0 /\ UNCHANGED <<at, s1, pc>>

HartStep == LeaveReset \/ BootSet \/ Banner \/ LoadBootReg \/ TestBootReg
              \/ Clean \/ Jump

Hart == HartStep \/ Program \/ UNCHANGED hartVars

\* The register keeps its value in the cycle that reads it, and is held at zero
\* while the system is in reset.
BootRegister == boot_reg' = IF ~sync2 THEN "zero"
                            ELSE IF LoadBootReg THEN boot_reg ELSE boot_reg_val_q

(* A session shows in the boot address one edge after it opened, in the boot *)
(* register two edges after.                                                *)
Watch ==
  /\ since' = IF Opens THEN 0 ELSE IF since = 0 THEN 1 ELSE 2
  /\ unseen' = (Opens \/ (IF LoadBootReg THEN since < 2 ELSE unseen))

----------------------------------------------------------------------------
Clock == Programmer /\ BootManager /\ ResetManager /\ Hart /\ BootRegister /\ Watch

\* rst_ni: the core, the boot register and the GPIO, not the programmer.
SystemReset == /\ sync1' = FALSE /\ sync2' = FALSE
               /\ gpio0' = FALSE /\ at' = "off" /\ s1' = "zero" /\ pc' = RomBase
               /\ boot_reg' = "zero"
               /\ UNCHANGED <<progVars, mngrVars, histVars>>

\* por_ni: the programmer and the boot manager, not the core nor the memories.
PowerOnReset == /\ Status!Reset
                /\ boot_addr_q' = RomBase /\ boot_reg_val_q' = "ROM"
                /\ UNCHANGED <<iccm, boot_reg, sync1, sync2, hartVars, histVars>>

Next == Clock \/ SystemReset \/ PowerOnReset

Spec == Init /\ [][Next]_vars

\* The clock ticks, the core executes, the SPI host finishes its sessions.
LiveSpec == /\ Spec
            /\ WF_vars(Clock)
            /\ SF_vars(Clock /\ at' # at)
            /\ WF_vars(Clock /\ Status!SetTarget)
            /\ SF_vars(Clock /\ Ends)

----------------------------------------------------------------------------
(* However the core leaves the ROM (through the boot register, or by a reset  *)
(* with the boot address left at a memory), no session is in progress, and if *)
(* it goes to the ICCM a whole program is there.  The only sessions that find *)
(* the core on its way are one that opened at the edge before it fetches from *)
(* the boot address, and one that opened less than two edges before it reads  *)
(* the boot register or between that read and the jump.                       *)
EntersReadyMemory ==
  [][at # "run" /\ at' = "run" =>
       \/ /\ iccm_prog_done
          /\ pc'.mem = "ICCM" => iccm = "full"
       \/ at = "set" /\ since = 0
       \/ at = "jump" /\ unseen]_vars

\* Once the resets and the host have come to rest, the core leaves the ROM.
BootCompletes ==
  <>[][~SystemReset /\ ~PowerOnReset /\ ~Opens]_vars => <>(at = "run")
============================================================================
