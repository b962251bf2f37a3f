--------------------------- MODULE SpiProgrammer ---------------------------
(***************************************************************************)
(* azadi_spi_prgmr, the SPI slave through which a host loads the ICCM      *)
(* (command B1), programs the flash (B2) or sets the QSPI controller up    *)
(* (B3).  One step is one edge of clk_i.  The host sends one byte in each  *)
(* csb frame; the byte is complete when csb rises.                         *)
(*                                                                         *)
(* A word is the sequence of its four bytes, least significant first, as   *)
(* they arrive.  The thermometer byte_cnt is the number of ones in it.     *)
(* loaded is what the ICCM has taken since the last command B1 (or reset).  *)
(***************************************************************************)
EXTENDS Naturals, Sequences

CONSTANTS Byte, Images,  \* bytes on the wire; images (sequences of words) to load
          Partial,       \* what byte_reg shows in the middle of a frame
          HighTimes, LowTimes,  \* clk_i edges with csb high between two frames,
                                \* and low in a frame
          AddrSpace,     \* 2^AW words
          Reprogram,     \* may the host open a session after the ICCM was loaded?
          Nothing

\* Two samples of csb high end a frame.
ASSUME TimesAssumption  == HighTimes \subseteq Nat \ {0, 1} /\ LowTimes \subseteq Nat \ {0}
ASSUME AddrAssumption   == AddrSpace \in Nat \ {0}
ASSUME ByteAssumption   == {0, 177, 178, 179, 255} \cup Partial \subseteq Byte
ASSUME ImagesAssumption == Images \subseteq Seq([1 .. 4 -> Byte])
ASSUME NothingAssumption == Nothing \notin Seq([1 .. 4 -> Byte])

VARIABLES csb, byte_reg,
          session, todo, wait,                \* the host: its session, bytes left to
                                              \* send, edges until csb may change
          csb_cnt, main_state_init,           \* the csb FSM
          main_next_state, iccm_next_state, qspi_next_state,
          byte_cnt, word_reg,
          iccm_addr, waddr, iccm_data, iccm_valid,
          qspi_data, qspi_valid,
          iccm_prog_done, target_memory, flash_intf,
          loaded,                             \* ICCM words written, else Nothing
          image, config                       \* history: words of the last B1 and B3

hostVars  == <<csb, byte_reg, session, todo, wait, image, config>>
csbVars   == <<csb_cnt, main_state_init>>
stateVars == <<main_next_state, iccm_next_state, qspi_next_state>>
shiftVars == <<byte_cnt, word_reg>>
writeVars == <<iccm_addr, waddr, iccm_data, iccm_valid>>
qspiVars  == <<qspi_data, qspi_valid>>
modeVars  == <<iccm_prog_done, target_memory, flash_intf>>
vars == <<hostVars, csbVars, stateVars, shiftVars, writeVars, qspiVars, modeVars, loaded>>

Addr  == 0 .. AddrSpace - 1
Word  == [1 .. 4 -> Byte]
Zero  == <<0, 0, 0, 0>>

\* Faults that the runs must notice, each placed before what it replaces.
Terminator_Inverted == <<255, 0, 0, 255>>

Terminator == <<0, 255, 255, 0>>   \* 32'h00FFFF00

B1 == 177
B2 == 178
B3 == 179

\* A session: a command and the words it is about.  The programmer knows no
\* command 0.
NoCommand == [cmd |-> 0, words |-> <<>>]
Sessions  == {s \in [cmd : {B1, B2, B3}, words : Images] : s.cmd = B3 => s.words # <<>>}
               \cup {NoCommand}

TypeOK ==
  /\ csb \in BOOLEAN /\ byte_reg \in Byte /\ todo \in Seq(Byte)
  /\ wait \in Nat /\ session \in Sessions
  /\ csb_cnt \in BOOLEAN /\ main_state_init \in BOOLEAN
  /\ main_next_state \in {"MIDLE", "COMMAND", "ICCM", "FLASH", "QSPI_CONFIG"}
  /\ iccm_next_state \in {"SIDLE", "BYTE_WORD", "U_ADDR"}
  /\ qspi_next_state \in {"QIDLE", "WORD", "CFG"}
  /\ byte_cnt \in 0 .. 4
  /\ {word_reg, iccm_data, qspi_data} \subseteq Word
  /\ {iccm_addr, waddr} \subseteq Addr
  /\ {iccm_valid, qspi_valid, iccm_prog_done, target_memory, flash_intf} \subseteq BOOLEAN
  /\ loaded \in [Addr -> Word \cup {Nothing}]
  /\ image \in Seq(Word) \cup {Nothing}
  /\ config \in Word \cup {Nothing}

Init ==
  /\ csb = TRUE /\ byte_reg = 0 /\ todo = <<>> /\ wait = 0
  /\ session = NoCommand
  /\ image = Nothing /\ config = Nothing
  /\ csb_cnt = FALSE /\ main_state_init = FALSE
  /\ main_next_state = "MIDLE" /\ iccm_next_state = "SIDLE" /\ qspi_next_state = "QIDLE"
  /\ byte_cnt = 0 /\ word_reg = Zero
  /\ iccm_addr = 0 /\ waddr = 0 /\ iccm_data = Zero /\ iccm_valid = FALSE
  /\ qspi_data = Zero /\ qspi_valid = FALSE
  /\ iccm_prog_done = TRUE /\ target_memory = TRUE /\ flash_intf = FALSE
  /\ loaded = [a \in Addr |-> Nothing]

\* por_ni, at any moment: every register of the programmer is cleared, and the
\* host gives its session up.
PowerOnReset ==
  /\ csb' = TRUE /\ byte_reg' = 0 /\ todo' = <<>> /\ wait' = 0
  /\ session' = NoCommand
  /\ image' = Nothing /\ config' = Nothing
  /\ csb_cnt' = FALSE /\ main_state_init' = FALSE
  /\ main_next_state' = "MIDLE" /\ iccm_next_state' = "SIDLE" /\ qspi_next_state' = "QIDLE"
  /\ byte_cnt' = 0 /\ word_reg' = Zero
  /\ iccm_addr' = 0 /\ waddr' = 0 /\ iccm_data' = Zero /\ iccm_valid' = FALSE
  /\ qspi_data' = Zero /\ qspi_valid' = FALSE
  /\ iccm_prog_done' = TRUE /\ target_memory' = TRUE /\ flash_intf' = FALSE
  /\ loaded' = [a \in Addr |-> Nothing]

----------------------------------------------------------------------------
(* The csb FSM: main_state_init is high from the edge that sees csb rise to *)
(* the next edge that sees it high.                                         *)
CsbFsm == /\ csb_cnt' = ~csb
          /\ main_state_init' = IF csb THEN csb_cnt ELSE main_state_init

----------------------------------------------------------------------------
(* The main FSM, one action for each state and way out of it.               *)

Midle ==
  /\ main_next_state = "MIDLE"
  /\ main_next_state' = IF main_state_init THEN "COMMAND" ELSE "MIDLE"
  /\ iccm_next_state' = "SIDLE"
  /\ qspi_next_state' = "QIDLE"
  /\ qspi_valid' = FALSE
  /\ UNCHANGED <<shiftVars, writeVars, qspi_data, modeVars>>

TakesPins_Always == TRUE

TakesPins == flash_intf \/ byte_reg = B2

Command ==
  /\ main_next_state = "COMMAND"
  /\ main_next_state' = CASE byte_reg = B1 -> "ICCM"
                          [] byte_reg = B2 -> "FLASH"
                          [] byte_reg = B3 -> "QSPI_CONFIG"
                          [] OTHER -> "MIDLE"
  /\ iccm_prog_done' = (iccm_prog_done /\ byte_reg \notin {B1, B2})
  /\ flash_intf' = TakesPins
  /\ UNCHANGED <<iccm_next_state, qspi_next_state, shiftVars, writeVars, qspiVars,
                 target_memory>>

InIccm(s) == main_next_state = "ICCM" /\ iccm_next_state = s

ByteReceived ==
  /\ InIccm("SIDLE") /\ main_state_init
  /\ iccm_next_state' = "BYTE_WORD"
  /\ UNCHANGED <<main_next_state, qspi_next_state, shiftVars, writeVars, qspiVars, modeVars>>

WordDue == byte_cnt = 4 /\ word_reg # Terminator

WriteWord ==
  /\ InIccm("SIDLE") /\ ~main_state_init /\ WordDue
  /\ byte_cnt' = 0
  /\ waddr' = iccm_addr
  /\ iccm_data' = word_reg
  /\ iccm_valid' = TRUE
  /\ iccm_next_state' = "U_ADDR"
  /\ UNCHANGED <<main_next_state, qspi_next_state, word_reg, iccm_addr, qspiVars, modeVars>>

AwaitByte ==
  /\ InIccm("SIDLE") /\ ~main_state_init /\ ~WordDue
  /\ iccm_data' = Zero
  /\ iccm_valid' = FALSE
  /\ target_memory' = FALSE
  /\ UNCHANGED <<stateVars, shiftVars, iccm_addr, waddr, qspiVars, iccm_prog_done, flash_intf>>

Shift == Append(Tail(word_reg), byte_reg)
Count == IF byte_cnt = 4 THEN 4 ELSE byte_cnt + 1

ShiftByte ==
  /\ InIccm("BYTE_WORD") /\ word_reg # Terminator
  /\ byte_cnt' = Count
  /\ word_reg' = Shift
  /\ iccm_next_state' = "SIDLE"
  /\ UNCHANGED <<main_next_state, qspi_next_state, writeVars, qspiVars, modeVars>>

\* The byte after the terminator ends the session.  byte_cnt stays full.
EndIccm ==
  /\ InIccm("BYTE_WORD") /\ word_reg = Terminator
  /\ byte_cnt' = Count
  /\ word_reg' = Zero
  /\ main_next_state' = "MIDLE"
  /\ iccm_valid' = FALSE
  /\ iccm_addr' = 0
  /\ iccm_prog_done' = TRUE
  /\ UNCHANGED <<iccm_next_state, qspi_next_state, waddr, iccm_data, qspiVars,
                 target_memory, flash_intf>>

NextAddr_Stuck == iccm_addr

NextAddr == (iccm_addr + 1) % AddrSpace

UpdateAddr ==
  /\ InIccm("U_ADDR")
  /\ iccm_addr' = NextAddr
  /\ iccm_next_state' = "SIDLE"
  /\ UNCHANGED <<main_next_state, qspi_next_state, shiftVars, waddr, iccm_data, iccm_valid,
                 qspiVars, modeVars>>

FlashByte ==
  /\ main_next_state = "FLASH" /\ main_state_init
  /\ word_reg' = Shift
  /\ UNCHANGED <<stateVars, byte_cnt, writeVars, qspiVars, modeVars>>

AwaitFlash_KeepsTarget ==
  /\ main_next_state = "FLASH" /\ ~main_state_init /\ word_reg # Terminator
  /\ UNCHANGED <<stateVars, shiftVars, writeVars, qspiVars, modeVars>>

AwaitFlash ==
  /\ main_next_state = "FLASH" /\ ~main_state_init /\ word_reg # Terminator
  /\ target_memory' = TRUE
  /\ UNCHANGED <<stateVars, shiftVars, writeVars, qspiVars, iccm_prog_done, flash_intf>>

EndFlash ==
  /\ main_next_state = "FLASH" /\ ~main_state_init /\ word_reg = Terminator
  /\ main_next_state' = "MIDLE"
  /\ word_reg' = Zero
  /\ flash_intf' = FALSE
  /\ iccm_prog_done' = TRUE
  /\ UNCHANGED <<iccm_next_state, qspi_next_state, byte_cnt, writeVars, qspiVars,
                 target_memory>>

InConfig(s) == main_next_state = "QSPI_CONFIG" /\ qspi_next_state = s

ConfigDue_Early == byte_cnt = 3

ConfigDue == byte_cnt = 4

AwaitConfig ==
  /\ InConfig("QIDLE") /\ (main_state_init \/ ~ConfigDue)
  /\ qspi_next_state' = IF main_state_init THEN "WORD" ELSE "QIDLE"
  /\ UNCHANGED <<main_next_state, iccm_next_state, shiftVars, writeVars, qspiVars, modeVars>>

SendConfig ==
  /\ InConfig("QIDLE") /\ ~main_state_init /\ ConfigDue
  /\ byte_cnt' = 0
  /\ qspi_data' = word_reg
  /\ qspi_valid' = TRUE
  /\ qspi_next_state' = "CFG"
  /\ UNCHANGED <<main_next_state, iccm_next_state, word_reg, writeVars, modeVars>>

ConfigByte ==
  /\ InConfig("WORD")
  /\ byte_cnt' = Count
  /\ word_reg' = Shift
  /\ qspi_next_state' = "QIDLE"
  /\ UNCHANGED <<main_next_state, iccm_next_state, writeVars, qspiVars, modeVars>>

EndConfig ==
  /\ InConfig("CFG")
  /\ word_reg' = Zero
  /\ qspi_valid' = FALSE
  /\ main_next_state' = "MIDLE"
  /\ UNCHANGED <<iccm_next_state, qspi_next_state, byte_cnt, writeVars, qspi_data, modeVars>>

MainFsm == \/ Midle \/ Command
           \/ ByteReceived \/ WriteWord \/ AwaitByte \/ ShiftByte \/ EndIccm \/ UpdateAddr
           \/ FlashByte \/ AwaitFlash \/ EndFlash
           \/ AwaitConfig \/ SendConfig \/ ConfigByte \/ EndConfig

----------------------------------------------------------------------------
(* The host.                                                                *)
Concat(words) == [k \in 1 .. 4 * Len(words) |->
                    words[((k - 1) \div 4) + 1][((k - 1) % 4) + 1]]

\* What the test makefile appends to every image.
EndMark == <<0, 255, 255, 0>>

\* B1 ends with a byte that only makes the programmer look at the terminator.
Bytes(s) == CASE s.cmd = B1 -> <<B1>> \o Concat(s.words) \o EndMark \o <<0>>
              [] s.cmd = B2 -> <<B2>> \o Concat(s.words) \o EndMark
              [] s.cmd = B3 -> <<B3>> \o s.words[1]
              [] OTHER -> <<s.cmd>>

\* What passes through word_reg in a load or flash session.
Stream(words) == Zero \o Concat(words) \o EndMark

\* The programmer has no length: an image fits the ICCM, and four bytes that look
\* like the terminator are met at its end only, at whatever alignment.
Loadable ==
  \A words \in Images :
    /\ Len(words) <= AddrSpace
    /\ \A p \in 0 .. 4 * Len(words) + 3 :
         \E i \in 1 .. 4 : Stream(words)[p + i] # Terminator[i]

\* A byte is lost if it completes while UPDATE_ADDR follows the one before.
FramesApart == \A h \in HighTimes, l \in LowTimes : h + l >= 4

CarefulHost == ~Reprogram /\ FramesApart /\ Loadable

\* After an ICCM load the careful host (Reprogram FALSE) only programs the flash.
StartSession ==
  /\ csb /\ wait = 0 /\ todo = <<>>
  /\ session' \in {s \in Sessions : s.cmd \in {B1, B3} => Reprogram \/ image = Nothing}
  /\ todo' = Bytes(session')
  /\ UNCHANGED <<csb, byte_reg, wait, image, config>>

HostIdle == /\ csb /\ wait = 0 /\ todo = <<>>
            /\ UNCHANGED hostVars

CsbFalls == /\ csb /\ wait = 0 /\ todo # <<>>
            /\ csb' = FALSE
            /\ wait' \in {l - 1 : l \in LowTimes}
            /\ UNCHANGED <<byte_reg, todo, session, image, config>>

\* sck does not run in the first cycle of a frame nor while csb is high.
HostWaits == /\ wait > 0
             /\ wait' = wait - 1
             /\ IF csb THEN UNCHANGED byte_reg ELSE byte_reg' \in Partial
             /\ UNCHANGED <<csb, todo, session, image, config>>

CommandSent(cmd) == ~csb /\ wait = 0 /\ session.cmd = cmd /\ todo = Bytes(session)

CsbRises == /\ ~csb /\ wait = 0
            /\ csb' = TRUE
            /\ byte_reg' = Head(todo)
            /\ todo' = Tail(todo)
            /\ wait' \in {h - 1 : h \in HighTimes}
            /\ image' = IF CommandSent(B1) THEN session.words ELSE image
            /\ config' = IF CommandSent(B3) THEN session.words[1] ELSE config
            /\ UNCHANGED session

Host == StartSession \/ HostIdle \/ CsbFalls \/ HostWaits \/ CsbRises

\* The ICCM takes the programmer's write while p_done is low.
Memory ==
  LET before == IF CommandSent(B1) THEN [a \in Addr |-> Nothing] ELSE loaded
  IN  loaded' = IF ~iccm_prog_done /\ iccm_valid
                THEN [before EXCEPT ![waddr] = iccm_data] ELSE before

Clock == Host /\ CsbFsm /\ MainFsm /\ Memory

Next == Clock \/ PowerOnReset

Spec == Init /\ [][Next]_vars

\* The clock ticks, and a host that has begun a session finishes it.
LiveSpec == Spec /\ WF_vars(Clock)

----------------------------------------------------------------------------
Idle == main_next_state = "MIDLE" /\ ~main_state_init /\ csb /\ todo = <<>>

\* Every ICCM write carries the next word of the image to its own address.  When
\* the programmer says it is done the whole image is in the ICCM, and nothing else
\* was written.
ImageLoaded ==
  /\ iccm_valid => image # Nothing /\ waddr < Len(image) /\ iccm_data = image[waddr + 1]
  /\ Idle /\ image # Nothing =>
       /\ iccm_prog_done
       /\ \A a \in Addr :
            loaded[a] = IF a < Len(image) THEN image[a + 1] ELSE Nothing

\* The QSPI controller only ever sees the configuration word that was sent.
ConfigAsSent == qspi_valid => qspi_data = config

\* The flash pins are the host's exactly in a flash session, the core is told to
\* wait for the whole of a load or flash session, and the ICCM is only written in
\* a load session, while its port is the programmer's.
SessionStatus ==
  /\ flash_intf <=> main_next_state = "FLASH"
  /\ ~iccm_prog_done <=> main_next_state \in {"ICCM", "FLASH"}
  /\ iccm_valid => main_next_state = "ICCM"

\* To the boot logic a session is the main FSM being in ICCM or FLASH, and it never
\* ends before target_memory names the memory that was written.
CurrentSession == CASE main_next_state = "ICCM"  -> "iccm"
                    [] main_next_state = "FLASH" -> "flash"
                    [] OTHER -> "none"

Status == INSTANCE ProgrammerStatus WITH session <- CurrentSession

ImplementsStatus == Status!Spec

\* A session that was begun ends: the core, which waits for p_done, is released.
Released == ~iccm_prog_done ~> iccm_prog_done
============================================================================
