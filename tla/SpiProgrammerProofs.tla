------------------------ MODULE SpiProgrammerProofs ------------------------
(***************************************************************************)
(* For all images, frame timings and memory sizes: the programmer's        *)
(* registers keep their types, its status outputs follow its state,        *)
(* together they are a ProgrammerStatus, and a careful host's image is in  *)
(* the ICCM when the core is released.                                     *)
(***************************************************************************)
EXTENDS SpiProgrammer, SequenceTheorems, TLAPS

\* main_state_init is high for one cycle, csb then being high, and a host that
\* pulls csb low still has a byte to send.
Framing ==
  /\ main_state_init => csb /\ ~csb_cnt
  /\ csb /\ csb_cnt => wait >= 1
  /\ ~csb => todo # <<>>

\* At most one byte after a word of zeroes.
AlmostZero == word_reg[1] = 0 /\ word_reg[2] = 0 /\ word_reg[3] = 0

\* No terminator is left over for a session, and before target_memory is set no
\* terminator can have come together in it.
Between ==
  /\ main_next_state \in {"MIDLE", "COMMAND"} => word_reg = Zero
  /\ main_next_state = "COMMAND" =>
       ~main_state_init /\ ~csb_cnt /\ iccm_next_state = "SIDLE"
  /\ InIccm("BYTE_WORD") => ~main_state_init /\ ~csb_cnt

FlashStarts ==
  main_next_state = "FLASH" /\ ~target_memory =>
    AlmostZero /\ (word_reg # Zero => ~main_state_init)

IccmStarts ==
  main_next_state = "ICCM" /\ target_memory =>
    /\ AlmostZero
    /\ \/ word_reg = Zero /\ byte_cnt = 0
       \/ InIccm("SIDLE") /\ ~main_state_init /\ (word_reg = Zero \/ byte_cnt # 4)

SessionInv == Between /\ FlashStarts /\ IccmStarts /\ SessionStatus

IInv == TypeOK /\ Framing /\ SessionInv

----------------------------------------------------------------------------
(* Types.                                                                   *)

HostType == /\ csb \in BOOLEAN /\ byte_reg \in Byte /\ todo \in Seq(Byte)
            /\ wait \in Nat /\ session \in Sessions
            /\ image \in Seq(Word) \cup {Nothing}
            /\ config \in Word \cup {Nothing}

ShiftType == byte_cnt \in 0 .. 4 /\ word_reg \in Word

FsmType ==
  /\ main_next_state \in {"MIDLE", "COMMAND", "ICCM", "FLASH", "QSPI_CONFIG"}
  /\ iccm_next_state \in {"SIDLE", "BYTE_WORD", "U_ADDR"}
  /\ qspi_next_state \in {"QIDLE", "WORD", "CFG"}
  /\ iccm_data \in Word /\ qspi_data \in Word
  /\ iccm_addr \in Addr /\ waddr \in Addr
  /\ iccm_valid \in BOOLEAN /\ qspi_valid \in BOOLEAN
  /\ iccm_prog_done \in BOOLEAN /\ target_memory \in BOOLEAN /\ flash_intf \in BOOLEAN

CsbType == csb_cnt \in BOOLEAN /\ main_state_init \in BOOLEAN

LoadedType == loaded \in [Addr -> Word \cup {Nothing}]

LEMMA TypeParts ==
  TypeOK <=> HostType /\ ShiftType /\ FsmType /\ CsbType /\ LoadedType
BY DEF TypeOK, HostType, ShiftType, FsmType, CsbType, LoadedType

LEMMA ZeroType == Zero \in Word
BY ByteAssumption DEF Zero, Word

LEMMA WordIsSequence ==
  ASSUME NEW w \in Word
  PROVE  w \in Seq(Byte) /\ Len(w) = 4
<1>1. w \in Seq(Byte)
  BY SeqDef DEF Word
<1>2. DOMAIN w = 1 .. 4
  BY DEF Word
<1>3. Len(w) \in Nat /\ DOMAIN w = 1 .. Len(w)
  BY <1>1, LenProperties
<1> QED BY <1>1, <1>2, <1>3

LEMMA ShiftedWord ==
  ASSUME word_reg \in Word, byte_reg \in Byte
  PROVE  /\ Shift \in Word
         /\ Shift[1] = word_reg[2] /\ Shift[2] = word_reg[3] /\ Shift[3] = word_reg[4]
         /\ Shift[4] = byte_reg
<1> DEFINE rest == Tail(word_reg)
<1>1. word_reg \in Seq(Byte) /\ Len(word_reg) = 4 /\ word_reg # <<>>
  BY WordIsSequence, EmptySeq
<1>2. rest \in Seq(Byte) /\ Len(rest) = 3
  BY <1>1, HeadTailProperties
<1>3. rest[1] = word_reg[2] /\ rest[2] = word_reg[3] /\ rest[3] = word_reg[4]
  <2>1. \A i \in 1 .. Len(rest) : rest[i] = word_reg[i + 1]
    BY <1>1, HeadTailProperties
  <2> HIDE DEF rest
  <2> QED BY <1>2, <2>1
<1>4. Shift = Append(rest, byte_reg)
  BY DEF Shift
<1> HIDE DEF rest
<1>5. Shift \in Seq(Byte) /\ Len(Shift) = 4
      /\ Shift[1] = rest[1] /\ Shift[2] = rest[2] /\ Shift[3] = rest[3]
      /\ Shift[4] = byte_reg
  <2>1. byte_reg \in Byte
    OBVIOUS
  <2>2. Append(rest, byte_reg) \in Seq(Byte)
    BY <1>2, <2>1
  <2>3. Len(Append(rest, byte_reg)) = Len(rest) + 1
    <3>1. rest \in Seq(Byte)
      BY <1>2
    <3> QED BY <2>1, <3>1, AppendProperties, Zenon
  <2>4. \A i \in 1 .. Len(rest) : Append(rest, byte_reg)[i] = rest[i]
    BY <1>2
  <2>5. Append(rest, byte_reg)[Len(rest) + 1] = byte_reg
    BY <1>2, <2>1, AppendProperties, Zenon
  <2> QED BY <1>2, <1>4, <2>2, <2>3, <2>4, <2>5
<1>6. Shift \in [1 .. 4 -> Byte]
  BY <1>5, LenProperties
<1> QED BY <1>3, <1>5, <1>6 DEF Word

LEMMA CountType ==
  ASSUME byte_cnt \in 0 .. 4
  PROVE  Count \in 0 .. 4
BY DEF Count

LEMMA NextAddrType ==
  ASSUME iccm_addr \in Addr
  PROVE  NextAddr \in Addr
BY AddrAssumption DEF NextAddr, Addr

LEMMA ConcatType ==
  ASSUME NEW words \in Seq(Word)
  PROVE  Concat(words) \in Seq(Byte)
<1>1. Len(words) \in Nat
  OBVIOUS
<1>2. ASSUME NEW k \in 1 .. 4 * Len(words)
      PROVE  words[((k - 1) \div 4) + 1][((k - 1) % 4) + 1] \in Byte
  <2>1. ((k - 1) \div 4) + 1 \in 1 .. Len(words)
    BY <1>1
  <2>2. ((k - 1) % 4) + 1 \in 1 .. 4
    BY <1>1
  <2>3. words[((k - 1) \div 4) + 1] \in Word
    BY <2>1
  <2> QED BY <2>2, <2>3 DEF Word
<1>3. 4 * Len(words) \in Nat
  BY <1>1
<1> QED BY <1>2, <1>3 DEF Concat

LEMMA SessionParts ==
  ASSUME NEW s \in Sessions
  PROVE  /\ s.words \in Seq(Word)
         /\ s.cmd \in {B1, B2, B3, 0}
         /\ s.cmd = B3 => s.words # <<>>
<1>1. CASE s = NoCommand
  <2>1. <<>> \in Seq(Word)
    BY EmptySeq
  <2> QED BY <1>1, <2>1 DEF NoCommand, B1, B2, B3
<1>2. CASE s # NoCommand
  <2>1. s \in [cmd : {B1, B2, B3}, words : Images] /\ (s.cmd = B3 => s.words # <<>>)
    BY <1>2 DEF Sessions
  <2>2. s.words \in Images /\ s.cmd \in {B1, B2, B3}
    BY <2>1
  <2> QED BY <2>1, <2>2, ImagesAssumption DEF Word
<1> QED BY <1>1, <1>2

LEMMA BytesType ==
  ASSUME NEW s \in Sessions
  PROVE  Bytes(s) \in Seq(Byte) /\ Bytes(s) # <<>>
<1>1. s.words \in Seq(Word) /\ s.cmd \in {B1, B2, B3, 0}
  BY SessionParts
<1>2. Concat(s.words) \in Seq(Byte)
  BY <1>1, ConcatType
<1>3. /\ EndMark \in Seq(Byte) /\ <<0>> \in Seq(Byte)
      /\ <<B1>> \in Seq(Byte) /\ <<B2>> \in Seq(Byte) /\ <<B3>> \in Seq(Byte)
  BY ByteAssumption DEF EndMark, B1, B2, B3
<1>4. CASE s.cmd = B1
  <2>1. Bytes(s) = <<B1>> \o Concat(s.words) \o EndMark \o <<0>>
    BY <1>4 DEF Bytes, B1, B2, B3
  <2> QED BY <2>1, <1>2, <1>3
<1>5. CASE s.cmd = B2
  <2>1. Bytes(s) = <<B2>> \o Concat(s.words) \o EndMark
    BY <1>5 DEF Bytes, B1, B2, B3
  <2> QED BY <2>1, <1>2, <1>3
<1>6. CASE s.cmd = B3
  <2>1. s.words # <<>>
    BY <1>6, SessionParts
  <2>2. s.words[1] \in Word
    BY <1>1, <2>1
  <2>3. s.words[1] \in Seq(Byte)
    BY <2>2, WordIsSequence
  <2>4. Bytes(s) = <<B3>> \o s.words[1]
    BY <1>6 DEF Bytes, B1, B2, B3
  <2> QED BY <2>3, <2>4, <1>3
<1>7. CASE s.cmd = 0
  <2>1. Bytes(s) = <<0>>
    BY <1>7 DEF Bytes, B1, B2, B3
  <2> QED BY <2>1, <1>3
<1> QED BY <1>1, <1>4, <1>5, <1>6, <1>7

----------------------------------------------------------------------------
(* The host, and the framing of its bytes.                                  *)

LEMMA HostStep ==
  ASSUME HostType, Framing, Host
  PROVE  HostType' /\ (~csb' => todo' # <<>>)
<1> USE DEF HostType, Framing
<1>1. CASE StartSession
  <2>1. session' \in Sessions /\ todo' = Bytes(session')
    BY <1>1 DEF StartSession
  <2>2. todo' \in Seq(Byte)
    BY <2>1, BytesType
  <2> QED BY <1>1, <2>1, <2>2 DEF StartSession
<1>2. CASE HostIdle
  BY <1>2 DEF HostIdle, hostVars
<1>3. CASE CsbFalls
  <2>1. wait' \in Nat
    BY <1>3, TimesAssumption DEF CsbFalls
  <2> QED BY <1>3, <2>1 DEF CsbFalls
<1>4. CASE HostWaits
  <2>1. byte_reg' \in Byte
    BY <1>4, ByteAssumption DEF HostWaits
  <2>2. wait' \in Nat
    BY <1>4 DEF HostWaits
  <2> QED BY <1>4, <2>1, <2>2 DEF HostWaits
<1>5. CASE CsbRises
  <2>1. todo \in Seq(Byte) /\ todo # <<>>
    BY <1>5 DEF CsbRises
  <2>2. byte_reg' \in Byte /\ todo' \in Seq(Byte)
    BY <1>5, <2>1, HeadTailProperties DEF CsbRises
  <2>3. wait' \in Nat /\ csb' = TRUE /\ session' = session
    BY <1>5, TimesAssumption DEF CsbRises
  <2>4. session.words \in Seq(Word)
    BY SessionParts DEF HostType
  <2>5. image' \in Seq(Word) \cup {Nothing}
    BY <1>5, <2>4 DEF CsbRises
  <2>6. config' \in Word \cup {Nothing}
    <3>1. CASE CommandSent(B3)
      <4>1. session.words # <<>>
        BY <3>1, SessionParts DEF CommandSent, HostType
      <4>2. session.words[1] \in Word
        BY <2>4, <4>1
      <4> QED BY <1>5, <3>1, <4>2 DEF CsbRises
    <3>2. CASE ~CommandSent(B3)
      BY <1>5, <3>2 DEF CsbRises
    <3> QED BY <3>1, <3>2
  <2> QED BY <2>2, <2>3, <2>5, <2>6
<1> QED BY <1>1, <1>2, <1>3, <1>4, <1>5 DEF Host

LEMMA CsbStep ==
  ASSUME HostType, CsbType, Framing, Host, CsbFsm
  PROVE  CsbType' /\ Framing'
<1>1. CsbType'
  BY DEF CsbType, CsbFsm, HostType
<1>2. main_state_init' => csb' /\ ~csb_cnt'
  <2>1. SUFFICES ASSUME main_state_init' PROVE csb' /\ ~csb_cnt'
    OBVIOUS
  <2>2. csb /\ csb_cnt
    BY <2>1 DEF CsbFsm, Framing
  <2>3. wait >= 1 /\ wait \in Nat
    BY <2>2 DEF Framing, HostType
  <2>4. wait # 0
    BY <2>3
  <2>5. HostWaits
    BY <2>2, <2>4 DEF Host, StartSession, HostIdle, CsbFalls, CsbRises
  <2>6. csb' = csb
    BY <2>5 DEF HostWaits
  <2> QED BY <2>2, <2>6 DEF CsbFsm
<1>3. csb' /\ csb_cnt' => wait' >= 1
  <2>1. SUFFICES ASSUME csb', csb_cnt' PROVE wait' >= 1
    OBVIOUS
  <2>2. ~csb
    BY <2>1 DEF CsbFsm
  <2>3. CsbRises
    BY <2>1, <2>2 DEF Host, StartSession, HostIdle, CsbFalls, HostWaits, hostVars
  <2> QED BY <2>3, TimesAssumption DEF CsbRises
<1>4. ~csb' => todo' # <<>>
  BY HostStep
<1> QED BY <1>1, <1>2, <1>3, <1>4 DEF Framing

\* A pulse of main_state_init is one cycle long, and only a fall of csb arms it.
LEMMA Pulse ==
  ASSUME Framing, CsbFsm
  PROVE  /\ main_state_init => ~main_state_init' /\ ~csb_cnt'
         /\ ~main_state_init /\ ~csb_cnt => ~main_state_init'
BY DEF Framing, CsbFsm

LEMMA LoadedStep ==
  ASSUME LoadedType, FsmType, Memory
  PROVE  LoadedType'
<1> DEFINE before == IF CommandSent(B1) THEN [a \in Addr |-> Nothing] ELSE loaded
<1>1. before \in [Addr -> Word \cup {Nothing}]
  BY DEF LoadedType
<1>2. iccm_data \in Word
  BY DEF FsmType
<1>3. loaded' = IF ~iccm_prog_done /\ iccm_valid
                THEN [before EXCEPT ![waddr] = iccm_data] ELSE before
  BY DEF Memory
<1> HIDE DEF before
<1> QED BY <1>1, <1>2, <1>3 DEF LoadedType

----------------------------------------------------------------------------
(* The main FSM, action by action.                                          *)

Before == /\ HostType /\ ShiftType /\ FsmType /\ CsbType
          /\ Framing /\ SessionInv /\ CsbFsm
After  == ShiftType' /\ FsmType' /\ SessionInv'

LEMMA MidleStep ==
  ASSUME Before, Midle
  PROVE  After
<1> USE DEF Before, After, Midle, ShiftType, FsmType, SessionInv, shiftVars, writeVars, modeVars
<1>1. ShiftType' /\ FsmType' /\ SessionStatus'
  BY DEF SessionStatus
<1>2. Between'
  BY Pulse DEF Between, InIccm
<1>3. FlashStarts' /\ IccmStarts'
  BY DEF FlashStarts, IccmStarts
<1> QED BY <1>1, <1>2, <1>3

LEMMA CommandStep ==
  ASSUME Before, Command
  PROVE  After
<1> USE DEF Before, After, Command, ShiftType, FsmType, SessionInv,
            stateVars, shiftVars, writeVars, qspiVars, modeVars
<1>1. ShiftType' /\ FsmType' /\ SessionStatus'
  <2>1. ShiftType'
    OBVIOUS
  <2>2. flash_intf' <=> byte_reg = B2
    BY DEF SessionStatus, TakesPins
  <2>3. iccm_prog_done' <=> byte_reg \notin {B1, B2}
    BY DEF SessionStatus
  <2>4. main_next_state' = CASE byte_reg = B1 -> "ICCM"
                             [] byte_reg = B2 -> "FLASH"
                             [] byte_reg = B3 -> "QSPI_CONFIG"
                             [] OTHER -> "MIDLE"
    OBVIOUS
  <2>5. SessionStatus'
    BY <2>2, <2>3, <2>4 DEF SessionStatus, B1, B2, B3
  <2>6. FsmType'
    <3>1. flash_intf' \in BOOLEAN
      BY DEF TakesPins
    <3>2. iccm_prog_done' \in BOOLEAN
      OBVIOUS
    <3>3. main_next_state' \in {"MIDLE", "COMMAND", "ICCM", "FLASH", "QSPI_CONFIG"}
      BY <2>4 DEF B1, B2, B3
    <3> QED BY <3>1, <3>2, <3>3
  <2> QED BY <2>1, <2>5, <2>6
<1>2. Between'
  BY DEF Between, InIccm, SessionStatus
<1>3. FlashStarts' /\ IccmStarts'
  BY Pulse DEF FlashStarts, IccmStarts, Between, AlmostZero, Zero, InIccm, B1, B2, B3
<1> QED BY <1>1, <1>2, <1>3

LEMMA ByteReceivedStep ==
  ASSUME Before, ByteReceived
  PROVE  After
<1> USE DEF Before, After, ByteReceived, ShiftType, FsmType, SessionInv,
            stateVars, shiftVars, writeVars, qspiVars, modeVars
<1>1. ShiftType' /\ FsmType' /\ SessionStatus'
  BY DEF SessionStatus, InIccm
<1>2. Between'
  BY Pulse DEF Between, InIccm
<1>3. FlashStarts' /\ IccmStarts'
  BY DEF FlashStarts, IccmStarts, AlmostZero, InIccm
<1> QED BY <1>1, <1>2, <1>3

LEMMA WriteWordStep ==
  ASSUME Before, WriteWord
  PROVE  After
<1> USE DEF Before, After, WriteWord, ShiftType, FsmType, SessionInv,
            stateVars, shiftVars, writeVars, qspiVars, modeVars
<1>1. ShiftType' /\ FsmType' /\ SessionStatus'
  BY DEF SessionStatus, InIccm
<1>2. Between'
  BY DEF Between, InIccm
<1>3. FlashStarts' /\ IccmStarts'
  BY DEF FlashStarts, IccmStarts, AlmostZero, InIccm, WordDue
<1> QED BY <1>1, <1>2, <1>3

LEMMA AwaitByteStep ==
  ASSUME Before, AwaitByte
  PROVE  After
<1> USE DEF Before, After, AwaitByte, ShiftType, FsmType, SessionInv,
            stateVars, shiftVars, writeVars, qspiVars, modeVars
<1>1. ShiftType' /\ FsmType' /\ SessionStatus'
  BY ZeroType DEF SessionStatus, InIccm
<1>2. Between'
  BY DEF Between, InIccm
<1>3. FlashStarts' /\ IccmStarts'
  BY DEF FlashStarts, IccmStarts, InIccm
<1> QED BY <1>1, <1>2, <1>3

LEMMA ShiftByteStep ==
  ASSUME Before, ShiftByte
  PROVE  After
<1> USE DEF Before, After, ShiftByte, ShiftType, FsmType, SessionInv,
            stateVars, shiftVars, writeVars, qspiVars, modeVars
<1>0. /\ Shift \in Word
      /\ Shift[1] = word_reg[2] /\ Shift[2] = word_reg[3] /\ Shift[3] = word_reg[4]
  BY ShiftedWord DEF HostType
<1>1. ShiftType' /\ FsmType' /\ SessionStatus'
  BY <1>0, CountType DEF SessionStatus, InIccm
<1>2. Between'
  BY DEF Between, InIccm
<1>3. FlashStarts' /\ IccmStarts'
  <2>1. ~FlashStarts' => FALSE
    BY DEF FlashStarts, InIccm
  <2>2. IccmStarts'
    <3>1. SUFFICES ASSUME target_memory
                   PROVE  IccmStarts'
      BY DEF IccmStarts
    <3>2. word_reg = Zero /\ byte_cnt = 0
      BY <3>1 DEF IccmStarts, InIccm
    <3>3. AlmostZero' /\ byte_cnt' = 1
      BY <1>0, <3>2 DEF AlmostZero, Zero, Count
    <3>4. ~main_state_init'
      BY Pulse DEF Between
    <3> QED BY <3>3, <3>4 DEF IccmStarts, InIccm
  <2> QED BY <2>1, <2>2
<1> QED BY <1>1, <1>2, <1>3

LEMMA EndIccmStep ==
  ASSUME Before, EndIccm
  PROVE  After
<1> USE DEF Before, After, EndIccm, ShiftType, FsmType, SessionInv,
            stateVars, shiftVars, writeVars, qspiVars, modeVars
<1>1. ShiftType' /\ FsmType' /\ SessionStatus'
  <2>1. Count \in 0 .. 4
    BY CountType
  <2>2. 0 \in Addr
    BY AddrAssumption DEF Addr
  <2> QED BY <2>1, <2>2, ZeroType DEF SessionStatus, InIccm
<1>2. Between'
  BY DEF Between, InIccm
<1>3. FlashStarts' /\ IccmStarts'
  BY DEF FlashStarts, IccmStarts, InIccm
<1> QED BY <1>1, <1>2, <1>3

LEMMA UpdateAddrStep ==
  ASSUME Before, UpdateAddr
  PROVE  After
<1> USE DEF Before, After, UpdateAddr, ShiftType, FsmType, SessionInv,
            stateVars, shiftVars, writeVars, qspiVars, modeVars
<1>1. ShiftType' /\ FsmType' /\ SessionStatus'
  BY NextAddrType DEF SessionStatus, InIccm
<1>2. Between'
  BY DEF Between, InIccm
<1>3. FlashStarts' /\ IccmStarts'
  BY DEF FlashStarts, IccmStarts, InIccm, AlmostZero
<1> QED BY <1>1, <1>2, <1>3

LEMMA FlashByteStep ==
  ASSUME Before, FlashByte
  PROVE  After
<1> USE DEF Before, After, FlashByte, ShiftType, FsmType, SessionInv,
            stateVars, shiftVars, writeVars, qspiVars, modeVars
<1>0. /\ Shift \in Word
      /\ Shift[1] = word_reg[2] /\ Shift[2] = word_reg[3] /\ Shift[3] = word_reg[4]
  BY ShiftedWord DEF HostType
<1>1. ShiftType' /\ FsmType' /\ SessionStatus'
  BY <1>0 DEF SessionStatus
<1>2. Between'
  BY DEF Between, InIccm
<1>3. FlashStarts' /\ IccmStarts'
  <2>1. FlashStarts'
    <3>1. SUFFICES ASSUME ~target_memory
                   PROVE  AlmostZero' /\ ~main_state_init'
      BY DEF FlashStarts
    <3>2. word_reg = Zero
      BY <3>1 DEF FlashStarts
    <3> QED BY <1>0, <3>2, Pulse DEF AlmostZero, Zero
  <2>2. IccmStarts'
    BY DEF IccmStarts
  <2> QED BY <2>1, <2>2
<1> QED BY <1>1, <1>2, <1>3

LEMMA AwaitFlashStep ==
  ASSUME Before, AwaitFlash
  PROVE  After
<1> USE DEF Before, After, AwaitFlash, ShiftType, FsmType, SessionInv,
            stateVars, shiftVars, writeVars, qspiVars, modeVars
<1>1. ShiftType' /\ FsmType' /\ SessionStatus'
  BY DEF SessionStatus
<1>2. Between'
  BY DEF Between, InIccm
<1>3. FlashStarts' /\ IccmStarts'
  BY DEF FlashStarts, IccmStarts
<1> QED BY <1>1, <1>2, <1>3

LEMMA EndFlashStep ==
  ASSUME Before, EndFlash
  PROVE  After
<1> USE DEF Before, After, EndFlash, ShiftType, FsmType, SessionInv,
            stateVars, shiftVars, writeVars, qspiVars, modeVars
<1>1. ShiftType' /\ FsmType' /\ SessionStatus'
  BY ZeroType DEF SessionStatus
<1>2. Between'
  BY DEF Between, InIccm
<1>3. FlashStarts' /\ IccmStarts'
  BY DEF FlashStarts, IccmStarts
<1> QED BY <1>1, <1>2, <1>3

LEMMA AwaitConfigStep ==
  ASSUME Before, AwaitConfig
  PROVE  After
<1> USE DEF Before, After, AwaitConfig, ShiftType, FsmType, SessionInv,
            stateVars, shiftVars, writeVars, qspiVars, modeVars
<1>1. ShiftType' /\ FsmType' /\ SessionStatus'
  BY DEF SessionStatus, InConfig
<1>2. Between'
  BY DEF Between, InIccm, InConfig
<1>3. FlashStarts' /\ IccmStarts'
  BY DEF FlashStarts, IccmStarts, InConfig
<1> QED BY <1>1, <1>2, <1>3

LEMMA SendConfigStep ==
  ASSUME Before, SendConfig
  PROVE  After
<1> USE DEF Before, After, SendConfig, ShiftType, FsmType, SessionInv,
            stateVars, shiftVars, writeVars, qspiVars, modeVars
<1>1. ShiftType' /\ FsmType' /\ SessionStatus'
  BY DEF SessionStatus, InConfig
<1>2. Between'
  BY DEF Between, InIccm, InConfig
<1>3. FlashStarts' /\ IccmStarts'
  BY DEF FlashStarts, IccmStarts, InConfig
<1> QED BY <1>1, <1>2, <1>3

LEMMA ConfigByteStep ==
  ASSUME Before, ConfigByte
  PROVE  After
<1> USE DEF Before, After, ConfigByte, ShiftType, FsmType, SessionInv,
            stateVars, shiftVars, writeVars, qspiVars, modeVars
<1>1. ShiftType' /\ FsmType' /\ SessionStatus'
  BY ShiftedWord, CountType DEF SessionStatus, InConfig, HostType
<1>2. Between'
  BY DEF Between, InIccm, InConfig
<1>3. FlashStarts' /\ IccmStarts'
  BY DEF FlashStarts, IccmStarts, InConfig
<1> QED BY <1>1, <1>2, <1>3

LEMMA EndConfigStep ==
  ASSUME Before, EndConfig
  PROVE  After
<1> USE DEF Before, After, EndConfig, ShiftType, FsmType, SessionInv,
            stateVars, shiftVars, writeVars, qspiVars, modeVars
<1>1. ShiftType' /\ FsmType' /\ SessionStatus'
  BY ZeroType DEF SessionStatus, InConfig
<1>2. Between'
  BY DEF Between, InIccm, InConfig
<1>3. FlashStarts' /\ IccmStarts'
  BY DEF FlashStarts, IccmStarts, InConfig
<1> QED BY <1>1, <1>2, <1>3

LEMMA MainFsmStep ==
  ASSUME Before, MainFsm
  PROVE  After
BY MidleStep, CommandStep, ByteReceivedStep, WriteWordStep, AwaitByteStep,
     ShiftByteStep, EndIccmStep, UpdateAddrStep, FlashByteStep, AwaitFlashStep,
     EndFlashStep, AwaitConfigStep, SendConfigStep, ConfigByteStep, EndConfigStep
   DEF MainFsm

----------------------------------------------------------------------------

LEMMA IInvAtStart == Init => IInv
<1> SUFFICES ASSUME Init PROVE IInv
  OBVIOUS
<1> USE DEF Init
<1>1. HostType
  BY ByteAssumption DEF HostType, Sessions
<1>2. ShiftType /\ CsbType
  <2>1. word_reg \in Word /\ byte_cnt \in 0 .. 4
    BY ZeroType
  <2> QED BY <2>1 DEF ShiftType, CsbType
<1>3. FsmType
  <2>1. 0 \in Addr
    BY AddrAssumption DEF Addr
  <2> QED BY <2>1, ZeroType DEF FsmType
<1>4. LoadedType
  BY DEF LoadedType
<1>5. Framing /\ SessionInv
  BY DEF Framing, SessionInv, Between, FlashStarts, IccmStarts, SessionStatus, InIccm
<1> QED BY <1>1, <1>2, <1>3, <1>4, <1>5, TypeParts DEF IInv

\* A power-on reset makes the first state true again.
LEMMA ResetStep ==
  ASSUME PowerOnReset
  PROVE  IInv'
<1> USE DEF PowerOnReset
<1>1. HostType'
  BY ByteAssumption DEF HostType, Sessions
<1>2. ShiftType' /\ CsbType'
  <2>1. word_reg' \in Word /\ byte_cnt' \in 0 .. 4
    BY ZeroType
  <2> QED BY <2>1 DEF ShiftType, CsbType
<1>3. FsmType'
  <2>1. 0 \in Addr
    BY AddrAssumption DEF Addr
  <2> QED BY <2>1, ZeroType DEF FsmType
<1>4. LoadedType'
  BY DEF LoadedType
<1>5. Framing' /\ SessionInv'
  BY DEF Framing, SessionInv, Between, FlashStarts, IccmStarts, SessionStatus, InIccm
<1>6. TypeOK'
  BY <1>1, <1>2, <1>3, <1>4
  DEF TypeOK, HostType, ShiftType, FsmType, CsbType, LoadedType
<1> QED BY <1>5, <1>6 DEF IInv

LEMMA ClockStep ==
  ASSUME IInv, Clock
  PROVE  IInv'
<1>1. HostType /\ ShiftType /\ FsmType /\ CsbType /\ LoadedType /\ Framing /\ SessionInv
  BY TypeParts DEF IInv
<1>2. Host /\ CsbFsm /\ MainFsm /\ Memory
  BY DEF Clock
<1>3. HostType'
  BY <1>1, <1>2, HostStep
<1>4. CsbType' /\ Framing'
  BY <1>1, <1>2, CsbStep
<1>5. After
  BY <1>1, <1>2, MainFsmStep DEF Before
<1>6. LoadedType'
  BY <1>1, <1>2, LoadedStep
<1>7. TypeOK'
  BY <1>3, <1>4, <1>5, <1>6
  DEF After, TypeOK, HostType, ShiftType, FsmType, CsbType, LoadedType
<1> QED BY <1>4, <1>5, <1>7 DEF After, IInv

LEMMA StutterStep ==
  ASSUME IInv, UNCHANGED vars
  PROVE  IInv'
BY DEF IInv, TypeOK, Word, Framing, SessionInv, Between, FlashStarts, IccmStarts,
       SessionStatus, AlmostZero, InIccm, vars, hostVars, csbVars, stateVars, shiftVars,
       writeVars, qspiVars, modeVars

LEMMA IInvAlways == Spec => []IInv
<1>1. IInv /\ [Next]_vars => IInv'
  BY ClockStep, ResetStep, StutterStep DEF Next
<1> QED BY IInvAtStart, <1>1, PTL DEF Spec

\* The registers of the programmer and the host keep their types.
THEOREM TypeCorrect == Spec => []TypeOK
<1>1. IInv => TypeOK
  BY DEF IInv
<1> QED BY IInvAlways, <1>1, PTL

\* Whatever the host sends and whenever the power fails, the flash pins belong to
\* the host exactly in a flash session, the core is held exactly while a load or
\* flash session lasts, and the ICCM is written in a load session only.
THEOREM StatusFollowsSession == Spec => []SessionStatus
<1>1. IInv => SessionStatus
  BY DEF IInv, SessionInv
<1> QED BY IInvAlways, <1>1, PTL

\* The programmer keeps the promise the boot logic relies on: whatever the host
\* sends, and however short the session, target_memory names its memory before
\* p_done rises.  A terminator is four bytes, so it cannot be complete before the
\* main FSM has waited once, and waiting is what sets target_memory.
THEOREM ImplementsStatusSpec == Spec => ImplementsStatus
<1>1. Init => Status!Init
  BY DEF Init, Status!Init, CurrentSession
<1>2. ASSUME IInv, PowerOnReset
      PROVE  Status!Reset
  BY <1>2 DEF PowerOnReset, Status!Reset, CurrentSession
<1>3. ASSUME IInv, Clock
      PROVE  Status!Clock
  <2> USE DEF CurrentSession, modeVars, stateVars, InIccm, InConfig
  <2>0. /\ iccm_prog_done \in BOOLEAN /\ target_memory \in BOOLEAN
        /\ SessionStatus
    BY <1>3 DEF IInv, SessionInv, TypeOK
  <2>1. MainFsm
    BY <1>3 DEF Clock
  <2>2. CASE Midle
    BY <2>2 DEF Midle, Status!Clock, Status!vars
  <2>3. CASE Command
    <3>1. iccm_prog_done = TRUE
      BY <2>0, <2>3 DEF Command, SessionStatus
    <3>2. CASE byte_reg \in {B1, B2}
      <4>1. iccm_prog_done' = FALSE /\ target_memory' = target_memory
        BY <2>3, <3>2 DEF Command
      <4>2. CurrentSession = "none" /\ CurrentSession' \in {"iccm", "flash"}
        <5>1. main_next_state = "COMMAND" /\ main_next_state' \in {"ICCM", "FLASH"}
          BY <2>3, <3>2 DEF Command, B1, B2, B3
        <5> QED BY <5>1
      <4> QED BY <4>1, <4>2 DEF Status!Clock, Status!Open
    <3>3. CASE byte_reg \notin {B1, B2}
      <4>1. iccm_prog_done' = TRUE /\ target_memory' = target_memory
        BY <2>3, <3>1, <3>3 DEF Command
      <4>2. CurrentSession = "none" /\ CurrentSession' = "none"
        BY <2>3, <3>3 DEF Command, B3
      <4> QED BY <3>1, <4>1, <4>2 DEF Status!Clock, Status!vars
    <3> QED BY <3>2, <3>3
  <2>4. CASE \/ ByteReceived \/ WriteWord \/ ShiftByte \/ UpdateAddr
             \/ FlashByte \/ AwaitConfig \/ SendConfig \/ ConfigByte
    BY <2>4 DEF ByteReceived, WriteWord, ShiftByte, UpdateAddr, FlashByte,
                AwaitConfig, SendConfig, ConfigByte, Status!Clock, Status!vars
  <2>5. CASE AwaitByte \/ AwaitFlash
    BY <2>5 DEF AwaitByte, AwaitFlash, Status!Clock, Status!SetTarget
  <2>6. CASE EndConfig
    BY <2>6 DEF EndConfig, Status!Clock, Status!vars
  <2>7. CASE EndIccm \/ EndFlash
    <3>1. word_reg[2] # 0
      BY <2>7 DEF EndIccm, EndFlash, Terminator
    <3>2. ~AlmostZero
      BY <3>1 DEF AlmostZero
    <3>3. target_memory = (CurrentSession = "flash")
      BY <1>3, <2>0, <2>7, <3>2
      DEF EndIccm, EndFlash, IInv, SessionInv, IccmStarts, FlashStarts
    <3> QED BY <2>7, <3>3 DEF EndIccm, EndFlash, Status!Clock, Status!End
  <2> QED BY <2>1, <2>2, <2>3, <2>4, <2>5, <2>6, <2>7 DEF MainFsm
<1>4. ASSUME UNCHANGED vars
      PROVE  UNCHANGED Status!vars
  BY <1>4 DEF vars, stateVars, modeVars, Status!vars, CurrentSession
<1>5. IInv /\ [Next]_vars => [Status!Next]_(Status!vars)
  BY <1>2, <1>3, <1>4 DEF Next, Status!Next
<1> QED BY IInvAlways, <1>1, <1>5, PTL DEF Spec, ImplementsStatus, Status!Spec

----------------------------------------------------------------------------
(* What is sent, byte by byte.                                              *)

LEMMA ConcatValue ==
  ASSUME NEW words \in Seq(Word)
  PROVE  /\ Concat(words) \in Seq(Byte)
         /\ Len(words) \in Nat
         /\ Len(Concat(words)) = 4 * Len(words)
         /\ \A w \in 0 .. Len(words) - 1, i \in 1 .. 4 :
              Concat(words)[4 * w + i] = words[w + 1][i]
<1>1. Len(words) \in Nat
  OBVIOUS
<1>2. Concat(words) \in Seq(Byte)
  BY ConcatType
<1>3. Len(Concat(words)) = 4 * Len(words)
  <2>1. DOMAIN Concat(words) = 1 .. 4 * Len(words)
    BY DEF Concat
  <2>2. Len(Concat(words)) \in Nat /\ DOMAIN Concat(words) = 1 .. Len(Concat(words))
    BY <1>2, LenProperties
  <2>3. 4 * Len(words) \in Nat
    BY <1>1
  <2> QED BY <2>1, <2>2, <2>3
<1>4. ASSUME NEW w \in 0 .. Len(words) - 1, NEW i \in 1 .. 4
      PROVE  Concat(words)[4 * w + i] = words[w + 1][i]
  <2>1. 4 * w + i \in 1 .. 4 * Len(words)
    BY <1>1
  <2>2. (4 * w + i - 1) \div 4 = w /\ (4 * w + i - 1) % 4 = i - 1
    BY <1>1
  <2>3. Concat(words)[4 * w + i] =
          words[((4 * w + i - 1) \div 4) + 1][((4 * w + i - 1) % 4) + 1]
    BY <2>1 DEF Concat
  <2>4. (i - 1) + 1 = i
    OBVIOUS
  <2> QED BY <2>2, <2>3, <2>4
<1> QED BY <1>1, <1>2, <1>3, <1>4

LEMMA BytesValue ==
  ASSUME NEW s \in Sessions
  PROVE  LET L == Len(s.words)
             b == Bytes(s)
         IN  /\ L \in Nat
             /\ b[1] = s.cmd
             /\ s.cmd = B1 => Len(b) = 4 * L + 6
             /\ s.cmd = B2 => Len(b) = 4 * L + 5
             /\ s.cmd \in {B1, B2} =>
                  /\ \A k \in 1 .. 4 * L : b[k + 1] = Concat(s.words)[k]
                  /\ \A j \in 1 .. 4 : b[4 * L + j + 1] = EndMark[j]
             /\ s.cmd = B3 => Len(b) = 5 /\ \A j \in 1 .. 4 : b[j + 1] = s.words[1][j]
             /\ s.cmd = 0 => Len(b) = 1
<1> DEFINE L == Len(s.words)
           b == Bytes(s)
           c == Concat(s.words)
<1>1. s.words \in Seq(Word) /\ s.cmd \in {B1, B2, B3, 0} /\ (s.cmd = B3 => s.words # <<>>)
  BY SessionParts
<1>2. c \in Seq(Byte) /\ L \in Nat /\ Len(c) = 4 * L
  BY <1>1, ConcatValue
<1>3. /\ EndMark \in Seq(Byte) /\ <<0>> \in Seq(Byte)
      /\ <<B1>> \in Seq(Byte) /\ <<B2>> \in Seq(Byte) /\ <<B3>> \in Seq(Byte)
      /\ Len(EndMark) = 4 /\ Len(<<B1>>) = 1 /\ Len(<<B2>>) = 1 /\ Len(<<B3>>) = 1
      /\ Len(<<0>>) = 1 /\ <<B1>>[1] = B1 /\ <<B2>>[1] = B2 /\ <<B3>>[1] = B3
  BY ByteAssumption DEF EndMark, B1, B2, B3
<1>4. B1 # B2 /\ B1 # B3 /\ B2 # B3 /\ B1 # 0 /\ B2 # 0 /\ B3 # 0
  BY DEF B1, B2, B3
<1> HIDE DEF c
<1>5. ASSUME NEW cmd \in {B1, B2}
      PROVE  LET h == <<cmd>> \o c
                 e == h \o EndMark
             IN  /\ h \in Seq(Byte) /\ Len(h) = 4 * L + 1
                 /\ e \in Seq(Byte) /\ Len(e) = 4 * L + 5
                 /\ e[1] = cmd
                 /\ \A k \in 1 .. 4 * L : e[k + 1] = c[k]
                 /\ \A j \in 1 .. 4 : e[4 * L + j + 1] = EndMark[j]
  <2> DEFINE h == <<cmd>> \o c
             e == h \o EndMark
  <2>1. <<cmd>> \in Seq(Byte) /\ Len(<<cmd>>) = 1 /\ <<cmd>>[1] = cmd
    BY <1>3
  <2>2. /\ h \in Seq(Byte) /\ Len(h) = 1 + 4 * L
        /\ \A i \in 1 .. 1 + 4 * L : h[i] = IF i <= 1 THEN <<cmd>>[i] ELSE c[i - 1]
    <3>1. /\ h \in Seq(Byte) /\ Len(h) = Len(<<cmd>>) + Len(c)
          /\ \A i \in 1 .. Len(<<cmd>>) + Len(c) :
                h[i] = IF i <= Len(<<cmd>>) THEN <<cmd>>[i] ELSE c[i - Len(<<cmd>>)]
      BY <1>2, <2>1, ConcatProperties
    <3> QED BY <1>2, <2>1, <3>1
  <2> HIDE DEF h, L
  <2>3. /\ e \in Seq(Byte) /\ Len(e) = 4 * L + 5
        /\ \A i \in 1 .. 4 * L + 5 :
             e[i] = IF i <= 4 * L + 1 THEN h[i] ELSE EndMark[i - (4 * L + 1)]
    <3>1. /\ e \in Seq(Byte) /\ Len(e) = Len(h) + Len(EndMark)
          /\ \A i \in 1 .. Len(h) + Len(EndMark) :
                e[i] = IF i <= Len(h) THEN h[i] ELSE EndMark[i - Len(h)]
      BY <1>3, <2>2, ConcatProperties
    <3> HIDE DEF e
    <3> QED BY <1>2, <1>3, <2>2, <3>1
  <2> HIDE DEF e
  <2>4. e[1] = cmd /\ \A k \in 1 .. 4 * L : e[k + 1] = c[k]
    BY <1>2, <2>1, <2>2, <2>3
  <2>5. \A j \in 1 .. 4 : e[4 * L + j + 1] = EndMark[j]
    BY <1>2, <2>3
  <2>6. Len(h) = 4 * L + 1
    BY <1>2, <2>2
  <2> QED BY <2>2, <2>3, <2>4, <2>5, <2>6 DEF h, e
<1>6. CASE s.cmd = B2
  <2>1. b = (<<B2>> \o c) \o EndMark
    BY <1>4, <1>6 DEF Bytes, c
  <2> HIDE DEF b, L
  <2>2. Len(b) = 4 * L + 5 /\ b[1] = B2 /\ (\A k \in 1 .. 4 * L : b[k + 1] = c[k])
        /\ (\A j \in 1 .. 4 : b[4 * L + j + 1] = EndMark[j])
    BY <1>5, <2>1
  <2> QED BY <1>2, <1>4, <1>6, <2>2 DEF b, L, c
<1>7. CASE s.cmd = B1
  <2> DEFINE e == (<<B1>> \o c) \o EndMark
  <2>1. b = e \o <<0>>
    BY <1>4, <1>7 DEF Bytes, c
  <2>2. /\ e \in Seq(Byte) /\ Len(e) = 4 * L + 5 /\ e[1] = B1
        /\ \A k \in 1 .. 4 * L : e[k + 1] = c[k]
        /\ \A j \in 1 .. 4 : e[4 * L + j + 1] = EndMark[j]
    BY <1>5
  <2> HIDE DEF e, b, L
  <2>3. Len(b) = 4 * L + 6 /\ \A i \in 1 .. 4 * L + 5 : b[i] = e[i]
    <3>1. /\ Len(e \o <<0>>) = Len(e) + Len(<<0>>)
          /\ \A i \in 1 .. Len(e) + Len(<<0>>) :
                (e \o <<0>>)[i] = IF i <= Len(e) THEN e[i] ELSE <<0>>[i - Len(e)]
      BY <1>3, <2>2, ConcatProperties
    <3> QED BY <1>2, <1>3, <2>1, <2>2, <3>1
  <2>4. /\ b[1] = B1 /\ (\A k \in 1 .. 4 * L : b[k + 1] = c[k])
        /\ (\A j \in 1 .. 4 : b[4 * L + j + 1] = EndMark[j])
    BY <1>2, <2>2, <2>3
  <2> QED BY <1>2, <1>4, <1>7, <2>3, <2>4 DEF b, L, c
<1>8. CASE s.cmd = B3
  <2>1. b = <<B3>> \o s.words[1]
    BY <1>4, <1>8 DEF Bytes
  <2>2. s.words[1] \in Seq(Byte) /\ Len(s.words[1]) = 4
    <3>1. s.words[1] \in Word
      BY <1>1, <1>8, EmptySeq
    <3> QED BY <3>1, WordIsSequence
  <2> DEFINE w == s.words[1]
  <2> HIDE DEF w, b
  <2>3. /\ Len(b) = Len(<<B3>>) + Len(w)
        /\ \A i \in 1 .. Len(<<B3>>) + Len(w) :
             b[i] = IF i <= Len(<<B3>>) THEN <<B3>>[i] ELSE w[i - Len(<<B3>>)]
    <3>1. w \in Seq(Byte) /\ b = <<B3>> \o w
      BY <2>1, <2>2 DEF w
    <3> QED BY <1>3, <3>1, ConcatProperties
  <2>4. b[1] = B3 /\ Len(b) = 5 /\ \A j \in 1 .. 4 : b[j + 1] = w[j]
    BY <1>3, <2>2, <2>3 DEF w
  <2> QED BY <1>2, <1>4, <1>8, <2>4 DEF b, w
<1>9. CASE s.cmd = 0
  <2>1. b = <<0>>
    BY <1>4, <1>9 DEF Bytes
  <2> HIDE DEF b
  <2> QED BY <1>2, <1>3, <1>4, <1>9, <2>1 DEF b
<1> QED BY <1>1, <1>6, <1>7, <1>8, <1>9

LEMMA StreamValue ==
  ASSUME NEW words \in Seq(Word)
  PROVE  LET L == Len(words)
             t == Stream(words)
         IN  /\ \A i \in 1 .. 4 : t[i] = 0
             /\ \A k \in 1 .. 4 * L : t[k + 4] = Concat(words)[k]
             /\ \A j \in 1 .. 4 : t[4 * L + j + 4] = EndMark[j]
<1> DEFINE L == Len(words)
           c == Concat(words)
           h == Zero \o c
           t == Stream(words)
<1>1. c \in Seq(Byte) /\ L \in Nat /\ Len(c) = 4 * L
  BY ConcatValue
<1>2. /\ Zero \in Seq(Byte) /\ EndMark \in Seq(Byte) /\ Len(Zero) = 4 /\ Len(EndMark) = 4
      /\ \A i \in 1 .. 4 : Zero[i] = 0
  BY ByteAssumption DEF Zero, EndMark
<1> HIDE DEF c, L
<1>3. /\ h \in Seq(Byte) /\ Len(h) = 4 + 4 * L
      /\ \A i \in 1 .. 4 + 4 * L : h[i] = IF i <= 4 THEN Zero[i] ELSE c[i - 4]
  <2>1. /\ h \in Seq(Byte) /\ Len(h) = Len(Zero) + Len(c)
        /\ \A i \in 1 .. Len(Zero) + Len(c) :
             h[i] = IF i <= Len(Zero) THEN Zero[i] ELSE c[i - Len(Zero)]
    BY <1>1, <1>2, ConcatProperties
  <2> HIDE DEF h
  <2> QED BY <1>1, <1>2, <2>1
<1>4. t = h \o EndMark
  BY DEF Stream, c
<1> HIDE DEF h, t
<1>5. \A i \in 1 .. 4 * L + 8 : t[i] = IF i <= 4 * L + 4 THEN h[i] ELSE EndMark[i - (4 * L + 4)]
  <2>1. \A i \in 1 .. Len(h) + Len(EndMark) :
             t[i] = IF i <= Len(h) THEN h[i] ELSE EndMark[i - Len(h)]
    BY <1>2, <1>3, <1>4, ConcatProperties
  <2> QED BY <1>1, <1>2, <1>3, <2>1
<1>6. \A i \in 1 .. 4 : t[i] = 0
  BY <1>1, <1>2, <1>3, <1>5
<1>7. \A k \in 1 .. 4 * L : t[k + 4] = c[k]
  BY <1>1, <1>2, <1>3, <1>5
<1>8. \A j \in 1 .. 4 : t[4 * L + j + 4] = EndMark[j]
  BY <1>1, <1>5
<1> QED BY <1>6, <1>7, <1>8 DEF t, c, L

\* The four bytes that word_reg holds when t of the bytes b after the command have
\* been shifted in.
Window(b, t) == [i \in 1 .. 4 |-> IF t - 4 + i <= 0 THEN 0 ELSE b[t - 4 + i + 1]]

LEMMA WindowStarts ==
  ASSUME NEW b
  PROVE  Window(b, 0) = Zero
<1>1. Window(b, 0) = [i \in 1 .. 4 |-> 0]
  BY DEF Window
<1>2. Zero = [i \in 1 .. 4 |-> 0]
  BY DEF Zero
<1> QED BY <1>1, <1>2

LEMMA WindowMoves ==
  ASSUME word_reg \in Word, byte_reg \in Byte, NEW b, NEW t \in Nat,
         word_reg = Window(b, t), byte_reg = b[t + 2]
  PROVE  Shift \in Word /\ Shift = Window(b, t + 1)
<1>1. /\ Shift \in Word
      /\ Shift[1] = word_reg[2] /\ Shift[2] = word_reg[3] /\ Shift[3] = word_reg[4]
      /\ Shift[4] = byte_reg
  BY ShiftedWord
<1>2. Shift = [i \in 1 .. 4 |-> Shift[i]]
  BY <1>1 DEF Word
<1>3. ASSUME NEW i \in 1 .. 4
      PROVE  Shift[i] = IF (t + 1) - 4 + i <= 0 THEN 0 ELSE b[(t + 1) - 4 + i + 1]
  <2>1. CASE i = 4
    <3>1. (t + 1) - 4 + i + 1 = t + 2 /\ ~((t + 1) - 4 + i <= 0)
      BY <2>1
    <3> QED BY <1>1, <2>1, <3>1
  <2>2. CASE i # 4
    <3>1. i + 1 \in 1 .. 4 /\ Shift[i] = word_reg[i + 1]
      BY <1>1, <2>2
    <3>2. word_reg[i + 1] = IF t - 4 + (i + 1) <= 0 THEN 0 ELSE b[t - 4 + (i + 1) + 1]
      BY <3>1 DEF Window
    <3>3. t - 4 + (i + 1) = (t + 1) - 4 + i
      OBVIOUS
    <3> QED BY <3>1, <3>2, <3>3
  <2> QED BY <2>1, <2>2
<1>4. Window(b, t + 1) = [i \in 1 .. 4 |-> Shift[i]]
  BY <1>3 DEF Window
<1> QED BY <1>1, <1>2, <1>4

\* What passes through word_reg is the stream, whatever the command.
LEMMA WindowOfStream ==
  ASSUME NEW s \in Sessions, s.cmd \in {B1, B2}, NEW t \in 0 .. 4 * Len(s.words) + 4,
         NEW i \in 1 .. 4
  PROVE  Window(Bytes(s), t)[i] = Stream(s.words)[t + i]
<1> DEFINE L == Len(s.words)
           b == Bytes(s)
           c == Concat(s.words)
           m == Stream(s.words)
<1>1. s.words \in Seq(Word)
  BY SessionParts
<1>2. /\ L \in Nat
      /\ \A k \in 1 .. 4 * L : b[k + 1] = c[k]
      /\ \A j \in 1 .. 4 : b[4 * L + j + 1] = EndMark[j]
  BY BytesValue
<1>3. /\ \A j \in 1 .. 4 : m[j] = 0
      /\ \A k \in 1 .. 4 * L : m[k + 4] = c[k]
      /\ \A j \in 1 .. 4 : m[4 * L + j + 4] = EndMark[j]
  BY <1>1, StreamValue
<1>4. Window(b, t)[i] = IF t - 4 + i <= 0 THEN 0 ELSE b[t - 4 + i + 1]
  BY DEF Window
<1> HIDE DEF L, b, c, m
<1>5. t \in 0 .. 4 * L + 4
  BY DEF L
<1>6. CASE t - 4 + i <= 0
  <2>1. t + i \in 1 .. 4
    BY <1>2, <1>5, <1>6
  <2> QED BY <1>3, <1>4, <1>6, <2>1 DEF b, m
<1>7. CASE t - 4 + i \in 1 .. 4 * L
  <2> DEFINE k == t - 4 + i
  <2>1. k \in 1 .. 4 * L /\ ~(k <= 0) /\ t + i = k + 4
    BY <1>2, <1>5, <1>7
  <2>2. b[k + 1] = c[k] /\ m[k + 4] = c[k]
    BY <1>2, <1>3, <2>1
  <2> QED BY <1>4, <2>1, <2>2 DEF b, m
<1>8. CASE t - 4 + i > 4 * L
  <2> DEFINE j == t - 4 + i - 4 * L
  <2>1. j \in 1 .. 4 /\ ~(t - 4 + i <= 0) /\ t - 4 + i + 1 = 4 * L + j + 1 /\ t + i = 4 * L + j + 4
    BY <1>2, <1>5, <1>8
  <2> HIDE DEF j
  <2>2. b[4 * L + j + 1] = EndMark[j] /\ m[4 * L + j + 4] = EndMark[j]
    BY <1>2, <1>3, <2>1
  <2> QED BY <1>4, <2>1, <2>2 DEF b, m
<1> QED BY <1>2, <1>5, <1>6, <1>7, <1>8

\* The terminator is in word_reg when the mark at the end has been sent, never before.
LEMMA WindowEnds ==
  ASSUME Loadable, NEW s \in Sessions, s.cmd \in {B1, B2},
         NEW t \in 0 .. 4 * Len(s.words) + 4
  PROVE  Window(Bytes(s), t) = Terminator <=> t = 4 * Len(s.words) + 4
<1> DEFINE L == Len(s.words)
           m == Stream(s.words)
<1>1. s.words \in Seq(Word) /\ L \in Nat
  BY SessionParts
<1>2. \A i \in 1 .. 4 : Window(Bytes(s), t)[i] = m[t + i]
  BY WindowOfStream
<1>3. CASE t = 4 * L + 4
  <2>1. \A j \in 1 .. 4 : m[4 * L + j + 4] = EndMark[j]
    BY <1>1, StreamValue
  <2>2. \A i \in 1 .. 4 : Window(Bytes(s), t)[i] = Terminator[i]
    <3> SUFFICES ASSUME NEW i \in 1 .. 4 PROVE Window(Bytes(s), t)[i] = Terminator[i]
      OBVIOUS
    <3>1. t + i = 4 * L + i + 4
      BY <1>1, <1>3
    <3>2. EndMark[i] = Terminator[i]
      BY DEF EndMark, Terminator
    <3> QED BY <1>2, <2>1, <3>1, <3>2
  <2>3. Window(Bytes(s), t) = [i \in 1 .. 4 |-> Window(Bytes(s), t)[i]]
    BY DEF Window
  <2>4. Terminator = [i \in 1 .. 4 |-> Terminator[i]]
    BY DEF Terminator
  <2> QED BY <1>3, <2>2, <2>3, <2>4
<1>4. CASE t # 4 * L + 4
  <2>1. t \in 0 .. 4 * L + 3
    BY <1>1, <1>4
  <2>2. s.words \in Images
    BY DEF Sessions, NoCommand, B1, B2
  <2>3. PICK i \in 1 .. 4 : m[t + i] # Terminator[i]
    BY <2>1, <2>2 DEF Loadable
  <2> QED BY <1>2, <1>4, <2>3
<1> QED BY <1>3, <1>4

LEMMA WindowIsWord ==
  ASSUME NEW s \in Sessions, s.cmd \in {B1, B2}, NEW w \in 0 .. Len(s.words) - 1
  PROVE  Window(Bytes(s), 4 * w + 4) = s.words[w + 1]
<1> DEFINE L == Len(s.words)
           m == Stream(s.words)
<1>1. s.words \in Seq(Word) /\ L \in Nat /\ 4 * w + 4 \in 0 .. 4 * L + 4
  BY SessionParts
<1>2. s.words[w + 1] \in Word
  <2>1. w + 1 \in 1 .. Len(s.words)
    BY <1>1
  <2> QED BY <1>1, <2>1, ElementOfSeq
<1>3. ASSUME NEW i \in 1 .. 4
      PROVE  Window(Bytes(s), 4 * w + 4)[i] = s.words[w + 1][i]
  <2>1. Window(Bytes(s), 4 * w + 4)[i] = m[(4 * w + 4) + i]
    BY <1>1, WindowOfStream
  <2>2. 4 * w + i \in 1 .. 4 * L /\ (4 * w + 4) + i = (4 * w + i) + 4
    BY <1>1
  <2>3. m[(4 * w + i) + 4] = Concat(s.words)[4 * w + i]
    BY <1>1, <2>2, StreamValue
  <2>4. Concat(s.words)[4 * w + i] = s.words[w + 1][i]
    BY <1>1, ConcatValue
  <2> QED BY <2>1, <2>2, <2>3, <2>4
<1>4. Window(Bytes(s), 4 * w + 4) = [i \in 1 .. 4 |-> Window(Bytes(s), 4 * w + 4)[i]]
  BY DEF Window
<1>5. s.words[w + 1] = [i \in 1 .. 4 |-> s.words[w + 1][i]]
  BY <1>2 DEF Word
<1> QED BY <1>3, <1>4, <1>5

LEMMA WindowIsConfig ==
  ASSUME NEW s \in Sessions, s.cmd = B3
  PROVE  Window(Bytes(s), 4) = s.words[1]
<1> DEFINE b == Bytes(s)
           w == s.words[1]
<1>1. w \in Word
  <2>1. s.words \in Seq(Word) /\ s.words # <<>>
    BY SessionParts
  <2>2. 1 \in 1 .. Len(s.words)
    BY <2>1, EmptySeq
  <2> QED BY <2>1, <2>2, ElementOfSeq
<1>2. \A j \in 1 .. 4 : b[j + 1] = w[j]
  BY BytesValue
<1>3. Window(b, 4) = [i \in 1 .. 4 |-> b[i + 1]]
  BY DEF Window
<1>4. w = [i \in 1 .. 4 |-> w[i]]
  BY <1>1 DEF Word
<1> HIDE DEF b, w
<1>5. Window(b, 4) = w
  BY <1>2, <1>3, <1>4
<1> QED BY <1>5 DEF b, w

----------------------------------------------------------------------------
(* The host's side of a session.                                            *)

Slow == \A l \in LowTimes : l >= 2

\* A byte was completed and the main FSM has not been told, or is being told.
Arriving == csb /\ csb_cnt
InFlight == Arriving \/ main_state_init

\* No pulse of main_state_init in this cycle and the next one, two, three.
Calm  == ~InFlight
Calm3 == Calm /\ (~csb => wait >= 1)
Calm4 == /\ Calm
         /\ ~csb => wait >= 2
         /\ csb => todo = <<>> \/ wait >= 1 \/ Slow

\* Bytes of the session that have been completed.
Sent == Len(Bytes(session)) - Len(todo)

Rest == /\ Len(todo) <= Len(Bytes(session))
        /\ \A i \in 1 .. Len(todo) : todo[i] = Bytes(session)[Sent + i]

ByteThere == InFlight => Sent >= 1 /\ byte_reg = Bytes(session)[Sent]

Pacing == /\ main_state_init /\ wait = 0 => Slow
          /\ Arriving /\ wait = 1 => Slow

HostInv == Rest /\ ByteThere /\ Pacing

\* A clock edge at the host: its session stays as it is, a new one is opened, or a
\* byte is completed.
Stays == /\ UNCHANGED <<session, todo, image, config>>
         /\ csb => byte_reg' = byte_reg
         /\ InFlight' <=> Arriving
         /\ ~CommandSent(B1)

Opens == /\ todo = <<>> /\ csb /\ wait = 0
         /\ session' \in Sessions /\ todo' = Bytes(session')
         /\ session'.cmd \in {B1, B3} => image = Nothing
         /\ UNCHANGED <<image, config, byte_reg>>
         /\ ~InFlight' /\ ~Arriving /\ ~CommandSent(B1)

Rises == /\ ~csb /\ wait = 0 /\ todo # <<>>
         /\ byte_reg' = Head(todo) /\ todo' = Tail(todo)
         /\ image' = IF session.cmd = B1 /\ todo = Bytes(session) THEN session.words ELSE image
         /\ config' = IF session.cmd = B3 /\ todo = Bytes(session)
                      THEN session.words[1] ELSE config
         /\ UNCHANGED session
         /\ InFlight' /\ ~main_state_init'

LEMMA HostMoves ==
  ASSUME CarefulHost, HostType, CsbType, Framing, Host, CsbFsm
  PROVE  Stays \/ Opens \/ Rises
<1> USE DEF Framing, CsbFsm, CsbType, HostType
<1>1. CASE StartSession
  <2>1. csb /\ wait = 0 /\ todo = <<>> /\ ~Arriving /\ ~CommandSent(B1)
    BY <1>1 DEF StartSession, Arriving, CommandSent
  <2>2. csb' = csb /\ ~InFlight'
    BY <1>1, <2>1 DEF StartSession, InFlight, Arriving
  <2>3. session' \in Sessions /\ (session'.cmd \in {B1, B3} => image = Nothing)
    BY <1>1 DEF StartSession, CarefulHost
  <2> QED BY <1>1, <2>1, <2>2, <2>3 DEF StartSession, Opens
<1>2. CASE HostIdle
  BY <1>2 DEF HostIdle, hostVars, Stays, InFlight, Arriving, CommandSent
<1>3. CASE CsbFalls
  BY <1>3 DEF CsbFalls, Stays, InFlight, Arriving, CommandSent
<1>4. CASE HostWaits
  BY <1>4 DEF HostWaits, Stays, InFlight, Arriving, CommandSent
<1>5. CASE CsbRises
  <2>1. ~csb /\ wait = 0 /\ todo # <<>>
    BY <1>5 DEF CsbRises
  <2>2. InFlight' /\ ~main_state_init'
    BY <1>5, <2>1 DEF CsbRises, InFlight, Arriving
  <2> QED BY <1>5, <2>1, <2>2 DEF CsbRises, Rises, CommandSent
<1> QED BY <1>1, <1>2, <1>3, <1>4, <1>5 DEF Host

\* Frames that are far enough apart keep the pulses apart.
LEMMA PulsesApart ==
  ASSUME CarefulHost, HostType, CsbType, Framing, Pacing, Host, CsbFsm
  PROVE  /\ Pacing'
         /\ main_state_init => Calm3'
         /\ main_state_init /\ todo = <<>> => Calm4'
         /\ Calm4 => Calm3'
         /\ Calm3 => Calm'
         /\ Calm3 => ~Rises
<1> USE DEF Framing, CsbFsm, CsbType, HostType, Pacing, Calm3, Calm4, Calm, InFlight, Arriving
<1>0. /\ HighTimes \subseteq Nat \ {0, 1} /\ LowTimes \subseteq Nat \ {0}
      /\ \A h \in HighTimes, l \in LowTimes : h + l >= 4
  BY TimesAssumption DEF CarefulHost, FramesApart
<1>1. CASE StartSession
  BY <1>1 DEF StartSession, Rises, Slow
<1>2. CASE HostIdle
  BY <1>2 DEF HostIdle, hostVars, Rises, Slow
<1>3. CASE CsbFalls
  <2>1. PICK l \in LowTimes : wait' = l - 1
    BY <1>3 DEF CsbFalls
  <2>2. Slow => wait' >= 1
    BY <1>0, <2>1 DEF Slow
  <2>3. csb /\ wait = 0 /\ todo # <<>> /\ ~csb' /\ ~csb_cnt' /\ ~main_state_init'
    BY <1>3 DEF CsbFalls
  <2> QED BY <2>2, <2>3 DEF Rises
<1>4. CASE HostWaits
  <2>1. wait > 0 /\ wait' = wait - 1 /\ csb' = csb /\ todo' = todo
    BY <1>4 DEF HostWaits
  <2> QED BY <2>1 DEF Rises, Slow
<1>5. CASE CsbRises
  <2>1. PICK h \in HighTimes : wait' = h - 1
    BY <1>5 DEF CsbRises
  <2>2. wait' = 1 => Slow'
    BY <1>0, <2>1 DEF Slow
  <2>3. ~csb /\ wait = 0 /\ csb' /\ ~main_state_init'
    BY <1>5 DEF CsbRises
  <2> QED BY <2>2, <2>3 DEF Rises
<1> QED BY <1>1, <1>2, <1>3, <1>4, <1>5 DEF Host

LEMMA RestStep ==
  ASSUME HostType, HostType', Framing, Rest, ByteThere, Stays \/ Opens \/ Rises
  PROVE  /\ Rest' /\ ByteThere'
         /\ Stays => Sent' = Sent
         /\ Opens => Sent' = 0
         /\ Rises => /\ Sent' = Sent + 1
                     /\ Sent = 0 <=> todo = Bytes(session)
         /\ Sent \in Nat /\ Sent <= Len(Bytes(session))
         /\ Sent = Len(Bytes(session)) <=> todo = <<>>
<1> DEFINE b == Bytes(session)
<1>0. /\ b \in Seq(Byte) /\ Len(b) \in Nat
      /\ todo \in Seq(Byte) /\ Len(todo) \in Nat /\ (todo = <<>> <=> Len(todo) = 0)
      /\ Sent = Len(b) - Len(todo)
      /\ Sent' = Len(Bytes(session')) - Len(todo')
  <2>1. b \in Seq(Byte) /\ todo \in Seq(Byte)
    BY BytesType DEF HostType
  <2> QED BY <2>1, EmptySeq DEF Sent
<1> HIDE DEF b
<1>1. /\ Len(todo) <= Len(b)
      /\ \A i \in 1 .. Len(todo) : todo[i] = b[Sent + i]
      /\ InFlight => Sent >= 1 /\ byte_reg = b[Sent]
  BY DEF Rest, ByteThere, b
<1>2. Sent \in Nat /\ Sent <= Len(b) /\ (Sent = Len(b) <=> todo = <<>>)
  BY <1>0, <1>1
<1>3. CASE Stays
  <2>1. session' = session /\ todo' = todo /\ Sent' = Sent
    BY <1>3 DEF Stays, Sent
  <2>2. Rest'
    BY <2>1 DEF Rest
  <2>3. InFlight' => InFlight /\ byte_reg' = byte_reg
    BY <1>3 DEF Stays, InFlight, Arriving
  <2>4. ByteThere'
    BY <2>1, <2>3 DEF ByteThere
  <2> QED BY <1>2, <1>3, <2>1, <2>2, <2>4 DEF Stays, Opens, Rises, b, InFlight, Framing
<1>4. CASE Opens
  <2>1. todo' = Bytes(session') /\ ~InFlight'
    BY <1>4 DEF Opens
  <2>2. Bytes(session') \in Seq(Byte)
    BY <1>4, BytesType DEF Opens
  <2>3. Sent' = 0 /\ Len(todo') \in Nat
    BY <1>0, <2>1, <2>2
  <2>4. Rest'
    BY <2>1, <2>2, <2>3 DEF Rest
  <2> QED BY <1>2, <1>4, <2>1, <2>3, <2>4 DEF ByteThere, Stays, Opens, Rises, b
<1>5. CASE Rises
  <2>1. session' = session /\ todo # <<>> /\ todo' = Tail(todo) /\ byte_reg' = Head(todo)
    BY <1>5 DEF Rises
  <2>2. /\ Len(todo') = Len(todo) - 1
        /\ \A i \in 1 .. Len(todo') : todo'[i] = todo[i + 1]
        /\ Head(todo) = todo[1]
    BY <1>0, <2>1, HeadTailProperties
  <2>3. Len(todo) >= 1
    BY <1>0, <2>1
  <2>4. Sent' = Sent + 1
    BY <1>0, <2>1, <2>2 DEF b
  <2>5. Bytes(session') = b
    BY <2>1 DEF b
  <2>6. Rest'
    <3>1. Len(todo') <= Len(b)
      BY <1>0, <1>1, <2>2
    <3>2. \A i \in 1 .. Len(todo') : todo'[i] = b[Sent' + i]
      <4> SUFFICES ASSUME NEW i \in 1 .. Len(todo') PROVE todo'[i] = b[Sent' + i]
        OBVIOUS
      <4>1. i + 1 \in 1 .. Len(todo) /\ todo'[i] = todo[i + 1]
        BY <1>0, <2>2
      <4>2. todo[i + 1] = b[Sent + (i + 1)]
        BY <1>1, <4>1
      <4>3. Sent + (i + 1) = Sent' + i
        BY <1>2, <2>4
      <4> QED BY <4>1, <4>2, <4>3
    <3> QED BY <2>5, <3>1, <3>2 DEF Rest
  <2>7. ByteThere'
    <3>1. byte_reg' = b[Sent + 1]
      BY <1>0, <1>1, <2>1, <2>2, <2>3
    <3> QED BY <1>2, <2>4, <2>5, <3>1 DEF ByteThere
  <2>8. Sent = 0 <=> todo = b
    <3>1. todo = b => Sent = 0
      BY <1>0
    <3>2. ASSUME Sent = 0 PROVE todo = b
      <4>1. Len(todo) = Len(b) /\ \A i \in 1 .. Len(todo) : todo[i] = b[i]
        BY <1>0, <1>1, <3>2
      <4> QED BY <1>0, <4>1, SeqEqual
    <3> QED BY <3>1, <3>2
  <2> QED BY <1>2, <1>5, <2>4, <2>6, <2>7, <2>8 DEF Stays, Opens, Rises, b
<1> QED BY <1>3, <1>4, <1>5

----------------------------------------------------------------------------
(* What each state of the main FSM means for the image and the ICCM.        *)

\* The first w words of the image are in the ICCM and nothing else.
Holds(w) == \A a \in Addr : loaded[a] = IF a < w THEN image[a + 1] ELSE Nothing

Settled == image # Nothing => Holds(Len(image))

\* The host is between two sessions, or its next one is allowed.
Quit == /\ todo = <<>> \/ Sent = 0
        /\ Sent = 0 /\ session.cmd \in {B1, B3} => image = Nothing
        /\ Settled

\* The command has been sent and nothing of what it announces.
Begins == /\ Sent = 1
          /\ session.cmd \in {B1, B3} => byte_cnt = 0
          /\ IF session.cmd = B1 THEN image = session.words /\ Holds(0) ELSE Settled
          /\ session.cmd = B3 => config = session.words[1]

\* No half word is left over before the image is loaded.
CountClear == image = Nothing => byte_cnt = 0

\* Bytes after the command that have been shifted in, when pending is 1 if the main
\* FSM is about to shift one.
Taken(pending) == Sent - 1 - (IF InFlight THEN 1 ELSE pending)

Shifted(pending) == /\ Taken(pending) >= 0
                    /\ word_reg = Window(Bytes(session), Taken(pending))

MidleInv ==
  /\ iccm_addr = 0 /\ ~qspi_valid /\ CountClear
  /\ IF InFlight THEN Begins ELSE Quit

CommandInv ==
  /\ iccm_addr = 0 /\ ~qspi_valid /\ CountClear /\ qspi_next_state = "QIDLE"
  /\ Calm3
  /\ \/ session.cmd # 0 /\ byte_reg = session.cmd /\ Begins
     \/ byte_reg = 0 /\ Quit

\* w words are in the ICCM.
Loads(w, pending) ==
  /\ Taken(pending) = 4 * w + byte_cnt
  /\ iccm_addr = w % AddrSpace
  /\ Holds(w)

IccmOpen ==
  /\ session.cmd = B1 /\ image = session.words
  /\ CASE iccm_next_state = "SIDLE" ->
            /\ Shifted(0)
            /\ \E w \in 0 .. Len(image) :
                 /\ Loads(w, 0)
                 /\ byte_cnt = 4 /\ w # Len(image) => Calm
       [] iccm_next_state = "BYTE_WORD" ->
            /\ Shifted(1) /\ Calm3 /\ byte_reg = Bytes(session)[Sent] /\ byte_cnt # 4
            /\ todo # <<>>
            /\ \E w \in 0 .. Len(image) : Loads(w, 1)
       [] iccm_next_state = "U_ADDR" ->
            /\ Shifted(0) /\ ~main_state_init /\ byte_cnt = 0
            /\ iccm_valid /\ waddr = iccm_addr /\ iccm_addr < Len(image)
            /\ iccm_data = image[iccm_addr + 1]
            /\ Taken(0) = 4 * iccm_addr + 4
            /\ Holds(iccm_addr)

IccmClosing == /\ iccm_next_state = "BYTE_WORD" /\ word_reg = Terminator /\ Calm3
               /\ image # Nothing /\ Quit

IccmInv ==
  /\ ~qspi_valid
  /\ iccm_valid /\ iccm_next_state # "U_ADDR" =>
       waddr < Len(image) /\ iccm_data = image[waddr + 1] /\ loaded[waddr] = iccm_data
  /\ IccmOpen \/ IccmClosing

FlashInv ==
  /\ iccm_addr = 0 /\ ~qspi_valid /\ CountClear
  /\ \/ /\ session.cmd = B2 /\ Shifted(0) /\ Settled
        /\ Taken(0) < 4 * Len(session.words) + 4
     \/ word_reg = Terminator /\ Calm3 /\ Quit

ConfigOpen ==
  /\ session.cmd = B3 /\ config = session.words[1] /\ ~qspi_valid /\ Settled
  /\ CASE qspi_next_state = "QIDLE" -> Shifted(0) /\ byte_cnt = Taken(0) /\ byte_cnt < 4
       [] qspi_next_state = "WORD" -> /\ Shifted(1) /\ byte_cnt = Taken(1) /\ byte_cnt < 3
                                      /\ Calm3 /\ byte_reg = Bytes(session)[Sent]
       [] qspi_next_state = "CFG" -> FALSE

ConfigClosing ==
  /\ Quit
  /\ CASE qspi_next_state = "WORD" -> /\ byte_cnt = 3 /\ Shift = config
                                      /\ ~qspi_valid /\ Calm4
       [] qspi_next_state = "QIDLE" -> /\ byte_cnt = 4 /\ word_reg = config
                                       /\ ~qspi_valid /\ Calm3
       [] qspi_next_state = "CFG" -> /\ byte_cnt = 0 /\ qspi_data = config
                                     /\ Calm

ConfigInv == iccm_addr = 0 /\ (ConfigOpen \/ ConfigClosing)

LoadInv == /\ HostInv
           /\ main_next_state = "MIDLE" => MidleInv
           /\ main_next_state = "COMMAND" => CommandInv
           /\ main_next_state = "ICCM" => IccmInv
           /\ main_next_state = "FLASH" => FlashInv
           /\ main_next_state = "QSPI_CONFIG" => ConfigInv

----------------------------------------------------------------------------
(* One edge of the clock.                                                   *)

\* What an edge does, whatever the main FSM does at it.
EdgeTypes == /\ HostType /\ HostType' /\ ShiftType /\ FsmType /\ CsbType /\ LoadedType
             /\ SessionStatus /\ Between /\ CarefulHost /\ Framing

EdgeHost ==
  /\ Stays \/ Opens \/ Rises
  /\ Stays => Sent' = Sent
  /\ Opens => Sent' = 0
  /\ Rises => Sent' = Sent + 1 /\ (Sent = 0 <=> todo = Bytes(session))
  /\ Sent \in Nat /\ Sent <= Len(Bytes(session))
  /\ Sent = Len(Bytes(session)) <=> todo = <<>>
  /\ InFlight => Sent >= 1 /\ byte_reg = Bytes(session)[Sent]
  /\ InFlight => csb /\ byte_reg' = byte_reg

EdgePulses == /\ main_state_init => Calm3' /\ ~Arriving /\ csb
              /\ main_state_init /\ todo = <<>> => Calm4'
              /\ Calm4 => Calm3'
              /\ Calm3 => Calm' /\ ~Rises
              /\ main_state_init' <=> Arriving

EdgeMemory ==
  (iccm_valid /\ ~iccm_prog_done => loaded[waddr] = iccm_data) =>
     /\ ~(Rises /\ Sent = 0 /\ session.cmd = B1) => loaded' = loaded
     /\ Rises /\ Sent = 0 /\ session.cmd = B1 /\ ~iccm_valid =>
          loaded' = [a \in Addr |-> Nothing]

EdgeWrite ==
  iccm_valid /\ ~iccm_prog_done /\ ~(Rises /\ Sent = 0) =>
     loaded' = [loaded EXCEPT ![waddr] = iccm_data]

Edge == EdgeTypes /\ EdgeHost /\ EdgePulses /\ EdgeMemory /\ EdgeWrite

LEMMA EdgeFacts ==
  ASSUME CarefulHost, IInv, HostInv, Clock
  PROVE  Edge /\ HostInv' /\ MainFsm
<1>1. HostType /\ ShiftType /\ FsmType /\ CsbType /\ LoadedType /\ Framing /\ SessionInv
  BY TypeParts DEF IInv
<1>2. Host /\ CsbFsm /\ MainFsm /\ Memory
  BY DEF Clock
<1>3. HostType'
  BY <1>1, <1>2, HostStep
<1>4. EdgeTypes
  BY <1>1, <1>3 DEF EdgeTypes, SessionInv
<1>5. Stays \/ Opens \/ Rises
  BY <1>1, <1>2, HostMoves
<1>6. Rest /\ ByteThere /\ Pacing
  BY DEF HostInv
<1>7. Rest' /\ ByteThere'
  BY <1>1, <1>3, <1>5, <1>6, RestStep
<1>8. EdgeHost
  <2>1. InFlight => csb
    BY <1>1 DEF InFlight, Arriving, Framing
  <2>2. csb => byte_reg' = byte_reg
    BY <1>5 DEF Stays, Opens, Rises
  <2>3. InFlight => Sent >= 1 /\ byte_reg = Bytes(session)[Sent]
    BY <1>6 DEF ByteThere
  <2> QED BY <1>1, <1>3, <1>5, <1>6, <2>1, <2>2, <2>3, RestStep DEF EdgeHost
<1>9. Pacing' /\ EdgePulses
  <2>1. /\ Pacing'
        /\ main_state_init => Calm3'
        /\ main_state_init /\ todo = <<>> => Calm4'
        /\ Calm4 => Calm3'
        /\ Calm3 => Calm'
        /\ Calm3 => ~Rises
    BY <1>1, <1>2, <1>6, PulsesApart
  <2>2. main_state_init => csb /\ ~Arriving
    BY <1>1 DEF Framing, Arriving
  <2>3. main_state_init' <=> Arriving
    BY <1>1, <1>2 DEF CsbFsm, Arriving, CsbType, Framing
  <2> QED BY <2>1, <2>2, <2>3 DEF EdgePulses
<1>11. CommandSent(B1) <=> Rises /\ Sent = 0 /\ session.cmd = B1
  BY <1>5, <1>8 DEF CommandSent, Stays, Opens, Rises, EdgeHost
<1>12. EdgeWrite
  BY <1>2, <1>11 DEF EdgeWrite, Memory
<1>10. EdgeMemory
  <2> SUFFICES ASSUME iccm_valid /\ ~iccm_prog_done => loaded[waddr] = iccm_data
               PROVE  /\ ~(Rises /\ Sent = 0 /\ session.cmd = B1) => loaded' = loaded
                      /\ Rises /\ Sent = 0 /\ session.cmd = B1 /\ ~iccm_valid =>
                           loaded' = [a \in Addr |-> Nothing]
    BY DEF EdgeMemory
  <2>1. CommandSent(B1) <=> Rises /\ Sent = 0 /\ session.cmd = B1
    BY <1>11
  <2>2. CASE ~CommandSent(B1)
    <3>1. loaded' = IF ~iccm_prog_done /\ iccm_valid
                    THEN [loaded EXCEPT ![waddr] = iccm_data] ELSE loaded
      BY <1>2, <2>2 DEF Memory
    <3>2. ~iccm_prog_done /\ iccm_valid => [loaded EXCEPT ![waddr] = iccm_data] = loaded
      BY <1>1 DEF LoadedType, FsmType
    <3> QED BY <2>1, <2>2, <3>1, <3>2
  <2>3. CASE CommandSent(B1)
    <3>1. ~iccm_valid => loaded' = [a \in Addr |-> Nothing]
      BY <1>2, <2>3 DEF Memory
    <3> QED BY <2>1, <2>3, <3>1
  <2> QED BY <2>2, <2>3
<1> QED BY <1>2, <1>4, <1>7, <1>8, <1>9, <1>10, <1>12 DEF Edge, HostInv

\* A host between two sessions stays there, opens the next one, or completes the
\* command of one it may open.
LEMMA QuitStays ==
  ASSUME Edge, Quit, ~Arriving, ~Rises, loaded' = loaded
  PROVE  Quit' /\ Calm' /\ image' = image /\ config' = config
<1>1. CASE Stays
  <2>1. /\ session' = session /\ todo' = todo /\ image' = image /\ config' = config
        /\ Sent' = Sent /\ ~InFlight'
    BY <1>1 DEF Edge, EdgeHost, Stays
  <2> QED BY <2>1 DEF Quit, Settled, Holds, Calm
<1>2. CASE Opens
  <2>1. /\ image' = image /\ config' = config /\ Sent' = 0 /\ ~InFlight'
        /\ session'.cmd \in {B1, B3} => image = Nothing
    BY <1>2 DEF Edge, EdgeHost, Opens
  <2> QED BY <2>1 DEF Quit, Settled, Holds, Calm
<1> QED BY <1>1, <1>2 DEF Edge, EdgeHost

LEMMA QuitEnds ==
  ASSUME Edge, Quit, Calm, ~iccm_valid, image = Nothing => byte_cnt' = 0
  PROVE  (IF InFlight' THEN Begins' ELSE Quit') /\ CountClear'
<1>0. ~(Rises /\ Sent = 0 /\ session.cmd = B1) => loaded' = loaded
  BY DEF Edge, EdgeMemory
<1>1. CASE ~Rises
  <2>1. Quit' /\ Calm' /\ image' = image
    BY <1>0, <1>1, QuitStays DEF Calm, InFlight
  <2> QED BY <2>1 DEF CountClear, Calm
<1>2. CASE Rises
  <2>1. /\ Sent = 0 /\ Sent' = 1 /\ InFlight' /\ session' = session
        /\ todo = Bytes(session)
        /\ image' = IF session.cmd = B1 THEN session.words ELSE image
        /\ config' = IF session.cmd = B3 THEN session.words[1] ELSE config
    BY <1>2 DEF Rises, Quit, Edge, EdgeHost
  <2>2. session.cmd \in {B1, B3} => image = Nothing
    BY <2>1 DEF Quit
  <2>3. session.cmd \in {B1, B3} => byte_cnt' = 0
    BY <2>2
  <2>4. CountClear'
    BY <2>1, <2>3 DEF CountClear
  <2>5. CASE session.cmd = B1
    <3>1. loaded' = [a \in Addr |-> Nothing]
      BY <1>2, <2>1, <2>5 DEF Edge, EdgeMemory
    <3>2. Holds(0)'
      BY <3>1, AddrAssumption DEF Holds, Addr
    <3> QED BY <2>1, <2>3, <2>4, <2>5, <3>2 DEF Begins, B1, B3
  <2>6. CASE session.cmd # B1
    <3>1. loaded' = loaded /\ image' = image
      BY <1>0, <2>1, <2>6
    <3>2. Settled'
      BY <3>1 DEF Quit, Settled, Holds
    <3> QED BY <2>1, <2>3, <2>4, <2>6, <3>2 DEF Begins
  <2> QED BY <2>5, <2>6
<1> QED BY <1>1, <1>2

FsmInv == /\ main_next_state = "MIDLE" => MidleInv
          /\ main_next_state = "COMMAND" => CommandInv
          /\ main_next_state = "ICCM" => IccmInv
          /\ main_next_state = "FLASH" => FlashInv
          /\ main_next_state = "QSPI_CONFIG" => ConfigInv

\* The command is the first byte, and only a session without a command is over
\* with it.
LEMMA CommandByte ==
  ASSUME Edge, Sent = 1
  PROVE  /\ Bytes(session)[Sent] = session.cmd
         /\ session.cmd # 0 => todo # <<>>
         /\ session.cmd = 0 => todo = <<>>
         /\ session.cmd \in {B1, B2, B3, 0}
<1>1. session \in Sessions
  BY DEF Edge, EdgeTypes, HostType
<1>2. session.cmd \in {B1, B2, B3, 0}
  BY <1>1, SessionParts
<1> DEFINE b == Bytes(session)
           L == Len(session.words)
<1>3. /\ L \in Nat /\ b[1] = session.cmd
      /\ session.cmd = B1 => Len(b) = 4 * L + 6
      /\ session.cmd = B2 => Len(b) = 4 * L + 5
      /\ session.cmd = B3 => Len(b) = 5
      /\ session.cmd = 0 => Len(b) = 1
  BY <1>1, BytesValue
<1>4. Sent = Len(b) <=> todo = <<>>
  BY DEF Edge, EdgeHost
<1> HIDE DEF b, L
<1>5. Len(b) = 1 <=> session.cmd = 0
  <2>1. 4 * L + 6 # 1 /\ 4 * L + 5 # 1
    BY <1>3
  <2>2. B1 # 0 /\ B2 # 0 /\ B3 # 0
    BY DEF B1, B2, B3
  <2>3. CASE session.cmd = 0
    BY <1>3, <2>3
  <2>4. CASE session.cmd # 0
    <3>1. session.cmd \in {B1, B2, B3}
      BY <1>2, <2>4
    <3>2. Len(b) # 1
      <4>1. CASE session.cmd = B1
        BY <1>3, <2>1, <4>1
      <4>2. CASE session.cmd = B2
        BY <1>3, <2>1, <4>2
      <4>3. CASE session.cmd = B3
        BY <1>3, <4>3
      <4> QED BY <3>1, <4>1, <4>2, <4>3
    <3> QED BY <2>4, <3>2
  <2> QED BY <2>3, <2>4
<1>6. session.cmd = 0 <=> todo = <<>>
  BY <1>4, <1>5
<1> QED BY <1>2, <1>3, <1>6 DEF b

LEMMA MidleLoads ==
  ASSUME Edge, MidleInv, Midle
  PROVE  FsmInv'
<1>1. /\ main_next_state = "MIDLE" /\ iccm_addr' = 0 /\ ~qspi_valid' /\ byte_cnt' = byte_cnt
      /\ qspi_next_state' = "QIDLE" /\ iccm_valid' = iccm_valid
      /\ main_next_state' = IF main_state_init THEN "COMMAND" ELSE "MIDLE"
  BY DEF Midle, MidleInv, shiftVars, writeVars
<1>2. ~iccm_valid
  BY <1>1 DEF Edge, EdgeTypes, SessionStatus
<1>3. CASE ~InFlight
  <2>1. Calm /\ Quit /\ (image = Nothing => byte_cnt' = 0) /\ ~main_state_init
    BY <1>1, <1>3 DEF MidleInv, Calm, CountClear, InFlight
  <2>2. (IF InFlight' THEN Begins' ELSE Quit') /\ CountClear'
    BY <1>2, <2>1, QuitEnds
  <2> QED BY <1>1, <2>1, <2>2 DEF FsmInv, MidleInv
<1>4. CASE InFlight
  <2>1. Begins /\ Sent = 1 /\ CountClear /\ csb /\ byte_reg' = byte_reg
    BY <1>4 DEF MidleInv, Begins, Edge, EdgeHost
  <2>2. byte_reg = session.cmd
    BY <1>4, <2>1, CommandByte DEF Edge, EdgeHost
  <2>3. loaded' = loaded
    BY <1>2, <2>1 DEF Edge, EdgeMemory, Rises
  <2>4. CASE Stays
    <3>1. /\ session' = session /\ todo' = todo /\ image' = image /\ config' = config
          /\ Sent' = Sent
      BY <2>4 DEF Stays, Edge, EdgeHost
    <3>2. Begins' /\ CountClear'
      BY <1>1, <2>1, <2>3, <3>1 DEF Begins, Holds, Settled, CountClear
    <3>3. CASE main_state_init
      <4>1. Calm3'
        BY <3>3 DEF Edge, EdgePulses
      <4>2. session'.cmd # 0 => CommandInv'
        BY <1>1, <2>1, <2>2, <3>1, <3>2, <4>1 DEF CommandInv
      <4>3. session'.cmd = 0 => Quit'
        <5>1. session.cmd = 0 => todo = <<>> /\ session.cmd # B1
          BY <2>1, CommandByte DEF B1
        <5> QED BY <2>1, <3>1, <3>2, <5>1 DEF Quit, Begins
      <4>4. session'.cmd = 0 => CommandInv'
        BY <1>1, <2>1, <2>2, <3>1, <3>2, <4>1, <4>3 DEF CommandInv
      <4> QED BY <1>1, <3>3, <4>2, <4>4 DEF FsmInv
    <3>4. CASE ~main_state_init
      <4>1. InFlight'
        BY <1>4, <2>4, <3>4 DEF Stays, InFlight
      <4> QED BY <1>1, <3>2, <3>4, <4>1 DEF FsmInv, MidleInv
    <3> QED BY <3>3, <3>4
  <2>5. CASE Opens
    <3>1. /\ todo = <<>> /\ Sent' = 0 /\ image' = image /\ byte_reg' = byte_reg
          /\ session'.cmd \in {B1, B3} => image = Nothing
          /\ main_state_init
      BY <1>4, <2>5 DEF Opens, Edge, EdgeHost, InFlight
    <3>2. session.cmd = 0 /\ session.cmd # B1
      BY <2>1, <3>1, CommandByte DEF B1
    <3>3. Quit' /\ CountClear'
      BY <1>1, <2>1, <2>3, <3>1, <3>2 DEF Begins, Quit, Settled, Holds, CountClear
    <3>4. Calm3'
      BY <3>1 DEF Edge, EdgePulses
    <3> QED BY <1>1, <2>2, <3>1, <3>2, <3>3, <3>4 DEF FsmInv, CommandInv
  <2>6. ~Rises
    BY <2>1 DEF Rises
  <2> QED BY <2>4, <2>5, <2>6 DEF Edge, EdgeHost
<1> QED BY <1>3, <1>4

LEMMA CommandLoads ==
  ASSUME Edge, CommandInv, Command
  PROVE  FsmInv'
<1>1. /\ main_next_state = "COMMAND" /\ iccm_addr' = 0 /\ ~qspi_valid' /\ byte_cnt' = byte_cnt
      /\ qspi_next_state' = "QIDLE" /\ iccm_valid' = iccm_valid
      /\ word_reg' = word_reg /\ iccm_next_state' = iccm_next_state
      /\ CountClear /\ Calm3 /\ Calm /\ ~Rises /\ Calm'
  BY DEF Command, CommandInv, shiftVars, writeVars, qspiVars, Edge, EdgePulses, Calm3
<1>2. ~iccm_valid /\ iccm_next_state = "SIDLE" /\ word_reg = Zero
  BY <1>1 DEF Edge, EdgeTypes, SessionStatus, Between
<1>3. loaded' = loaded
  BY <1>1, <1>2 DEF Edge, EdgeMemory
<1>4. CASE byte_reg = 0 /\ Quit
  <2>1. main_next_state' = "MIDLE"
    BY <1>4 DEF Command, B1, B2, B3
  <2>2. Quit' /\ image' = image
    BY <1>1, <1>3, <1>4, QuitStays DEF Calm, InFlight
  <2> QED BY <1>1, <2>1, <2>2 DEF FsmInv, MidleInv, CountClear, Calm
<1>5. CASE session.cmd # 0 /\ byte_reg = session.cmd /\ Begins
  <2>1. Sent = 1 /\ todo # <<>> /\ session.cmd \in {B1, B2, B3}
    BY <1>5, CommandByte DEF Begins
  <2>2. Stays
    BY <1>1, <2>1 DEF Opens, Edge, EdgeHost
  <2>3. /\ session' = session /\ todo' = todo /\ image' = image /\ config' = config
        /\ Sent' = 1 /\ ~InFlight'
    BY <1>1, <2>1, <2>2 DEF Stays, Edge, EdgeHost, Calm
  <2>4. Taken(0)' = 0
    <3>1. Taken(0)' = Sent' - 1 - (IF InFlight' THEN 1 ELSE 0)
      BY DEF Taken
    <3> QED BY <2>3, <3>1
  <2>5. Shifted(0)'
    BY <1>1, <1>2, <2>4, WindowStarts DEF Shifted
  <2>6. session \in Sessions
    BY DEF Edge, EdgeTypes, HostType
  <2>7. session.words \in Seq(Word) /\ Len(session.words) \in Nat
    BY <2>6, SessionParts
  <2>8. CASE session.cmd = B1
    <3>1. main_next_state' = "ICCM"
      BY <1>5, <2>8 DEF Command, B1, B2, B3
    <3>2. byte_cnt = 0 /\ image = session.words /\ Holds(0)
      BY <1>5, <2>8 DEF Begins, B1
    <3>3. Holds(0)' /\ byte_cnt' = 0
      BY <1>1, <1>3, <2>3, <3>2 DEF Holds
    <3>4. 0 = 0 % AddrSpace
      BY AddrAssumption
    <3>5. Loads(0, 0)'
      BY <1>1, <2>4, <3>3, <3>4 DEF Loads
    <3>6. IccmOpen'
      <4>1. 0 \in 0 .. Len(image')
        BY <2>3, <2>7, <3>2
      <4>2. \E w \in 0 .. Len(image') : Loads(w, 0)' /\ (byte_cnt' = 4 /\ w # Len(image') => Calm')
        BY <1>1, <3>5, <4>1
      <4> QED BY <1>1, <1>2, <2>3, <2>5, <2>8, <3>2, <4>2 DEF IccmOpen
    <3> QED BY <1>1, <1>2, <3>1, <3>6 DEF FsmInv, IccmInv
  <2>9. CASE session.cmd = B2
    <3>1. main_next_state' = "FLASH"
      BY <1>5, <2>9 DEF Command, B1, B2, B3
    <3>2. Settled'
      BY <1>3, <1>5, <2>3, <2>9 DEF Begins, Settled, Holds, B1, B2
    <3>3. 0 < 4 * Len(session.words) + 4
      BY <2>7
    <3>4. CountClear'
      BY <1>1, <2>3 DEF CountClear
    <3> QED BY <1>1, <2>3, <2>4, <2>5, <2>9, <3>1, <3>2, <3>3, <3>4 DEF FsmInv, FlashInv
  <2>10. CASE session.cmd = B3
    <3>1. main_next_state' = "QSPI_CONFIG"
      BY <1>5, <2>10 DEF Command, B1, B2, B3
    <3>2. Settled' /\ byte_cnt = 0 /\ config = session.words[1]
      BY <1>3, <1>5, <2>3, <2>10 DEF Begins, Settled, Holds, B1, B3
    <3>3. ConfigOpen'
      BY <1>1, <2>3, <2>4, <2>5, <2>10, <3>2 DEF ConfigOpen
    <3> QED BY <1>1, <3>1, <3>3 DEF FsmInv, ConfigInv
  <2> QED BY <2>1, <2>8, <2>9, <2>10
<1> QED BY <1>4, <1>5 DEF CommandInv

\* Bytes are taken when main_state_init pulses, not when they arrive.
LEMMA TakenKept ==
  ASSUME Edge, ~main_state_init, Stays \/ Rises
  PROVE  Taken(0)' = Taken(0)
<1>1. Taken(0)' = Sent' - 1 - (IF InFlight' THEN 1 ELSE 0)
  BY DEF Taken
<1>2. Taken(0) = Sent - 1 - (IF InFlight THEN 1 ELSE 0)
  BY DEF Taken
<1>3. CASE Stays
  BY <1>1, <1>2, <1>3 DEF Stays, InFlight, Edge, EdgeHost
<1>4. CASE Rises
  <2>1. ~InFlight /\ InFlight' /\ Sent' = Sent + 1 /\ Sent \in Nat
    BY <1>4 DEF Rises, InFlight, Arriving, Edge, EdgeHost
  <2> QED BY <1>1, <1>2, <2>1
<1> QED BY <1>3, <1>4

LEMMA TakenPulse ==
  ASSUME Edge, main_state_init
  PROVE  /\ ~Rises /\ ~Arriving /\ ~InFlight' /\ Calm3' /\ Sent \in Nat
         /\ Taken(0) = Sent - 2 /\ byte_reg' = byte_reg
         /\ byte_reg = Bytes(session)[Sent]
         /\ todo = <<>> => Calm4'
         /\ todo # <<>> => Stays /\ Taken(1)' = Taken(0) /\ Taken(0)' = Taken(0) + 1
<1>1. /\ InFlight /\ csb /\ ~Arriving /\ Calm3' /\ ~Rises /\ Sent \in Nat
      /\ byte_reg = Bytes(session)[Sent] /\ (todo = <<>> => Calm4') /\ byte_reg' = byte_reg
  BY DEF Edge, EdgePulses, EdgeHost, InFlight, Rises
<1>2. ~InFlight'
  BY <1>1 DEF Calm3, Calm
<1>3. Taken(0) = Sent - 2
  BY <1>1 DEF Taken
<1>4. ASSUME todo # <<>>
      PROVE  Stays /\ Taken(1)' = Taken(0) /\ Taken(0)' = Taken(0) + 1
  <2>1. Stays /\ Sent' = Sent
    BY <1>1, <1>4 DEF Edge, EdgeHost, Opens
  <2>2. Taken(1)' = Sent' - 1 - (IF InFlight' THEN 1 ELSE 1)
    BY DEF Taken
  <2>3. Taken(0)' = Sent' - 1 - (IF InFlight' THEN 1 ELSE 0)
    BY DEF Taken
  <2> QED BY <1>1, <1>2, <1>3, <2>1, <2>2, <2>3
<1> QED BY <1>1, <1>2, <1>3, <1>4

\* The byte that is shifted in is the next one of the session.
LEMMA NextByteShifted ==
  ASSUME Edge, NEW pending \in {0, 1}, Shifted(pending), Taken(pending) = Sent - 2,
         byte_reg = Bytes(session)[Sent]
  PROVE  /\ Taken(pending) + 1 \in Nat
         /\ Shift = Window(Bytes(session), Taken(pending) + 1)
<1>1. Taken(pending) \in Nat /\ Sent = Taken(pending) + 2
  BY DEF Edge, EdgeHost, Shifted
<1>2. word_reg \in Word /\ byte_reg \in Byte
  BY DEF Edge, EdgeTypes, ShiftType, HostType
<1> QED BY <1>1, <1>2, WindowMoves DEF Shifted

LEMMA SessionLength ==
  ASSUME Edge
  PROVE  /\ session \in Sessions
         /\ session.words \in Seq(Word) /\ Len(session.words) \in Nat
         /\ session.cmd = B1 => Len(Bytes(session)) = 4 * Len(session.words) + 6
         /\ session.cmd = B2 => Len(Bytes(session)) = 4 * Len(session.words) + 5
         /\ session.cmd = B3 => Len(Bytes(session)) = 5
<1>1. session \in Sessions
  BY DEF Edge, EdgeTypes, HostType
<1> QED BY <1>1, SessionParts, BytesValue

LEMMA FlashLoads ==
  ASSUME Edge, FlashInv, FlashByte \/ AwaitFlash \/ EndFlash
  PROVE  FsmInv'
<1> DEFINE L == Len(session.words)
           t == Taken(0)
<1>1. /\ main_next_state = "FLASH" /\ iccm_addr' = 0 /\ ~qspi_valid' /\ iccm_valid' = iccm_valid
      /\ byte_cnt' = byte_cnt
  BY DEF FlashByte, AwaitFlash, EndFlash, FlashInv, shiftVars, writeVars, qspiVars
<1>2. ~iccm_valid
  BY <1>1 DEF Edge, EdgeTypes, SessionStatus
<1>3. /\ session \in Sessions /\ L \in Nat
      /\ session.cmd = B2 => Len(Bytes(session)) = 4 * L + 5
  BY SessionLength
<1>4. Sent \in Nat /\ Sent <= Len(Bytes(session)) /\ (Sent = Len(Bytes(session)) <=> todo = <<>>)
  BY DEF Edge, EdgeHost
<1>5. t = Sent - 1 - (IF InFlight THEN 1 ELSE 0)
  BY DEF Taken
<1> HIDE DEF L, t
<1>6. CASE word_reg = Terminator /\ Calm3 /\ Quit
  <2>1. EndFlash
    BY <1>6 DEF FlashByte, AwaitFlash, Calm3, Calm, InFlight
  <2>2. ~Rises /\ Calm' /\ ~Arriving
    BY <1>6 DEF Edge, EdgePulses, Calm3, Calm, InFlight
  <2>3. loaded' = loaded
    BY <1>2, <2>2 DEF Edge, EdgeMemory
  <2>4. Quit' /\ image' = image
    BY <1>6, <2>2, <2>3, QuitStays
  <2>5. CountClear'
    BY <1>1, <2>4 DEF FlashInv, CountClear
  <2>6. main_next_state' = "MIDLE"
    BY <2>1 DEF EndFlash
  <2> QED BY <1>1, <2>2, <2>4, <2>5, <2>6 DEF FsmInv, MidleInv, Calm
<1>7. CASE session.cmd = B2 /\ Shifted(0) /\ Settled /\ t < 4 * L + 4
  <2>1. t \in 0 .. 4 * L + 3 /\ word_reg = Window(Bytes(session), t)
    BY <1>3, <1>4, <1>5, <1>7 DEF Shifted, t
  <2>2. word_reg # Terminator
    <3>1. t \in 0 .. 4 * L + 4 /\ t # 4 * L + 4
      BY <1>3, <2>1
    <3> QED BY <1>3, <1>7, <2>1, <3>1, WindowEnds DEF L, Edge, EdgeTypes, CarefulHost
  <2>3. session.cmd # B1 /\ session.cmd # B3
    BY <1>7 DEF B1, B2, B3
  <2>4. loaded' = loaded
    BY <1>2, <2>3 DEF Edge, EdgeMemory
  <2>5. main_next_state' = "FLASH"
    BY <2>2 DEF FlashByte, AwaitFlash, EndFlash, stateVars
  <2>6. CASE main_state_init
    <3>1. /\ ~Rises /\ ~Arriving /\ ~InFlight' /\ Calm3' /\ t = Sent - 2
          /\ byte_reg = Bytes(session)[Sent] /\ word_reg' = Shift
          /\ todo # <<>> => Stays /\ Taken(0)' = t + 1
      BY <2>6, TakenPulse DEF t, FlashByte, AwaitFlash, EndFlash
    <3>2. t + 1 \in Nat /\ Shift = Window(Bytes(session), t + 1)
      BY <1>7, <3>1, NextByteShifted DEF t
    <3>3. CASE todo # <<>>
      <4>1. /\ session' = session /\ image' = image
            /\ Taken(0)' = t + 1 /\ t + 1 < 4 * L + 4
        BY <1>3, <1>4, <1>7, <3>1, <3>3 DEF Stays
      <4>2. Shifted(0)'
        BY <3>1, <3>2, <4>1 DEF Shifted
      <4>3. Settled' /\ CountClear'
        BY <1>1, <1>7, <2>4, <4>1 DEF Settled, Holds, CountClear, FlashInv
      <4> QED BY <1>1, <1>7, <2>5, <4>1, <4>2, <4>3 DEF FsmInv, FlashInv, L
    <3>4. CASE todo = <<>>
      <4>1. t + 1 = 4 * L + 4
        BY <1>3, <1>4, <1>7, <3>1, <3>4
      <4>2. word_reg' = Terminator
        BY <1>3, <1>7, <3>1, <3>2, <4>1, WindowEnds DEF L, Edge, EdgeTypes, CarefulHost
      <4>3. Quit
        BY <1>3, <1>4, <1>7, <3>4 DEF Quit
      <4>4. Quit' /\ image' = image
        BY <2>4, <3>1, <4>3, QuitStays
      <4>5. CountClear'
        BY <1>1, <4>4 DEF CountClear, FlashInv
      <4> QED BY <1>1, <2>5, <3>1, <4>2, <4>4, <4>5 DEF FsmInv, FlashInv
    <3> QED BY <3>3, <3>4
  <2>7. CASE ~main_state_init
    <3>1. word_reg' = word_reg
      BY <2>2, <2>7 DEF FlashByte, AwaitFlash, EndFlash, shiftVars
    <3>2. ~Opens
      <4>1. SUFFICES ASSUME Opens PROVE FALSE
        OBVIOUS
      <4>2. todo = <<>> /\ ~InFlight
        BY <2>7, <4>1 DEF Opens, InFlight
      <4> QED BY <1>3, <1>4, <1>5, <1>7, <4>2
    <3>3. Taken(0)' = t /\ session' = session /\ image' = image
      BY <2>3, <2>7, <3>2, TakenKept DEF t, Edge, EdgeHost, Stays, Rises
    <3>4. Shifted(0)'
      BY <2>1, <3>1, <3>3 DEF Shifted
    <3>5. Settled' /\ CountClear'
      BY <1>1, <1>7, <2>4, <3>3 DEF Settled, Holds, CountClear, FlashInv
    <3> QED BY <1>1, <1>7, <2>5, <3>3, <3>4, <3>5 DEF FsmInv, FlashInv, L
  <2> QED BY <2>6, <2>7
<1> QED BY <1>6, <1>7 DEF FlashInv, L, t

LEMMA ConfigLoads ==
  ASSUME Edge, ConfigInv, AwaitConfig \/ SendConfig \/ ConfigByte \/ EndConfig
  PROVE  FsmInv'
<1> DEFINE b == Bytes(session)
           t == Taken(0)
           u == Taken(1)
<1>1. /\ main_next_state = "QSPI_CONFIG" /\ iccm_addr = 0 /\ iccm_addr' = 0
      /\ iccm_valid' = iccm_valid
  BY DEF AwaitConfig, SendConfig, ConfigByte, EndConfig, InConfig, ConfigInv, writeVars
<1>2. ~iccm_valid
  BY <1>1 DEF Edge, EdgeTypes, SessionStatus
<1>3. session \in Sessions /\ (session.cmd = B3 => Len(b) = 5)
  BY SessionLength
<1>4. /\ Sent \in Nat /\ Sent <= Len(b) /\ (Sent = Len(b) <=> todo = <<>>)
      /\ Stays \/ Opens \/ Rises
  BY DEF Edge, EdgeHost
<1>5. /\ t = Sent - 1 - (IF InFlight THEN 1 ELSE 0)
      /\ u = Sent - 2
  BY <1>4 DEF Taken
<1>6. Taken(0)' = Sent' - 1 - (IF InFlight' THEN 1 ELSE 0)
  BY DEF Taken
<1>7. byte_cnt \in 0 .. 4
  BY DEF Edge, EdgeTypes, ShiftType
<1> HIDE DEF b, t, u
<1>8. CASE ConfigClosing
  <2>1. Quit /\ Calm /\ ~Arriving
    BY <1>8 DEF ConfigClosing, Calm4, Calm3, Calm, InFlight, AwaitConfig, SendConfig, ConfigByte,
                EndConfig, InConfig
  <2>2. ~Rises => Quit' /\ Calm' /\ image' = image /\ config' = config
    <3>1. ~Rises => loaded' = loaded
      BY <1>2 DEF Edge, EdgeMemory
    <3> QED BY <2>1, <3>1, QuitStays
  <2>3. Calm4 => Calm3
    BY DEF Calm4, Calm3, Calm, Edge, EdgeTypes, HostType
  <2>4. Calm3 => ~Rises
    BY DEF Edge, EdgePulses
  <2>5. CASE qspi_next_state = "WORD"
    <3>1. ConfigByte /\ byte_cnt = 3 /\ Shift = config /\ ~qspi_valid /\ Calm4
      BY <1>8, <2>5 DEF ConfigClosing, AwaitConfig, SendConfig, ConfigByte, EndConfig, InConfig
    <3>2. /\ main_next_state' = "QSPI_CONFIG" /\ qspi_next_state' = "QIDLE" /\ byte_cnt' = 4
          /\ word_reg' = Shift /\ ~qspi_valid'
      BY <1>1, <3>1 DEF ConfigByte, Count, qspiVars
    <3>3. Calm3'
      BY <3>1 DEF Edge, EdgePulses
    <3> QED BY <1>1, <2>2, <2>3, <2>4, <3>1, <3>2, <3>3 DEF FsmInv, ConfigInv, ConfigClosing
  <2>6. CASE qspi_next_state = "QIDLE"
    <3>1. byte_cnt = 4 /\ word_reg = config /\ Calm3 /\ ~main_state_init
      BY <1>8, <2>1, <2>6 DEF ConfigClosing, Calm, InFlight
    <3>2. SendConfig
      BY <2>6, <3>1 DEF AwaitConfig, SendConfig, ConfigByte, EndConfig, InConfig, ConfigDue
    <3>3. /\ main_next_state' = "QSPI_CONFIG" /\ qspi_next_state' = "CFG" /\ byte_cnt' = 0
          /\ qspi_data' = config
      BY <1>1, <3>1, <3>2 DEF SendConfig
    <3> QED BY <1>1, <2>2, <2>4, <3>1, <3>3 DEF FsmInv, ConfigInv, ConfigClosing
  <2>7. CASE qspi_next_state = "CFG"
    <3>1. EndConfig /\ byte_cnt = 0
      BY <1>8, <2>7 DEF ConfigClosing, AwaitConfig, SendConfig, ConfigByte, EndConfig, InConfig
    <3>2. main_next_state' = "MIDLE" /\ ~qspi_valid' /\ byte_cnt' = 0
      BY <3>1 DEF EndConfig
    <3>3. (IF InFlight' THEN Begins' ELSE Quit') /\ CountClear'
      BY <1>2, <2>1, <3>2, QuitEnds
    <3> QED BY <1>1, <3>2, <3>3 DEF FsmInv, MidleInv
  <2> QED BY <2>5, <2>6, <2>7 DEF Edge, EdgeTypes, FsmType
<1>9. CASE ConfigOpen
  <2>1. session.cmd = B3 /\ config = session.words[1] /\ ~qspi_valid /\ Settled /\ Len(b) = 5
    BY <1>3, <1>9 DEF ConfigOpen
  <2>2. loaded' = loaded
    BY <1>2, <2>1 DEF Edge, EdgeMemory, B1, B3
  <2>3. Sent # 0 /\ (Stays \/ Rises) => /\ session' = session /\ image' = image
                                      /\ config' = config
    BY DEF Stays, Rises, Edge, EdgeHost
  <2>4. image' = image => Settled'
    BY <2>1, <2>2 DEF Settled, Holds
  <2>5. CASE qspi_next_state = "QIDLE"
    <3>1. /\ Shifted(0) /\ byte_cnt = t /\ t \in 0 .. 3
      BY <1>7, <1>9, <2>5 DEF ConfigOpen, t
    <3>2. AwaitConfig
      BY <2>5, <3>1 DEF AwaitConfig, SendConfig, ConfigByte, EndConfig, InConfig, ConfigDue
    <3>3. /\ main_next_state' = "QSPI_CONFIG" /\ byte_cnt' = byte_cnt /\ word_reg' = word_reg
          /\ ~qspi_valid'
          /\ qspi_next_state' = IF main_state_init THEN "WORD" ELSE "QIDLE"
      BY <1>1, <2>1, <3>2 DEF AwaitConfig, shiftVars, qspiVars
    <3>4. CASE main_state_init
      <4>1. /\ ~Rises /\ ~Arriving /\ Calm3' /\ t = Sent - 2 /\ byte_reg' = byte_reg
            /\ byte_reg = Bytes(session)[Sent]
            /\ todo = <<>> => Calm4'
            /\ todo # <<>> => Stays /\ Taken(1)' = t
        BY <3>4, TakenPulse DEF t
      <4>2. CASE todo # <<>>
        <5>1. Sent # 0 /\ t < 3
          BY <1>4, <2>1, <3>1, <4>1, <4>2
        <5>2. /\ session' = session /\ image' = image /\ config' = config /\ Sent' = Sent
          BY <2>3, <4>1, <4>2, <5>1 DEF Edge, EdgeHost
        <5>3. Shifted(1)'
          BY <3>1, <3>3, <4>1, <4>2, <5>2 DEF Shifted, t
        <5>4. byte_reg' = Bytes(session')[Sent'] /\ byte_cnt' = Taken(1)' /\ byte_cnt' < 3
          BY <3>1, <3>3, <4>1, <4>2, <5>1, <5>2
        <5> QED BY <1>1, <2>1, <2>4, <3>3, <3>4, <4>1, <5>2, <5>3, <5>4
                DEF FsmInv, ConfigInv, ConfigOpen
      <4>3. CASE todo = <<>>
        <5>1. Sent = 5 /\ t = 3
          BY <1>4, <2>1, <4>1, <4>3
        <5>2. Shift = Window(Bytes(session), 4)
          <6>1. Shift = Window(Bytes(session), Taken(0) + 1)
            BY <3>1, <4>1, NextByteShifted DEF t
          <6>2. Taken(0) + 1 = 4
            BY <5>1 DEF t
          <6> QED BY <6>1, <6>2
        <5>3. Shift = config
          BY <1>3, <2>1, <5>2, WindowIsConfig
        <5>4. Shift' = Shift
          BY <3>3, <4>1 DEF Shift
        <5>5. Quit
          BY <2>1, <4>3, <5>1 DEF Quit
        <5>6. Quit' /\ config' = config
          BY <2>2, <4>1, <5>5, QuitStays
        <5>7. byte_cnt' = 3
          BY <3>1, <3>3, <5>1
        <5> QED BY <1>1, <3>3, <3>4, <4>1, <4>3, <5>3, <5>4, <5>6, <5>7
                DEF FsmInv, ConfigInv, ConfigClosing
      <4> QED BY <4>2, <4>3
    <3>5. CASE ~main_state_init
      <4>1. ~Opens
        <5>1. SUFFICES ASSUME Opens PROVE FALSE
          OBVIOUS
        <5>2. ~InFlight /\ Sent = 5
          BY <1>4, <2>1, <3>5, <5>1 DEF Opens, InFlight
        <5> QED BY <1>5, <3>1, <5>2
      <4>2. Sent # 0
        BY <1>4, <1>5, <3>1
      <4>3. /\ session' = session /\ image' = image /\ config' = config /\ Taken(0)' = t
        BY <1>4, <2>3, <3>5, <4>1, <4>2, TakenKept DEF t
      <4>4. Shifted(0)'
        BY <3>1, <3>3, <4>3 DEF Shifted, t
      <4>5. byte_cnt' = Taken(0)' /\ byte_cnt' < 4
        BY <3>1, <3>3, <4>3
      <4> QED BY <1>1, <2>1, <2>4, <3>3, <3>5, <4>3, <4>4, <4>5
              DEF FsmInv, ConfigInv, ConfigOpen
    <3> QED BY <3>4, <3>5
  <2>6. CASE qspi_next_state = "WORD"
    <3>1. /\ Shifted(1) /\ byte_cnt = u /\ byte_cnt < 3 /\ Calm3
          /\ byte_reg = Bytes(session)[Sent] /\ Taken(1) = Sent - 2
      BY <1>5, <1>9, <2>6 DEF ConfigOpen, u
    <3>2. /\ main_next_state' = "QSPI_CONFIG" /\ byte_cnt' = Count /\ word_reg' = Shift
          /\ ~qspi_valid' /\ qspi_next_state' = "QIDLE"
      BY <1>1, <2>1, <2>6 DEF AwaitConfig, SendConfig, ConfigByte, EndConfig, InConfig, qspiVars
    <3>3. Calm' /\ ~Rises
      BY <3>1 DEF Edge, EdgePulses
    <3>4. Stays
      BY <1>4, <1>5, <2>1, <3>1, <3>3 DEF Opens
    <3>5. Sent # 0
      BY <1>4, <1>5, <1>7, <3>1
    <3>6. /\ session' = session /\ image' = image /\ config' = config /\ Sent' = Sent
      BY <2>3, <3>4, <3>5 DEF Edge, EdgeHost
    <3>7. Taken(1) + 1 \in Nat /\ Shift = Window(Bytes(session), Taken(1) + 1)
      BY <3>1, NextByteShifted
    <3>8. Taken(0)' = Taken(1) + 1
      BY <1>4, <1>6, <3>1, <3>3, <3>6 DEF Calm
    <3>9. Shifted(0)'
      BY <3>2, <3>6, <3>7, <3>8 DEF Shifted
    <3>10. byte_cnt' = Taken(0)' /\ byte_cnt' < 4
      BY <1>7, <3>1, <3>2, <3>8 DEF Count, u
    <3> QED BY <1>1, <2>1, <2>4, <3>2, <3>6, <3>9, <3>10 DEF FsmInv, ConfigInv, ConfigOpen
  <2>7. qspi_next_state # "CFG"
    BY <1>9 DEF ConfigOpen
  <2> QED BY <2>5, <2>6, <2>7 DEF Edge, EdgeTypes, FsmType
<1> QED BY <1>8, <1>9 DEF ConfigInv

\* What holds in a load session until its last byte, which only ends it.
LEMMA OpenFacts ==
  ASSUME Edge, IccmInv, IccmOpen, main_next_state = "ICCM"
  PROVE  LET L == Len(image)
         IN  /\ image = session.words /\ session.cmd = B1 /\ session \in Sessions
             /\ L \in Nat /\ L <= AddrSpace /\ image # Nothing
             /\ Sent \in Nat /\ Sent >= 1 /\ Sent <= 4 * L + 6
             /\ Sent = 4 * L + 6 <=> todo = <<>>
             /\ Stays \/ Rises => session' = session /\ image' = image
             /\ iccm_next_state # "U_ADDR" => loaded' = loaded
<1> DEFINE L == Len(image)
           b == Bytes(session)
<1>1. image = session.words /\ session.cmd = B1
  BY DEF IccmOpen
<1>2. /\ session \in Sessions /\ image \in Seq(Word) /\ L \in Nat /\ Len(b) = 4 * L + 6
  BY <1>1, SessionLength
<1>3. L <= AddrSpace /\ image # Nothing
  <2>1. image \in Images
    BY <1>1, <1>2 DEF Sessions, NoCommand, B1
  <2> QED BY <1>2, <2>1, NothingAssumption DEF Edge, EdgeTypes, CarefulHost, Loadable, Word
<1>4. Sent \in Nat /\ Sent <= Len(b) /\ (Sent = Len(b) <=> todo = <<>>)
  BY DEF Edge, EdgeHost
<1> HIDE DEF L, b
<1>5. Sent >= 1
  <2>1. CASE Shifted(0)
    BY <1>4, <2>1 DEF Shifted, Taken
  <2>2. CASE Shifted(1)
    BY <1>4, <2>2 DEF Shifted, Taken
  <2> QED BY <2>1, <2>2 DEF IccmOpen, Edge, EdgeTypes, FsmType
<1>6. Stays \/ Rises => session' = session /\ image' = image
  BY <1>4, <1>5 DEF Stays, Rises, Edge, EdgeHost
<1>7. iccm_next_state # "U_ADDR" => loaded' = loaded
  BY <1>4, <1>5 DEF IccmInv, Edge, EdgeMemory
<1> QED BY <1>1, <1>2, <1>3, <1>4, <1>5, <1>6, <1>7 DEF L, b

\* Outside UPDATE_ADDR the last write is already in the ICCM, and stays there.
LEMMA WrittenStays ==
  ASSUME IccmInv, iccm_next_state # "U_ADDR", loaded' = loaded, image' = image,
         UNCHANGED <<iccm_valid, waddr, iccm_data>>
  PROVE  iccm_valid' => /\ waddr' < Len(image') /\ iccm_data' = image'[waddr' + 1]
                        /\ loaded'[waddr'] = iccm_data'
BY DEF IccmInv

LEMMA IccmReceives ==
  ASSUME Edge, IccmInv, ByteReceived
  PROVE  FsmInv'
<1> DEFINE L == Len(image)
           t == Taken(0)
<1>1. /\ main_next_state = "ICCM" /\ iccm_next_state = "SIDLE" /\ main_state_init
      /\ main_next_state' = "ICCM" /\ iccm_next_state' = "BYTE_WORD" /\ ~qspi_valid'
      /\ UNCHANGED <<byte_cnt, word_reg, iccm_addr, iccm_valid, waddr, iccm_data>>
  BY DEF ByteReceived, InIccm, IccmInv, shiftVars, writeVars, qspiVars
<1>2. IccmOpen
  BY <1>1 DEF IccmInv, IccmClosing
<1>3. /\ image = session.words /\ session.cmd = B1 /\ session \in Sessions
      /\ L \in Nat /\ L <= AddrSpace /\ image # Nothing
      /\ Sent \in Nat /\ (Sent = 4 * L + 6 <=> todo = <<>>)
      /\ Stays \/ Rises => session' = session /\ image' = image
      /\ loaded' = loaded
  BY <1>1, <1>2, OpenFacts
<1>4. /\ ~Rises /\ ~Arriving /\ Calm3' /\ t = Sent - 2 /\ byte_reg' = byte_reg
      /\ byte_reg = Bytes(session)[Sent]
      /\ todo # <<>> => Stays /\ Taken(1)' = t
  BY <1>1, TakenPulse DEF t
<1>5. PICK w \in 0 .. L : Loads(w, 0) /\ (byte_cnt = 4 /\ w # L => Calm)
  BY <1>1, <1>2 DEF IccmOpen
<1>6. /\ t = 4 * w + byte_cnt /\ iccm_addr = w % AddrSpace /\ Holds(w)
      /\ Shifted(0) /\ ~Calm
  BY <1>1, <1>2, <1>5 DEF Loads, t, IccmOpen, Calm, InFlight
<1>7. byte_cnt \in 0 .. 4
  BY DEF Edge, EdgeTypes, ShiftType
<1> HIDE DEF L, t
<1>8. CASE todo = <<>>
  <2>1. t = 4 * L + 4 /\ w = L
    BY <1>3, <1>4, <1>5, <1>6, <1>7, <1>8
  <2>2. word_reg = Terminator
    <3>1. t \in 0 .. 4 * Len(session.words) + 4
      BY <1>3, <2>1 DEF L
    <3>2. Window(Bytes(session), t) = Terminator
      BY <1>3, <2>1, <3>1, WindowEnds DEF L, Edge, EdgeTypes, CarefulHost
    <3> QED BY <1>6, <3>2 DEF Shifted, t
  <2>3. Quit
    <3>1. Sent # 0
      BY <1>3, <1>8
    <3> QED BY <1>6, <1>8, <2>1, <3>1 DEF Quit, Settled, L
  <2>4. Quit' /\ image' = image
    BY <1>3, <1>4, <2>3, QuitStays
  <2>5. IccmClosing'
    BY <1>1, <1>3, <1>4, <2>2, <2>4 DEF IccmClosing
  <2> QED BY <1>1, <1>3, <2>4, <2>5, WrittenStays DEF FsmInv, IccmInv
<1>9. CASE todo # <<>>
  <2>1. session' = session /\ image' = image /\ todo' = todo /\ Sent' = Sent /\ Taken(1)' = t
    BY <1>3, <1>4, <1>9 DEF Stays, Edge, EdgeHost
  <2>2. byte_cnt # 4
    <3>1. SUFFICES ASSUME byte_cnt = 4 PROVE FALSE
      OBVIOUS
    <3>2. Sent = 4 * L + 6
      BY <1>3, <1>4, <1>5, <1>6, <3>1
    <3> QED BY <1>3, <1>9, <3>2
  <2>3. Shifted(1)'
    BY <1>1, <1>6, <2>1 DEF Shifted, t
  <2>4. Loads(w, 1)'
    BY <1>1, <1>3, <1>6, <2>1 DEF Loads, Holds
  <2>5. w \in 0 .. Len(image')
    BY <2>1 DEF L
  <2>6. IccmOpen'
    <3>1. session'.cmd = B1 /\ image' = session'.words
      BY <1>3, <2>1
    <3>2. byte_reg' = Bytes(session')[Sent'] /\ todo' # <<>> /\ byte_cnt' # 4
      BY <1>1, <1>4, <1>9, <2>1, <2>2
    <3> QED BY <1>1, <1>4, <2>3, <2>4, <2>5, <3>1, <3>2 DEF IccmOpen
  <2> QED BY <1>1, <1>3, <2>1, <2>6, WrittenStays DEF FsmInv, IccmInv
<1> QED BY <1>8, <1>9

LEMMA IccmWrites ==
  ASSUME Edge, IccmInv, WriteWord
  PROVE  FsmInv'
<1> DEFINE L == Len(image)
           t == Taken(0)
<1>1. /\ main_next_state = "ICCM" /\ iccm_next_state = "SIDLE" /\ ~main_state_init
      /\ byte_cnt = 4 /\ word_reg # Terminator
      /\ main_next_state' = "ICCM" /\ iccm_next_state' = "U_ADDR" /\ ~qspi_valid'
      /\ byte_cnt' = 0 /\ word_reg' = word_reg /\ iccm_addr' = iccm_addr
      /\ waddr' = iccm_addr /\ iccm_data' = word_reg /\ iccm_valid'
  BY DEF WriteWord, WordDue, InIccm, IccmInv, qspiVars
<1>2. IccmOpen
  BY <1>1 DEF IccmInv, IccmClosing
<1>3. /\ image = session.words /\ session.cmd = B1 /\ session \in Sessions
      /\ L \in Nat /\ L <= AddrSpace
      /\ Sent \in Nat /\ (Sent = 4 * L + 6 <=> todo = <<>>)
      /\ Stays \/ Rises => session' = session /\ image' = image
      /\ loaded' = loaded
  BY <1>1, <1>2, OpenFacts
<1>4. PICK w \in 0 .. L : Loads(w, 0) /\ (byte_cnt = 4 /\ w # L => Calm)
  BY <1>1, <1>2 DEF IccmOpen
<1>5. t = 4 * w + 4 /\ iccm_addr = w % AddrSpace /\ Holds(w) /\ Shifted(0)
  BY <1>1, <1>2, <1>4 DEF Loads, t, IccmOpen
<1>6. t = Sent - 1 - (IF InFlight THEN 1 ELSE 0)
  BY DEF Taken
<1> HIDE DEF L, t
<1>7. w # L
  <2>1. SUFFICES ASSUME w = L PROVE FALSE
    OBVIOUS
  <2>2. t \in 0 .. 4 * Len(session.words) + 4 /\ t = 4 * Len(session.words) + 4
    BY <1>3, <1>5, <2>1 DEF L
  <2>3. Window(Bytes(session), t) = Terminator
    BY <1>3, <2>2, WindowEnds DEF Edge, EdgeTypes, CarefulHost
  <2> QED BY <1>1, <1>5, <2>3 DEF Shifted, t
<1>8. w \in 0 .. L - 1 /\ iccm_addr = w
  <2>1. w \in 0 .. L - 1 /\ w < AddrSpace
    BY <1>3, <1>4, <1>7, AddrAssumption
  <2> QED BY <1>5, <2>1, AddrAssumption
<1>9. word_reg = image[iccm_addr + 1]
  <2>1. w \in 0 .. Len(session.words) - 1
    BY <1>3, <1>8 DEF L
  <2>2. Window(Bytes(session), 4 * w + 4) = session.words[w + 1]
    BY <1>3, <2>1, WindowIsWord
  <2>3. word_reg = Window(Bytes(session), t)
    BY <1>5 DEF Shifted, t
  <2> QED BY <1>3, <1>5, <1>8, <2>2, <2>3
<1>10. Calm /\ ~InFlight
  BY <1>1, <1>4, <1>7 DEF Calm, L
<1>11. ~Opens
  <2>1. SUFFICES ASSUME Opens PROVE FALSE
    OBVIOUS
  <2>2. Sent = 4 * L + 6
    BY <1>3, <2>1 DEF Opens
  <2> QED BY <1>3, <1>5, <1>6, <1>8, <1>10, <2>2
<1>12. session' = session /\ image' = image /\ Taken(0)' = t
  BY <1>1, <1>3, <1>11, TakenKept DEF t, Edge, EdgeHost
<1>13. Shifted(0)'
  BY <1>1, <1>5, <1>12 DEF Shifted, t
<1>14. ~main_state_init'
  BY <1>10 DEF Edge, EdgePulses, InFlight
<1>15. Holds(iccm_addr)'
  BY <1>1, <1>3, <1>5, <1>8, <1>12 DEF Holds
<1>16. IccmOpen'
  <2>1. session'.cmd = B1 /\ image' = session'.words
    BY <1>3, <1>12
  <2>2. iccm_addr' < Len(image') /\ iccm_data' = image'[iccm_addr' + 1]
    BY <1>1, <1>3, <1>8, <1>9, <1>12 DEF L
  <2>3. Taken(0)' = 4 * iccm_addr' + 4
    BY <1>1, <1>5, <1>8, <1>12
  <2>4. waddr' = iccm_addr'
    BY <1>1
  <2> QED BY <1>1, <1>13, <1>14, <1>15, <2>1, <2>2, <2>3, <2>4 DEF IccmOpen
<1> QED BY <1>1, <1>16 DEF FsmInv, IccmInv

LEMMA IccmAwaits ==
  ASSUME Edge, IccmInv, AwaitByte
  PROVE  FsmInv'
<1> DEFINE L == Len(image)
           t == Taken(0)
<1>1. /\ main_next_state = "ICCM" /\ iccm_next_state = "SIDLE" /\ ~main_state_init
      /\ byte_cnt = 4 => word_reg = Terminator
      /\ main_next_state' = "ICCM" /\ iccm_next_state' = "SIDLE" /\ ~qspi_valid'
      /\ byte_cnt' = byte_cnt /\ word_reg' = word_reg /\ iccm_addr' = iccm_addr
      /\ ~iccm_valid'
  BY DEF AwaitByte, WordDue, InIccm, IccmInv, stateVars, shiftVars, qspiVars
<1>2. IccmOpen
  BY <1>1 DEF IccmInv, IccmClosing
<1>3. /\ image = session.words /\ session.cmd = B1 /\ session \in Sessions
      /\ L \in Nat /\ Sent \in Nat /\ (Sent = 4 * L + 6 <=> todo = <<>>)
      /\ Stays \/ Rises => session' = session /\ image' = image
      /\ loaded' = loaded
  BY <1>1, <1>2, OpenFacts
<1>4. PICK w \in 0 .. L : Loads(w, 0)
  BY <1>1, <1>2 DEF IccmOpen
<1>5. t = 4 * w + byte_cnt /\ iccm_addr = w % AddrSpace /\ Holds(w) /\ Shifted(0)
  BY <1>1, <1>2, <1>4 DEF Loads, t, IccmOpen
<1>6. /\ t = Sent - 1 - (IF InFlight THEN 1 ELSE 0)
      /\ byte_cnt \in 0 .. 4
  BY DEF Taken, Edge, EdgeTypes, ShiftType
<1> HIDE DEF L, t
<1>7. byte_cnt = 4 => w = L
  <2>1. SUFFICES ASSUME byte_cnt = 4 PROVE w = L
    OBVIOUS
  <2>2. t \in 0 .. 4 * L + 4
    BY <1>3, <1>4, <1>5, <2>1
  <2>3. Window(Bytes(session), t) = Terminator
    BY <1>1, <1>5, <2>1 DEF Shifted, t
  <2>4. t = 4 * L + 4
    BY <1>3, <2>2, <2>3, WindowEnds DEF L, Edge, EdgeTypes, CarefulHost
  <2> QED BY <1>3, <1>4, <1>5, <2>1, <2>4
<1>8. ~Opens
  <2>1. SUFFICES ASSUME Opens PROVE FALSE
    OBVIOUS
  <2>2. Sent = 4 * L + 6 /\ ~InFlight
    BY <1>1, <1>3, <2>1 DEF Opens, InFlight
  <2> QED BY <1>3, <1>4, <1>5, <1>6, <2>2
<1>9. session' = session /\ image' = image /\ Taken(0)' = t
  BY <1>1, <1>3, <1>8, TakenKept DEF t, Edge, EdgeHost
<1>10. Shifted(0)'
  BY <1>1, <1>5, <1>9 DEF Shifted, t
<1>11. Loads(w, 0)'
  BY <1>1, <1>3, <1>5, <1>9 DEF Loads, Holds
<1>12. w \in 0 .. Len(image') /\ (byte_cnt' = 4 /\ w # Len(image') => Calm')
  BY <1>1, <1>7, <1>9 DEF L
<1>13. IccmOpen'
  <2>1. session'.cmd = B1 /\ image' = session'.words
    BY <1>3, <1>9
  <2> QED BY <1>1, <1>10, <1>11, <1>12, <2>1 DEF IccmOpen
<1> QED BY <1>1, <1>13 DEF FsmInv, IccmInv

LEMMA IccmShifts ==
  ASSUME Edge, IccmInv, ShiftByte
  PROVE  FsmInv'
<1> DEFINE L == Len(image)
           u == Taken(1)
<1>1. /\ main_next_state = "ICCM" /\ iccm_next_state = "BYTE_WORD" /\ word_reg # Terminator
      /\ main_next_state' = "ICCM" /\ iccm_next_state' = "SIDLE" /\ ~qspi_valid'
      /\ byte_cnt' = Count /\ word_reg' = Shift /\ iccm_addr' = iccm_addr
      /\ UNCHANGED <<iccm_valid, waddr, iccm_data>>
  BY DEF ShiftByte, InIccm, IccmInv, writeVars, qspiVars
<1>2. IccmOpen
  BY <1>1 DEF IccmInv, IccmClosing
<1>3. /\ image = session.words /\ session.cmd = B1
      /\ L \in Nat /\ Sent \in Nat
      /\ Stays \/ Rises => session' = session /\ image' = image
      /\ loaded' = loaded
  BY <1>1, <1>2, OpenFacts
<1>4. /\ Shifted(1) /\ Calm3 /\ byte_reg = Bytes(session)[Sent] /\ byte_cnt # 4
      /\ todo # <<>>
  BY <1>1, <1>2 DEF IccmOpen
<1>5. PICK w \in 0 .. L : Loads(w, 1)
  BY <1>1, <1>2 DEF IccmOpen
<1>6. u = 4 * w + byte_cnt /\ iccm_addr = w % AddrSpace /\ Holds(w)
  BY <1>5 DEF Loads, u
<1>7. byte_cnt \in 0 .. 4 /\ Taken(1) = Sent - 2
  BY <1>3 DEF Edge, EdgeTypes, ShiftType, Taken
<1> HIDE DEF L, u
<1>8. Stays /\ Calm'
  BY <1>4 DEF Edge, EdgePulses, EdgeHost, Opens
<1>9. session' = session /\ image' = image /\ Sent' = Sent /\ ~InFlight'
  BY <1>3, <1>8 DEF Edge, EdgeHost, Calm
<1>10. Taken(1) + 1 \in Nat /\ Shift = Window(Bytes(session), Taken(1) + 1)
  BY <1>4, <1>7, NextByteShifted
<1>11. Taken(0)' = Taken(1) + 1
  <2>1. Taken(0)' = Sent' - 1 - (IF InFlight' THEN 1 ELSE 0)
    BY DEF Taken
  <2> QED BY <1>3, <1>7, <1>9, <2>1
<1>12. Shifted(0)'
  BY <1>1, <1>9, <1>10, <1>11 DEF Shifted
<1>13. byte_cnt' = byte_cnt + 1
  BY <1>1, <1>4 DEF Count
<1>14. Loads(w, 0)'
  <2>1. Taken(0)' = 4 * w + byte_cnt'
    BY <1>3, <1>5, <1>6, <1>7, <1>11, <1>13 DEF u
  <2>2. Holds(w)'
    BY <1>3, <1>6, <1>9 DEF Holds
  <2> QED BY <1>1, <1>6, <2>1, <2>2 DEF Loads
<1>15. IccmOpen'
  <2>1. session'.cmd = B1 /\ image' = session'.words /\ w \in 0 .. Len(image')
    BY <1>3, <1>9 DEF L
  <2> QED BY <1>1, <1>8, <1>12, <1>14, <2>1 DEF IccmOpen
<1> QED BY <1>1, <1>3, <1>9, <1>15, WrittenStays DEF FsmInv, IccmInv

LEMMA IccmEnds ==
  ASSUME Edge, IccmInv, EndIccm
  PROVE  FsmInv'
<1> DEFINE L == Len(image)
           u == Taken(1)
<1>1. /\ main_next_state = "ICCM" /\ iccm_next_state = "BYTE_WORD" /\ word_reg = Terminator
      /\ main_next_state' = "MIDLE" /\ ~qspi_valid' /\ iccm_addr' = 0
  BY DEF EndIccm, InIccm, IccmInv, qspiVars
<1>2. ~IccmOpen
  <2>1. SUFFICES ASSUME IccmOpen PROVE FALSE
    OBVIOUS
  <2>2. /\ image = session.words /\ session.cmd = B1 /\ session \in Sessions /\ L \in Nat
    BY <1>1, <2>1, OpenFacts
  <2>3. PICK w \in 0 .. L : Loads(w, 1)
    BY <1>1, <2>1 DEF IccmOpen
  <2>4. u = 4 * w + byte_cnt /\ byte_cnt \in 0 .. 3 /\ Shifted(1)
    BY <1>1, <2>1, <2>3 DEF IccmOpen, Loads, u, Edge, EdgeTypes, ShiftType
  <2> HIDE DEF L, u
  <2>5. u \in 0 .. 4 * L + 4 /\ u # 4 * L + 4
    BY <2>2, <2>3, <2>4
  <2>6. Window(Bytes(session), u) # Terminator
    BY <2>2, <2>5, WindowEnds DEF L, Edge, EdgeTypes, CarefulHost
  <2> QED BY <1>1, <2>4, <2>6 DEF Shifted, u
<1>3. IccmClosing
  BY <1>2 DEF IccmInv
<1>4. ~Rises /\ Calm' /\ ~Arriving
  BY <1>3 DEF IccmClosing, Edge, EdgePulses, Calm3, Calm, InFlight
<1>5. loaded' = loaded
  BY <1>1, <1>4 DEF IccmInv, Edge, EdgeMemory
<1>6. Quit' /\ image' = image
  BY <1>3, <1>4, <1>5, QuitStays DEF IccmClosing
<1>7. CountClear'
  BY <1>3, <1>6 DEF IccmClosing, CountClear
<1> QED BY <1>1, <1>4, <1>6, <1>7 DEF FsmInv, MidleInv, Calm

LEMMA IccmUpdates ==
  ASSUME Edge, IccmInv, UpdateAddr
  PROVE  FsmInv'
<1> DEFINE L == Len(image)
           t == Taken(0)
<1>0. iccm_addr \in Nat
  BY AddrAssumption DEF Edge, EdgeTypes, FsmType, Addr
<1>n. PICK w \in Nat : w = iccm_addr + 1
  BY <1>0
<1>1. /\ main_next_state = "ICCM" /\ iccm_next_state = "U_ADDR"
      /\ main_next_state' = "ICCM" /\ iccm_next_state' = "SIDLE" /\ ~qspi_valid'
      /\ byte_cnt' = byte_cnt /\ word_reg' = word_reg /\ iccm_addr' = w % AddrSpace
      /\ UNCHANGED <<iccm_valid, waddr, iccm_data>>
  BY <1>n DEF UpdateAddr, NextAddr, InIccm, IccmInv, shiftVars, qspiVars
<1>2. IccmOpen
  BY <1>1 DEF IccmInv, IccmClosing
<1>3. /\ image = session.words /\ session.cmd = B1
      /\ L \in Nat /\ Sent \in Nat /\ Sent >= 1 /\ (Sent = 4 * L + 6 <=> todo = <<>>)
      /\ Stays \/ Rises => session' = session /\ image' = image
  BY <1>1, <1>2, OpenFacts
<1>4. /\ Shifted(0) /\ ~main_state_init /\ byte_cnt = 0
      /\ iccm_valid /\ waddr = iccm_addr /\ iccm_addr < L
      /\ iccm_data = image[iccm_addr + 1]
      /\ t = 4 * iccm_addr + 4 /\ Holds(iccm_addr)
  BY <1>1, <1>2 DEF IccmOpen
<1>5. iccm_addr \in Addr /\ iccm_addr \in Nat /\ w = iccm_addr + 1 /\ ~iccm_prog_done
  BY <1>0, <1>1, <1>n DEF Edge, EdgeTypes, FsmType, SessionStatus
<1>6. t = Sent - 1 - (IF InFlight THEN 1 ELSE 0)
  BY DEF Taken
<1> HIDE DEF L, t
<1>7. ~Opens
  <2>1. SUFFICES ASSUME Opens PROVE FALSE
    OBVIOUS
  <2>2. Sent = 4 * L + 6 /\ ~InFlight
    BY <1>3, <1>4, <2>1 DEF Opens, InFlight
  <2> QED BY <1>3, <1>4, <1>5, <1>6, <2>2
<1>8. session' = session /\ image' = image /\ Taken(0)' = t
  BY <1>3, <1>4, <1>7, TakenKept DEF t, Edge, EdgeHost
<1>9. loaded' = [loaded EXCEPT ![iccm_addr] = image[iccm_addr + 1]]
  BY <1>3, <1>4, <1>5 DEF Edge, EdgeWrite
<1>10. Holds(w)'
  <2>1. SUFFICES ASSUME NEW a \in Addr
                 PROVE  loaded'[a] = IF a < w THEN image'[a + 1] ELSE Nothing
    BY DEF Holds
  <2>2. loaded[a] = IF a < iccm_addr THEN image[a + 1] ELSE Nothing
    BY <1>4 DEF Holds
  <2>3. loaded'[a] = IF a = iccm_addr THEN image[iccm_addr + 1] ELSE loaded[a]
    BY <1>9 DEF Edge, EdgeTypes, LoadedType
  <2>4. a < w <=> a < iccm_addr \/ a = iccm_addr
    BY <1>5, AddrAssumption DEF Addr
  <2>5. ~(iccm_addr < iccm_addr)
    BY <1>5
  <2> QED BY <1>8, <2>2, <2>3, <2>4, <2>5
<1>11. Shifted(0)'
  BY <1>1, <1>4, <1>8 DEF Shifted, t
<1>12. Loads(w, 0)'
  <2>1. Taken(0)' = 4 * w + byte_cnt'
    BY <1>1, <1>4, <1>5, <1>8
  <2> QED BY <1>1, <1>10, <2>1 DEF Loads
<1>13. IccmOpen'
  <2>1. session'.cmd = B1 /\ image' = session'.words /\ w \in 0 .. Len(image')
    BY <1>3, <1>4, <1>5, <1>8 DEF L
  <2>2. byte_cnt' # 4
    BY <1>1, <1>4
  <2> QED BY <1>1, <1>11, <1>12, <2>1, <2>2 DEF IccmOpen
<1>14. iccm_valid' => /\ waddr' < Len(image') /\ iccm_data' = image'[waddr' + 1]
                      /\ loaded'[waddr'] = iccm_data'
  BY <1>1, <1>4, <1>5, <1>8, <1>9 DEF L, Edge, EdgeTypes, LoadedType
<1> QED BY <1>1, <1>13, <1>14 DEF FsmInv, IccmInv

LEMMA LoadInvInit == Init => LoadInv
<1> SUFFICES ASSUME Init PROVE LoadInv
  OBVIOUS
<1> USE DEF Init
<1>1. ~InFlight /\ Len(todo) = 0 /\ session.cmd = 0 /\ ~Arriving
  BY DEF InFlight, Arriving, NoCommand
<1>2. session \in Sessions
  BY DEF Sessions
<1>3. Len(Bytes(session)) = 1
  BY <1>1, <1>2, BytesValue
<1>4. HostInv
  BY <1>1, <1>3 DEF HostInv, Rest, ByteThere, Pacing
<1>5. Quit
  BY <1>1 DEF Quit, Settled, B1, B3
<1>6. MidleInv
  BY <1>1, <1>5 DEF MidleInv, CountClear
<1> QED BY <1>4, <1>6 DEF LoadInv

LEMMA LoadInvReset ==
  ASSUME PowerOnReset
  PROVE  LoadInv'
<1> USE DEF PowerOnReset
<1>1. ~InFlight' /\ Len(todo') = 0 /\ session'.cmd = 0 /\ ~Arriving'
  BY DEF InFlight, Arriving, NoCommand
<1>2. session' \in Sessions
  BY DEF Sessions
<1>3. Len(Bytes(session')) = 1
  BY <1>1, <1>2, BytesValue
<1>4. HostInv'
  BY <1>1, <1>3 DEF HostInv, Rest, ByteThere, Pacing
<1>5. Quit'
  BY <1>1 DEF Quit, Settled, B1, B3
<1>6. MidleInv'
  BY <1>1, <1>5 DEF MidleInv, CountClear
<1> QED BY <1>4, <1>6 DEF LoadInv

LEMMA LoadInvStutters ==
  ASSUME FsmType, LoadInv, UNCHANGED vars
  PROVE  LoadInv'
<1>1. /\ UNCHANGED <<csb, byte_reg, session, todo, wait, image, config>>
      /\ UNCHANGED <<csb_cnt, main_state_init, main_next_state, iccm_next_state, qspi_next_state>>
      /\ UNCHANGED <<byte_cnt, word_reg, iccm_addr, waddr, iccm_data, iccm_valid>>
      /\ UNCHANGED <<qspi_data, qspi_valid, loaded>>
  BY DEF vars, hostVars, csbVars, stateVars, shiftVars, writeVars, qspiVars
<1>2. /\ Arriving' = Arriving /\ InFlight' = InFlight /\ Calm' = Calm /\ Calm3' = Calm3
      /\ Calm4' = Calm4 /\ Sent' = Sent /\ Shift' = Shift
  BY <1>1 DEF Arriving, InFlight, Calm, Calm3, Calm4, Slow, Sent, Shift
<1>3. HostInv'
  BY <1>1, <1>2 DEF LoadInv, HostInv, Rest, ByteThere, Pacing, Slow
<1>4. ASSUME NEW p \in {0, 1}
      PROVE  Taken(p)' = Taken(p) /\ Shifted(p)' = Shifted(p)
  <2>1. Taken(p)' = Taken(p)
    BY <1>2 DEF Taken
  <2> QED BY <1>1, <2>1 DEF Shifted
<1>5. ASSUME NEW w
      PROVE  Holds(w)' = Holds(w)
  BY <1>1 DEF Holds
<1>6. Settled' = Settled /\ Quit' = Quit /\ Begins' = Begins /\ CountClear' = CountClear
  BY <1>1, <1>2 DEF Settled, Quit, Begins, CountClear, Holds
<1>7. MidleInv' = MidleInv /\ CommandInv' = CommandInv
  BY <1>1, <1>2, <1>6 DEF MidleInv, CommandInv
<1>8. FlashInv' = FlashInv /\ ConfigInv' = ConfigInv
  BY <1>1, <1>2, <1>4, <1>6 DEF FlashInv, ConfigInv, ConfigOpen, ConfigClosing
<1>9. ASSUME NEW w, NEW p \in {0, 1}
      PROVE  Loads(w, p)' = Loads(w, p)
  BY <1>1, <1>4, <1>5 DEF Loads
<1>10. IccmOpen => IccmOpen'
  <2> SUFFICES ASSUME IccmOpen PROVE IccmOpen'
    OBVIOUS
  <2>1. CASE iccm_next_state = "SIDLE"
    BY <1>1, <1>2, <1>4, <1>9, <2>1 DEF IccmOpen
  <2>2. CASE iccm_next_state = "BYTE_WORD"
    BY <1>1, <1>2, <1>4, <1>9, <2>2 DEF IccmOpen
  <2>3. CASE iccm_next_state = "U_ADDR"
    BY <1>1, <1>2, <1>4, <1>5, <2>3 DEF IccmOpen, Holds
  <2> QED BY <2>1, <2>2, <2>3 DEF FsmType
<1>11. IccmInv => IccmInv'
  BY <1>1, <1>2, <1>6, <1>10 DEF IccmInv, IccmClosing
<1> QED BY <1>1, <1>3, <1>7, <1>8, <1>11 DEF LoadInv

LEMMA LoadInvClock ==
  ASSUME CarefulHost, IInv, LoadInv, Clock
  PROVE  LoadInv'
<1>1. Edge /\ HostInv' /\ MainFsm
  BY EdgeFacts DEF LoadInv
<1>2. /\ main_next_state = "MIDLE" => MidleInv
      /\ main_next_state = "COMMAND" => CommandInv
      /\ main_next_state = "ICCM" => IccmInv
      /\ main_next_state = "FLASH" => FlashInv
      /\ main_next_state = "QSPI_CONFIG" => ConfigInv
  BY DEF LoadInv
<1> SUFFICES FsmInv'
  BY <1>1 DEF LoadInv, FsmInv
<1>3. CASE Midle
  BY <1>1, <1>2, <1>3, MidleLoads DEF Midle
<1>4. CASE Command
  BY <1>1, <1>2, <1>4, CommandLoads DEF Command
<1>5. CASE ByteReceived
  BY <1>1, <1>2, <1>5, IccmReceives DEF ByteReceived, InIccm
<1>6. CASE WriteWord
  BY <1>1, <1>2, <1>6, IccmWrites DEF WriteWord, InIccm
<1>7. CASE AwaitByte
  BY <1>1, <1>2, <1>7, IccmAwaits DEF AwaitByte, InIccm
<1>8. CASE ShiftByte
  BY <1>1, <1>2, <1>8, IccmShifts DEF ShiftByte, InIccm
<1>9. CASE EndIccm
  BY <1>1, <1>2, <1>9, IccmEnds DEF EndIccm, InIccm
<1>10. CASE UpdateAddr
  BY <1>1, <1>2, <1>10, IccmUpdates DEF UpdateAddr, InIccm
<1>11. CASE FlashByte \/ AwaitFlash \/ EndFlash
  BY <1>1, <1>2, <1>11, FlashLoads DEF FlashByte, AwaitFlash, EndFlash
<1>12. CASE AwaitConfig \/ SendConfig \/ ConfigByte \/ EndConfig
  BY <1>1, <1>2, <1>12, ConfigLoads
  DEF AwaitConfig, SendConfig, ConfigByte, EndConfig, InConfig
<1>13. MainFsm
  BY <1>1
<1> QED BY <1>3, <1>4, <1>5, <1>6, <1>7, <1>8, <1>9, <1>10, <1>11, <1>12, <1>13 DEF MainFsm

LEMMA LoadInvAlways ==
  ASSUME CarefulHost
  PROVE  Spec => []LoadInv
<1>1. IInv /\ LoadInv /\ [Next]_vars => LoadInv'
  <2> SUFFICES ASSUME IInv, LoadInv, [Next]_vars PROVE LoadInv'
    OBVIOUS
  <2>1. CASE Clock
    BY <2>1, LoadInvClock
  <2>2. CASE PowerOnReset
    BY <2>2, LoadInvReset
  <2>3. CASE UNCHANGED vars
    BY <2>3, TypeParts, LoadInvStutters DEF IInv
  <2> QED BY <2>1, <2>2, <2>3 DEF Next
<1> QED BY LoadInvInit, IInvAlways, <1>1, PTL DEF Spec

\* A host that keeps its frames apart and sends an image that fits the ICCM and does
\* not hold the terminator loads that image: every write carries the next word to
\* its own address, and when the core is released the ICCM holds the whole image
\* and nothing else, whatever the timing of the bytes and whatever flash sessions
\* come before and after.
THEOREM LoadsImage ==
  ASSUME CarefulHost
  PROVE  Spec => []ImageLoaded
<1>1. ASSUME IInv, LoadInv
      PROVE  ImageLoaded
  <2>0. /\ HostType /\ FsmType /\ SessionStatus
    BY <1>1, TypeParts DEF IInv, SessionInv
  <2>1. session \in Sessions /\ session.words \in Seq(Word)
    BY <2>0, SessionParts DEF HostType
  <2>2. ASSUME iccm_valid
        PROVE  image # Nothing /\ waddr < Len(image) /\ iccm_data = image[waddr + 1]
    <3>1. IccmInv
      BY <1>1, <2>0, <2>2 DEF LoadInv, SessionStatus
    <3>2. IccmOpen => image # Nothing
      BY <2>1, NothingAssumption DEF IccmOpen, Word
    <3>3. IccmClosing => image # Nothing
      BY DEF IccmClosing
    <3>4. CASE iccm_next_state = "U_ADDR"
      BY <3>1, <3>2, <3>4 DEF IccmInv, IccmOpen, IccmClosing
    <3>5. CASE iccm_next_state # "U_ADDR"
      BY <2>2, <3>1, <3>2, <3>3, <3>5 DEF IccmInv
    <3> QED BY <3>4, <3>5
  <2>3. ASSUME Idle, image # Nothing
        PROVE  iccm_prog_done /\ Holds(Len(image))
    <3>1. iccm_prog_done /\ MidleInv /\ todo = <<>>
      BY <1>1, <2>0, <2>3 DEF Idle, LoadInv, SessionStatus, FsmType
    <3>2. CASE ~InFlight
      BY <2>3, <3>1, <3>2 DEF MidleInv, Quit, Settled
    <3>3. CASE InFlight
      <4>1. Begins /\ Sent = 1
        BY <3>1, <3>3 DEF MidleInv, Begins
      <4>2. Bytes(session) \in Seq(Byte) /\ Len(Bytes(session)) \in Nat /\ Len(todo) = 0
        BY <2>1, <3>1, BytesType
      <4>3. Len(Bytes(session)) = 1
        BY <4>1, <4>2 DEF Sent
      <4>4. session.cmd # B1
        <5>1. /\ Len(session.words) \in Nat
              /\ session.cmd = B1 => Len(Bytes(session)) = 4 * Len(session.words) + 6
          BY <2>1, BytesValue
        <5> QED BY <4>3, <5>1
      <4> QED BY <2>3, <3>1, <4>1, <4>4 DEF Begins, Settled
    <3> QED BY <3>2, <3>3
  <2> QED BY <2>2, <2>3 DEF ImageLoaded, Holds
<1> QED BY <1>1, IInvAlways, LoadInvAlways, PTL

\* Under the same host the QSPI controller is given the configuration word the host
\* sent, whole: no half word, and no word of an earlier session.
THEOREM SendsConfig ==
  ASSUME CarefulHost
  PROVE  Spec => []ConfigAsSent
<1>1. ASSUME IInv, LoadInv
      PROVE  ConfigAsSent
  <2>1. FsmType
    BY <1>1, TypeParts DEF IInv
  <2> QED BY <1>1, <2>1
          DEF ConfigAsSent, LoadInv, MidleInv, CommandInv, IccmInv, FlashInv, ConfigInv,
              ConfigOpen, ConfigClosing, FsmType
<1> QED BY <1>1, IInvAlways, LoadInvAlways, PTL

============================================================================
