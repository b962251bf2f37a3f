--------------------------- MODULE DataMemProofs ----------------------------
(***************************************************************************)
(* The DCCM keeps every load and implements the memory port, boot register *)
(* included, for every number of addresses, lanes and boot words and every *)
(* depth of the adapter's FIFOs.                                           *)
(***************************************************************************)
EXTENDS DataMem, SramAdapterProofs

IInv == TypeOK /\ Tracked(rvalid)

LEMMA ReturnedType == TypeOK => Returned \in Word
  BY ZeroIsWord, BootAssumption DEF TypeOK, Returned

-----------------------------------------------------------------------------
LEMMA InitHolds == Init => IInv
<1> SUFFICES ASSUME Init PROVE IInv
  OBVIOUS
<1>1. /\ reqfifo = <<>> /\ rspfifo = <<>> /\ sramreqfifo = 0 /\ got = Nothing
      /\ treq \in Request \cup {Nothing}
      /\ mem \in [Addr -> Word] /\ rdata \in Word /\ rvalid = FALSE
      /\ boot_reg = Zero /\ read_boot_reg = FALSE
  BY DEF Init, AdapterInit
<1>2. reqfifo \in Seq(Ops) /\ Len(reqfifo) = 0 /\ rspfifo \in Seq(Word) /\ Len(rspfifo) = 0
  BY <1>1, EmptySeq
<1>3. Reads(reqfifo) = 0
  BY <1>2, RankNone DEF Reads
<1>4. TypeOK
  <2>1. Outstanding \in Nat
    BY OutstandingAssumption
  <2>2. AdapterTypeOK
    BY <1>1, <1>2, <2>1 DEF AdapterTypeOK
  <2> QED
    BY <1>1, <2>2 DEF TypeOK
<1> QED
  BY <1>1, <1>2, <1>3, <1>4 DEF IInv, Tracked

\* A load passes on both FIFOs or on none: the bus sees every access accepted.
LEMMA InvariantImpliesTracked == IInv => EveryReadTracked
<1> SUFFICES ASSUME IInv PROVE EveryReadTracked
  OBVIOUS
<1>1. ReqReady => SramReqReady
  BY DataFindRoom, ZeroIsWord DEF IInv, TypeOK
<1> QED
  BY <1>1 DEF IInv, Tracked, EveryReadTracked, ReqO, AAck, AReady

\* The memory and the boot register in one cycle.  Returned' is what the adapter is
\* given in the next cycle for the address on the bus in this one.
LEMMA MemoryStep ==
  ASSUME IInv, NEW a_address \in Addr, treq # Nothing => a_address = treq.addr,
         Sram, BootRegister(a_address)
  PROVE  /\ mem' \in [Addr -> Word] /\ rdata' \in Word
         /\ boot_reg' \in BootWords \cup {Zero} /\ read_boot_reg' \in BOOLEAN
         /\ ReqO /\ ~WeO =>
              /\ mem' = mem
              /\ Returned' \in Port!ReadWords
         /\ ReqO /\ WeO => mem' = [mem EXCEPT ![treq.addr] = Merged(@)]
         /\ ~ReqO => mem' = mem
<1>1. /\ mem \in [Addr -> Word] /\ rdata \in Word
      /\ boot_reg \in BootWords \cup {Zero}
      /\ treq # Nothing => treq.addr \in Addr /\ treq.data \in Word
  BY DEF IInv, TypeOK, AdapterTypeOK, Request
<1>2. /\ boot_reg' \in BootWords \cup {Zero}
      /\ read_boot_reg' = (a_address = BootAddr)
  BY <1>1 DEF BootRegister
<1>3. CASE ReqO /\ ~WeO
  <2>1. mem' = mem /\ rdata' = mem[treq.addr] /\ a_address = treq.addr /\ treq.addr \in Addr
    BY <1>1, <1>3 DEF Sram, ReqO
  <2>2. Returned' = IF treq.addr = BootAddr THEN boot_reg' ELSE mem[treq.addr]
    BY <1>2, <2>1 DEF Returned
  <2>3. Returned' \in Port!ReadWords
    BY <1>2, <2>2 DEF Port!ReadWords
  <2> QED
    BY <1>1, <1>2, <1>3, <2>1, <2>3
<1>4. CASE ReqO /\ WeO
  <2>1. Merged(mem[treq.addr]) \in Word
    BY <1>1, <1>4 DEF Merged, Word, ReqO
  <2>2. mem' = [mem EXCEPT ![treq.addr] = Merged(@)] /\ rdata' = rdata
    BY <1>4 DEF Sram
  <2> QED
    BY <1>1, <1>2, <1>4, <2>1, <2>2
<1>5. CASE ~ReqO
  BY <1>1, <1>2, <1>5 DEF Sram
<1> QED
  BY <1>3, <1>4, <1>5

LEMMA StepHolds == IInv /\ [Next]_vars => IInv'
<1> SUFFICES ASSUME IInv, [Next]_vars PROVE IInv'
  OBVIOUS
<1>1. CASE UNCHANGED vars
  BY <1>1 DEF IInv, TypeOK, AdapterTypeOK, Tracked, vars, adapterVars
<1>2. CASE Next
  <2>1. PICK d_ready \in BOOLEAN, a_address \in Addr : Cycle(d_ready, a_address)
    BY <1>2, ReadyAssumption DEF Next
  <2>2. /\ AdapterCycle(TRUE, rvalid, Returned, d_ready)
        /\ Sram /\ HostRequest(TRUE) /\ BootRegister(a_address)
        /\ treq # Nothing => a_address = treq.addr
        /\ rvalid' = (ReqO /\ ~WeO)
    BY <2>1 DEF Cycle, Rvalid
  <2>3. /\ reqfifo' \in Seq(Ops) /\ Len(reqfifo') <= Outstanding
        /\ rspfifo' \in Seq(Word) /\ Len(rspfifo') <= Outstanding
        /\ got' \in AnswerSet \cup {Nothing}
        /\ sramreqfifo' = (IF ReqO /\ ~WeO THEN 1 ELSE 0)
        /\ Len(rspfifo') + sramreqfifo' = Reads(reqfifo')
    BY <2>2, CycleOfAnswers, ReturnedType DEF IInv, TypeOK
  <2>4. treq' \in Request \cup {Nothing}
    BY <2>2 DEF HostRequest, IInv, TypeOK, AdapterTypeOK
  <2>5. /\ mem' \in [Addr -> Word] /\ rdata' \in Word
        /\ boot_reg' \in BootWords \cup {Zero} /\ read_boot_reg' \in BOOLEAN
    BY <2>2, MemoryStep
  <2>6. TypeOK'
    BY <2>2, <2>3, <2>4, <2>5, OutstandingAssumption
    DEF TypeOK, AdapterTypeOK, AnswerSet, ReqO, WeO
  <2>7. Tracked(rvalid)'
    BY <2>2, <2>3 DEF Tracked
  <2> QED
    BY <2>6, <2>7 DEF IInv
<1> QED
  BY <1>1, <1>2

-----------------------------------------------------------------------------
\* The registers of the adapter and the memory stay typed: no FIFO overflows.
THEOREM TypeCorrect == Spec => []TypeOK
<1>1. IInv => TypeOK
  BY DEF IInv
<1> QED
  BY InitHolds, StepHolds, <1>1, PTL DEF Spec

\* No load is dropped or left for a later request, although stores come between and
\* the wready of two FIFOs is ignored, and no access is made twice.
THEOREM ReadsTracked == Spec => []EveryReadTracked
  BY InitHolds, StepHolds, InvariantImpliesTracked, PTL DEF Spec

LEMMA PortStep ==
  ASSUME IInv, Next
  PROVE  Port!Next
<1> DEFINE owed == Owed(rvalid, Returned)
<1>1. PICK d_ready \in BOOLEAN, a_address \in Addr : Cycle(d_ready, a_address)
  BY ReadyAssumption DEF Next
<1>2. /\ AdapterCycle(TRUE, rvalid, Returned, d_ready)
      /\ Sram /\ HostRequest(TRUE) /\ BootRegister(a_address)
      /\ treq # Nothing => a_address = treq.addr
      /\ rvalid' = (ReqO /\ ~WeO)
  BY <1>1 DEF Cycle, Rvalid
<1>3. /\ sramreqfifo' = (IF ReqO /\ ~WeO THEN 1 ELSE 0)
      /\ Len(owed) = Len(reqfifo)
  BY <1>2, CycleOfAnswers, ReturnedType DEF IInv, TypeOK
<1>4. PICK rest :
        /\ Taken(owed, rest)
        /\ ~ReqO => AnswersTo(reqfifo', rspfifo') = rest
        /\ ReqO /\ ~WeO =>
             /\ reqfifo' # <<>>
             /\ \A x \in Word : AnswersTo(reqfifo', Append(rspfifo', x)) =
                                  Append(rest, [op |-> treq.op, data |-> x])
        /\ ReqO /\ WeO => AnswersTo(reqfifo', rspfifo') =
                            Append(rest, [op |-> treq.op, data |-> Zero])
  BY <1>2, CycleOfAnswers, ReturnedType DEF IInv, TypeOK
<1>5. owed' = AnswersTo(reqfifo', IF rvalid' /\ reqfifo' # <<>>
                                  THEN Append(rspfifo', IF sramreqfifo' = 0 THEN Zero ELSE Returned')
                                  ELSE rspfifo')
  BY DEF Owed, DataBack, RspWValid, RspWData
<1>6. Returned' \in Word
  <2>1. TypeOK'
    BY StepHolds DEF IInv
  <2> QED
    BY <2>1, ZeroIsWord, BootAssumption DEF TypeOK, Returned
<1> HIDE DEF owed
<1>7. Port!Cycle(rest)
  <2>1. CASE ~ReqO
    <3>1. owed' = rest
      BY <2>1, <1>2, <1>4, <1>5
    <3>2. treq # Nothing => treq' = treq
      BY <2>1, <1>2 DEF HostRequest, AAck, AReady, ReqO
    <3>3. mem' = Port!Loaded(mem)
      BY <2>1, <1>2, MemoryStep DEF Port!Loaded
    <3> QED
      BY <3>1, <3>2, <3>3 DEF Port!Cycle, Port!Refuse, owed
  <2>2. CASE ReqO
    <3>1. /\ treq # Nothing /\ Len(owed) < Outstanding
          /\ treq.addr \in Addr /\ treq.op \in {"Get", "Put"}
      BY <2>2, <1>3, OpsAssumption DEF ReqO, ReqReady, IInv, TypeOK, AdapterTypeOK, Request
    <3>2. CASE WeO
      <4>1. treq.op = "Put" /\ owed' = Append(rest, [op |-> treq.op, data |-> Zero])
        BY <2>2, <3>2, <1>2, <1>4, <1>5 DEF WeO
      <4>2. [op |-> treq.op, data |-> Zero] \in Port!Answers
        BY <4>1 DEF Port!Answers, Port!Zero, Zero
      <4>3. mem' = [mem EXCEPT ![treq.addr] = Merged(@)]
        BY <2>2, <3>2, <1>2, MemoryStep
      <4>4. mem' = Port!Loaded(Port!Stored)
        BY <4>1, <4>3 DEF Port!Loaded, Port!Stored, Merged
      <4> QED
        BY <3>1, <4>1, <4>2, <4>4 DEF Port!Cycle, Port!Accept, owed
    <3>3. CASE ~WeO
      <4>1. treq.op = "Get" /\ Returned' \in Port!ReadWords /\ mem' = mem
        BY <2>2, <3>1, <3>3, <1>2, MemoryStep DEF WeO
      <4>2. owed' = Append(rest, [op |-> treq.op, data |-> Returned'])
        <5>1. rvalid' /\ reqfifo' # <<>> /\ sramreqfifo' = 1
          BY <2>2, <3>3, <1>2, <1>3, <1>4
        <5>2. owed' = AnswersTo(reqfifo', Append(rspfifo', Returned'))
          BY <5>1, <1>5
        <5> QED
          BY <2>2, <3>3, <5>2, <1>4, <1>6
      <4>3. [op |-> treq.op, data |-> Returned'] \in Port!Answers
        BY <4>1 DEF Port!Answers
      <4>4. mem' = Port!Loaded(Port!Stored)
        BY <4>1 DEF Port!Loaded, Port!Stored
      <4> QED
        BY <3>1, <4>2, <4>3, <4>4 DEF Port!Cycle, Port!Accept, owed
    <3> QED
      BY <3>2, <3>3
  <2> QED
    BY <2>1, <2>2
<1> QED
  BY <1>4, <1>7 DEF Port!Next, Taken, owed

\* Loads and stores are answered once, in order; a load returns the bytes last
\* stored, and at the boot address a boot value, never SRAM data.
THEOREM IsMemoryPort == Spec => ImplementsMemory
<1>1. Init => Port!Init
  <2> SUFFICES ASSUME Init PROVE Port!Init
    OBVIOUS
  <2>1. reqfifo = <<>> /\ got = Nothing
    BY DEF Init, AdapterInit
  <2> QED
    BY <2>1, NoAnswers DEF Port!Init, Owed
<1>2. IInv /\ [Next]_vars => [Port!Next]_(Port!vars)
  <2>1. UNCHANGED vars => UNCHANGED Port!vars
    BY DEF vars, adapterVars, Port!vars, Owed, DataBack, RspWValid, RspWData, Returned
  <2> QED
    BY PortStep, <2>1
<1> QED
  BY InitHolds, StepHolds, <1>1, <1>2, PTL DEF Spec, Port!Spec, ImplementsMemory
=============================================================================
