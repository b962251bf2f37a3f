--------------------------- MODULE InstrMemProofs ---------------------------
(***************************************************************************)
(* The ICCM keeps every read and implements the memory port, for every     *)
(* number of addresses and lanes and every depth of the adapter's FIFOs,   *)
(* when fetches and programming are kept apart.                            *)
(***************************************************************************)
EXTENDS InstrMem, SramAdapterProofs

\* While the programmer has the SRAM no fetch is raised or in flight.
HandsOff == /\ ~iccm_wsel => treq = Nothing /\ reqfifo = <<>>
            /\ iccm_ctrl # Nothing => ~iccm_wsel

IInv == TypeOK /\ Tracked(rvalid) /\ HandsOff

-----------------------------------------------------------------------------
LEMMA InitHolds == Init => IInv
<1> SUFFICES ASSUME Init PROVE IInv
  OBVIOUS
<1>1. /\ reqfifo = <<>> /\ rspfifo = <<>> /\ sramreqfifo = 0 /\ got = Nothing
      /\ treq \in Request \cup {Nothing}
      /\ mem \in [Addr -> Word] /\ rdata \in Word /\ rvalid = FALSE
      /\ iccm_wsel = TRUE /\ iccm_ctrl = Nothing
  BY DEF Init, AdapterInit
<1>2. reqfifo \in Seq(Ops) /\ Len(reqfifo) = 0 /\ rspfifo \in Seq(Word) /\ Len(rspfifo) = 0
  BY <1>1, EmptySeq
<1>3. Reads(reqfifo) = 0
  BY <1>2, RankNone DEF Reads
<1>4. TypeOK
  <2>1. Outstanding \in Nat
    BY OutstandingAssumption
  <2>2. AdapterTypeOK
    BY <1>1, <1>2, <2>1 DEF AdapterTypeOK
  <2> QED
    BY <1>1, <2>2 DEF TypeOK
<1> QED
  BY <1>1, <1>2, <1>3, <1>4 DEF IInv, Tracked, HandsOff

\* A read passes on both FIFOs or on none: the bus sees every access accepted.
LEMMA InvariantImpliesTracked == IInv => EveryReadTracked
<1> SUFFICES ASSUME IInv PROVE EveryReadTracked
  OBVIOUS
<1>1. ReqReady => SramReqReady
  BY DataFindRoom, ZeroIsWord DEF IInv, TypeOK
<1> QED
  BY <1>1 DEF IInv, Tracked, EveryReadTracked, ReqO, AAck, AReady

\* The SRAM in one cycle, with the hands of one master on it.
LEMMA SramStep ==
  ASSUME IInv, Sram
  PROVE  /\ mem' \in [Addr -> Word] /\ rdata' \in Word
         /\ ReqO /\ ~WeO => rdata' = mem[treq.addr] /\ mem' = mem
         /\ ReqO /\ WeO =>
              mem' = [mem EXCEPT ![treq.addr] =
                        [l \in Lanes |-> IF l \in treq.mask THEN treq.data[l] ELSE @[l]]]
         /\ ~ReqO => mem' = IF iccm_ctrl = Nothing THEN mem
                            ELSE [mem EXCEPT ![iccm_ctrl.addr] = iccm_ctrl.data]
         /\ ReqO => iccm_wsel /\ iccm_ctrl = Nothing
<1>1. /\ mem \in [Addr -> Word] /\ rdata \in Word
      /\ treq # Nothing => treq.addr \in Addr /\ treq.data \in Word
      /\ iccm_ctrl # Nothing => iccm_ctrl.addr \in Addr /\ iccm_ctrl.data \in Word
  BY DEF IInv, TypeOK, AdapterTypeOK, Request, Write
<1>2. ReqO => treq # Nothing /\ iccm_wsel /\ iccm_ctrl = Nothing
  BY DEF IInv, HandsOff, ReqO
<1>3. CASE ReqO /\ ~WeO
  BY <1>1, <1>2, <1>3 DEF Sram
<1>4. CASE ReqO /\ WeO
  <2> DEFINE merged == [l \in Lanes |-> IF l \in treq.mask THEN treq.data[l]
                                                           ELSE mem[treq.addr][l]]
  <2>1. merged \in Word
    BY <1>1, <1>2, <1>4 DEF Word
  <2>2. mem' = [mem EXCEPT ![treq.addr] = merged] /\ rdata' = rdata
    BY <1>2, <1>4 DEF Sram
  <2> QED
    BY <1>1, <1>2, <1>4, <2>1, <2>2
<1>5. CASE ~ReqO
  <2>1. rdata' = rdata
    BY <1>5 DEF Sram
  <2>2. mem' = IF iccm_ctrl = Nothing THEN mem
               ELSE [mem EXCEPT ![iccm_ctrl.addr] = iccm_ctrl.data]
    BY <1>5 DEF Sram, IInv, HandsOff
  <2> QED
    BY <1>1, <1>2, <1>5, <2>1, <2>2
<1> QED
  BY <1>3, <1>4, <1>5

LEMMA StepHolds == Disciplined /\ IInv /\ [Next]_vars => IInv'
<1> SUFFICES ASSUME Disciplined, IInv, [Next]_vars PROVE IInv'
  OBVIOUS
<1>1. CASE UNCHANGED vars
  BY <1>1 DEF IInv, TypeOK, AdapterTypeOK, Tracked, HandsOff, vars, adapterVars
<1>2. CASE Next
  <2>1. PICK d_ready \in BOOLEAN : Cycle(d_ready)
    BY <1>2, ReadyAssumption DEF Next
  <2>2. /\ AdapterCycle(TRUE, rvalid, rdata, d_ready)
        /\ Sram /\ HostRequest(TRUE) /\ Discipline
        /\ rvalid' = (ReqO /\ ~WeO)
        /\ iccm_wsel' \in BOOLEAN
        /\ iccm_ctrl' \in (IF iccm_wsel' THEN {} ELSE Write) \cup {Nothing}
    BY <2>1, SramStep DEF Cycle, Programmer, Rvalid
  <2>3. /\ reqfifo' \in Seq(Ops) /\ Len(reqfifo') <= Outstanding
        /\ rspfifo' \in Seq(Word) /\ Len(rspfifo') <= Outstanding
        /\ got' \in AnswerSet \cup {Nothing}
        /\ sramreqfifo' = (IF ReqO /\ ~WeO THEN 1 ELSE 0)
        /\ Len(rspfifo') + sramreqfifo' = Reads(reqfifo')
    BY <2>2, CycleOfAnswers DEF IInv, TypeOK
  <2>4. treq' \in Request \cup {Nothing}
    BY <2>2 DEF HostRequest, IInv, TypeOK, AdapterTypeOK
  <2>5. mem' \in [Addr -> Word] /\ rdata' \in Word
    BY <2>2, SramStep
  <2>6. TypeOK'
    BY <2>2, <2>3, <2>4, <2>5, OutstandingAssumption
    DEF TypeOK, AdapterTypeOK, AnswerSet, ReqO, WeO
  <2>7. Tracked(rvalid)'
    BY <2>2, <2>3 DEF Tracked
  <2>8. HandsOff'
    BY <2>2 DEF HandsOff, Discipline
  <2> QED
    BY <2>6, <2>7, <2>8 DEF IInv
<1> QED
  BY <1>1, <1>2

-----------------------------------------------------------------------------
\* The registers of the adapter and the memory stay typed: no FIFO overflows.
THEOREM TypeCorrect ==
  ASSUME Disciplined
  PROVE  Spec => []TypeOK
<1>1. IInv => TypeOK
  BY DEF IInv
<1>2. IInv /\ [Next]_vars => IInv'
  BY StepHolds
<1> QED
  BY InitHolds, <1>1, <1>2, PTL DEF Spec

\* No read is dropped between the FIFOs and no access is made for a request that
\* the bus sees refused, although the wready of two FIFOs is ignored.
THEOREM ReadsTracked ==
  ASSUME Disciplined
  PROVE  Spec => []EveryReadTracked
<1>1. IInv /\ [Next]_vars => IInv'
  BY StepHolds
<1> QED
  BY InitHolds, InvariantImpliesTracked, <1>1, PTL DEF Spec

LEMMA PortStep ==
  ASSUME Disciplined, IInv, Next
  PROVE  Port!Next
<1> DEFINE owed == Owed(rvalid, rdata)
<1>1. PICK d_ready \in BOOLEAN : Cycle(d_ready)
  BY ReadyAssumption DEF Next
<1>2. /\ AdapterCycle(TRUE, rvalid, rdata, d_ready)
      /\ Sram /\ HostRequest(TRUE)
      /\ rvalid' = (ReqO /\ ~WeO)
  BY <1>1, SramStep DEF Cycle, Rvalid
<1>3. /\ sramreqfifo' = (IF ReqO /\ ~WeO THEN 1 ELSE 0)
      /\ Len(owed) = Len(reqfifo)
  BY <1>2, CycleOfAnswers DEF IInv, TypeOK
<1>4. PICK rest :
        /\ Taken(owed, rest)
        /\ ~ReqO => AnswersTo(reqfifo', rspfifo') = rest
        /\ ReqO /\ ~WeO =>
             /\ reqfifo' # <<>>
             /\ \A x \in Word : AnswersTo(reqfifo', Append(rspfifo', x)) =
                                  Append(rest, [op |-> treq.op, data |-> x])
        /\ ReqO /\ WeO => AnswersTo(reqfifo', rspfifo') =
                            Append(rest, [op |-> treq.op, data |-> Zero])
  BY <1>2, CycleOfAnswers DEF IInv, TypeOK
<1>5. owed' = AnswersTo(reqfifo', IF rvalid' /\ reqfifo' # <<>>
                                  THEN Append(rspfifo', IF sramreqfifo' = 0 THEN Zero ELSE rdata')
                                  ELSE rspfifo')
  BY DEF Owed, DataBack, RspWValid, RspWData
<1> HIDE DEF owed
<1>6. Port!Cycle(rest)
  <2>1. CASE ~ReqO
    <3>1. owed' = rest
      BY <2>1, <1>2, <1>4, <1>5
    <3>2. treq # Nothing => treq' = treq
      BY <2>1, <1>2 DEF HostRequest, AAck, AReady, ReqO
    <3>3. mem' = Port!Loaded(mem)
      BY <2>1, <1>2, SramStep DEF Port!Loaded
    <3> QED
      BY <3>1, <3>2, <3>3 DEF Port!Cycle, Port!Refuse, owed
  <2>2. CASE ReqO
    <3>1. /\ treq # Nothing /\ Len(owed) < Outstanding
          /\ treq.addr \in Addr /\ treq.op \in {"Get", "Put"}
      BY <2>2, <1>3, OpsAssumption DEF ReqO, ReqReady, IInv, TypeOK, AdapterTypeOK, Request
    <3>2. iccm_ctrl = Nothing
      BY <2>2, <1>2, SramStep
    <3>3. CASE WeO
      <4>1. treq.op = "Put" /\ owed' = Append(rest, [op |-> treq.op, data |-> Zero])
        BY <2>2, <3>3, <1>2, <1>4, <1>5 DEF WeO
      <4>2. [op |-> treq.op, data |-> Zero] \in Port!Answers
        BY <4>1 DEF Port!Answers, Port!Zero, Zero
      <4>3. mem' = Port!Loaded(Port!Stored)
        BY <2>2, <3>2, <3>3, <4>1, <1>2, SramStep DEF Port!Loaded, Port!Stored
      <4> QED
        BY <3>1, <4>1, <4>2, <4>3 DEF Port!Cycle, Port!Accept, owed
    <3>4. CASE ~WeO
      <4>1. treq.op = "Get" /\ rdata' = mem[treq.addr] /\ rdata' \in Word /\ mem' = mem
        BY <2>2, <3>1, <3>4, <1>2, SramStep DEF WeO
      <4>2. owed' = Append(rest, [op |-> treq.op, data |-> rdata'])
        <5>1. owed' = AnswersTo(reqfifo', Append(rspfifo', rdata'))
          <6>1. rvalid' /\ reqfifo' # <<>> /\ sramreqfifo' = 1
            BY <2>2, <3>4, <1>2, <1>3, <1>4
          <6> QED
            BY <6>1, <1>5
        <5> QED
          BY <2>2, <3>4, <4>1, <5>1, <1>4
      <4>3. [op |-> treq.op, data |-> rdata'] \in Port!Answers
        BY <4>1 DEF Port!Answers, Port!ReadWords
      <4>4. mem' = Port!Loaded(Port!Stored)
        BY <3>2, <4>1 DEF Port!Loaded, Port!Stored
      <4> QED
        BY <3>1, <4>2, <4>3, <4>4 DEF Port!Cycle, Port!Accept, owed
    <3> QED
      BY <3>3, <3>4
  <2> QED
    BY <2>1, <2>2
<1> QED
  BY <1>4, <1>6 DEF Port!Next, Taken, owed

\* Each fetch is answered once, in order, with the word its address held when it
\* was accepted, whatever was programmed before or after.
THEOREM IsMemoryPort ==
  ASSUME Disciplined
  PROVE  Spec => ImplementsMemory
<1>1. Init => Port!Init
  <2> SUFFICES ASSUME Init PROVE Port!Init
    OBVIOUS
  <2>1. reqfifo = <<>> /\ got = Nothing
    BY DEF Init, AdapterInit
  <2> QED
    BY <2>1, NoAnswers DEF Port!Init, Owed
<1>2. IInv /\ [Next]_vars => IInv'
  BY StepHolds
<1>3. IInv /\ [Next]_vars => [Port!Next]_(Port!vars)
  <2>1. UNCHANGED vars => UNCHANGED Port!vars
    BY DEF vars, adapterVars, Port!vars, Owed, DataBack, RspWValid, RspWData
  <2> QED
    BY PortStep, <2>1
<1> QED
  BY InitHolds, <1>1, <1>2, <1>3, PTL DEF Spec, Port!Spec, ImplementsMemory
=============================================================================
