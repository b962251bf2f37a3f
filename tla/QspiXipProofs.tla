--------------------------- MODULE QspiXipProofs ---------------------------
(***************************************************************************)
(* The fetch port on the serial flash, for every flash, base, number of    *)
(* dummy cycles and depth of the adapter's FIFOs: the grant meets the      *)
(* transfer it belongs to; and as long as no configuration asks to leave   *)
(* XIP mode, the controller and the flash never drive the wires together   *)
(* and each fetch is answered with the word at its address.                *)
(***************************************************************************)
EXTENDS QspiXip, SramAdapterProofs

\* The grant of a request: none in sight, its pulse on the way, the pulse there,
\* and given to a read in flight.
Quiet    == ~trig /\ ~gnt_sync /\ ~gnt /\ sramreqfifo = 0
Queued   == trig /\ gnt_sync /\ ~gnt /\ sramreqfifo = 0 /\ ReqO
Granting == trig /\ ~gnt_sync /\ gnt /\ sramreqfifo = 0 /\ ReqO
Granted  == trig /\ ~gnt_sync /\ ~gnt /\ sramreqfifo = 1

Transferring == next_state \in {"TRANSMIT", "TOGGLE"}

\* How far the grant may be in each state of the other machine.
Handshake ==
  /\ next_state = "IDLE" => Quiet \/ Queued \/ Granting \/ Granted
  /\ next_state = "TRANSMIT" => Granted \/ (cycle_cnt = 0 /\ (Queued \/ Granting))
  /\ next_state = "TOGGLE" => Granted \/ (cycle_cnt = 1 /\ Granting)
  /\ next_state = "RECEIVE" =>
       /\ cycle_cnt \in {0, 1} => Granted
       /\ cycle_cnt = 2 => Quiet
       /\ cycle_cnt = 3 => Quiet \/ Queued
  /\ rvalid <=> next_state = "RECEIVE" /\ cycle_cnt = 1

\* Each operation in the adapter is a read, in flight or back.
AllReads == Len(rspfifo) + sramreqfifo = Len(reqfifo)

\* A transfer that waits for its grant sends the address of the request.
Addressed == Transferring /\ (Queued \/ Granting) =>
               Leaving \/ shift_reg.addr = FlashAddr(treq.addr)

\* The clocks of a transfer, and the shifts in them.
Clocks == IF Leaving THEN Sent + 2 ELSE Sent + Symbols

Counting ==
  /\ next_state = "IDLE" => cycle_cnt = 0
  /\ next_state = "TRANSMIT" => cycle_cnt \in 0 .. Clocks - 1
  /\ next_state = "TOGGLE" => cycle_cnt \in 1 .. Clocks
  /\ next_state = "RECEIVE" => cycle_cnt \in 0 .. Gap
  /\ Transferring => shift_reg.out <= cycle_cnt

\* The controller samples once in each clock after it has sent its symbols.
Sampling ==
  Transferring =>
    shift_reg.in <= IF cycle_cnt > Sent
                    THEN (IF next_state = "TOGGLE" THEN cycle_cnt - 1 ELSE cycle_cnt) - Sent
                    ELSE 0

\* The flash has heard no address that was not sent.
Hearing ==
  /\ next_state = "IDLE" /\ flash.heard => flash.edges = 0
  /\ next_state # "IDLE" /\ flash.heard /\ flash.edges > 0 => shift_reg.addr # Nothing
  /\ Transferring /\ Leaving => shift_reg.addr = Nothing
  /\ next_state = "RECEIVE" /\ cycle_cnt = 0 => flash.edges > 0

Exiting == clr_exip /\ Leaving => next_state = "IDLE" /\ Granted

InReset == ~rst_ni => next_state = "IDLE" /\ Quiet /\ ~clr_exip

XipInv == /\ TypeOK /\ Handshake /\ AllReads /\ Addressed /\ Counting
          /\ Sampling /\ Hearing /\ Exiting /\ InReset

-----------------------------------------------------------------------------
(* The adapter behind the grant.                                            *)

LEMMA ReadsOfFetches ==
  ASSUME NEW s \in Seq(Ops)
  PROVE  Reads(s) = Len(s)
<1>1. Len(s) \in Nat /\ \A j \in 1 .. Len(s) : s[j] = "Get"
  BY FetchesOnly
<1>2. {j \in 1 .. Len(s) : s[j] = "Get"} = 1 .. Len(s)
  BY <1>1
<1>3. Cardinality(1 .. Len(s)) = Len(s)
  <2>1. IF 1 > Len(s) THEN Cardinality(1 .. Len(s)) = 0
        ELSE Cardinality(1 .. Len(s)) = Len(s) - 1 + 1
    BY <1>1, FS_Interval
  <2> QED BY <2>1, <1>1
<1> QED BY <1>2, <1>3 DEF Reads, Rank

\* A grant finds a request and no read in flight, an answer finds its read.
Paired == /\ gnt => ReqO /\ sramreqfifo = 0
          /\ rvalid => sramreqfifo = 1
          /\ sramreqfifo \in {0, 1}

\* What the adapter makes of the data of this cycle.
Back == IF rvalid THEN Append(rspfifo, rdata) ELSE rspfifo

\* One edge of the adapter: what comes back finds room, what is granted is accepted.
LEMMA AdapterEdge ==
  ASSUME AdapterTypeOK, AllReads, Paired, gnt \in BOOLEAN, rvalid \in BOOLEAN,
         rdata \in Word, NEW d_ready \in BOOLEAN,
         AdapterCycle(gnt, rvalid, rdata, d_ready), HostRequest(gnt)
  PROVE  LET dack == reqfifo # <<>> /\ Back # <<>> /\ d_ready
             rest == IF dack THEN Tail(reqfifo) ELSE reqfifo
         IN  /\ Back \in Seq(Word)
             /\ AAck(gnt) <=> gnt
             /\ reqfifo' = IF gnt THEN Append(rest, treq.op) ELSE rest
             /\ rspfifo' = IF dack THEN Tail(Back) ELSE Back
             /\ got' = IF dack THEN [op |-> Head(reqfifo), data |-> Head(Back)] ELSE Nothing
             /\ sramreqfifo' = IF gnt THEN 1 ELSE IF rvalid THEN 0 ELSE sramreqfifo
             /\ AdapterTypeOK' /\ AllReads'
             /\ ~gnt => Len(reqfifo') <= Len(reqfifo)
             /\ ReqO /\ ~gnt => treq' = treq /\ ReqO'
<1> DEFINE dack == reqfifo # <<>> /\ Back # <<>> /\ d_ready
           rest == IF dack THEN Tail(reqfifo) ELSE reqfifo
<1>1. /\ reqfifo \in Seq(Ops) /\ Len(reqfifo) \in Nat /\ Len(reqfifo) <= Outstanding
      /\ rspfifo \in Seq(Word) /\ Len(rspfifo) \in Nat
      /\ treq \in Request \cup {Nothing} /\ Outstanding \in Nat \ {0}
      /\ Len(rspfifo) + sramreqfifo = Len(reqfifo)
  BY OutstandingAssumption DEF AdapterTypeOK, AllReads
<1>2. treq # Nothing => treq.op = "Get"
  BY <1>1, FetchesOnly DEF Request
<1>3. reqfifo # <<>> => Head(reqfifo) = "Get" /\ Len(reqfifo) > 0
  BY <1>1, FetchesOnly
<1>4. /\ RspFifo(rvalid, rdata) = Back
      /\ Back \in Seq(Word)
      /\ Len(Back) = Len(rspfifo) + (IF rvalid THEN 1 ELSE 0)
  <2>1. CASE rvalid
    <3>1. sramreqfifo = 1 /\ Len(reqfifo) > 0 /\ Len(rspfifo) < Outstanding
      BY <2>1, <1>1 DEF Paired
    <3>2. reqfifo # <<>>
      BY <3>1, <1>1
    <3>3. RspFifo(rvalid, rdata) = Append(rspfifo, rdata)
      <4>1. RspWValid(rvalid) /\ RspReady
        BY <2>1, <3>1, <3>2 DEF RspWValid, RspReady
      <4>2. RspWData(rdata) = rdata
        BY <3>1 DEF RspWData
      <4> QED BY <4>1, <4>2 DEF RspFifo
    <3>4. Append(rspfifo, rdata) \in Seq(Word) /\ Len(Append(rspfifo, rdata)) = Len(rspfifo) + 1
      BY <1>1, AppendProperties, Zenon
    <3> QED BY <2>1, <3>3, <3>4 DEF Back
  <2>2. CASE ~rvalid
    BY <2>2, <1>1 DEF RspFifo, RspWValid, Back
  <2> QED BY <2>1, <2>2
<1>5. AAck(gnt) <=> gnt
  BY <1>1, <1>2 DEF AAck, AReady, Paired, ReqO, SramReqReady
<1>6. /\ reqfifo' = IF gnt THEN Append(rest, treq.op) ELSE rest
      /\ rspfifo' = IF dack THEN Tail(Back) ELSE Back
      /\ got' = IF dack THEN [op |-> Head(reqfifo), data |-> Head(Back)] ELSE Nothing
  BY <1>3, <1>4, <1>5 DEF AdapterCycle, DValid, RspPop, Answer
<1>7. sramreqfifo' = IF gnt THEN 1 ELSE IF rvalid THEN 0 ELSE sramreqfifo
  <2>1. sramreqfifo' = SramReqNext(gnt, rvalid)
    BY DEF AdapterCycle
  <2>2. RspWValid(rvalid) <=> rvalid
    <3>1. rvalid => reqfifo # <<>>
      BY <1>1 DEF Paired
    <3> QED BY <3>1 DEF RspWValid
  <2>3. ReqO => ~WeO
    BY <1>2 DEF ReqO, WeO
  <2>4. gnt => ReqO /\ ~WeO /\ SramReqReady /\ ~rvalid
    BY <2>3, <1>1 DEF Paired, SramReqReady
  <2>5. CASE gnt
    BY <2>1, <2>2, <2>4, <2>5 DEF SramReqNext, Paired
  <2>6. CASE ~gnt
    BY <2>1, <2>2, <2>6 DEF SramReqNext, Paired
  <2> QED BY <2>5, <2>6
<1>8. /\ rest \in Seq(Ops) /\ Len(rest) = Len(reqfifo) - (IF dack THEN 1 ELSE 0)
      /\ rspfifo' \in Seq(Word) /\ Len(rspfifo') = Len(Back) - (IF dack THEN 1 ELSE 0)
      /\ dack => Len(Back) > 0
      /\ got' \in [op : Ops, data : Word] \cup {Nothing}
  <2>1. CASE dack
    <3>1. /\ Tail(reqfifo) \in Seq(Ops) /\ Len(Tail(reqfifo)) = Len(reqfifo) - 1
          /\ Tail(Back) \in Seq(Word) /\ Len(Tail(Back)) = Len(Back) - 1 /\ Len(Back) > 0
          /\ Head(Back) \in Word /\ Head(reqfifo) \in Ops
      BY <2>1, <1>1, <1>4, HeadTailProperties, EmptySeq
    <3> QED BY <2>1, <3>1, <1>6
  <2>2. CASE ~dack
    BY <2>2, <1>1, <1>4, <1>6
  <2> QED BY <2>1, <2>2
<1>9. /\ reqfifo' \in Seq(Ops)
      /\ Len(reqfifo') = Len(rest) + (IF gnt THEN 1 ELSE 0)
  <2>1. gnt => treq.op \in Ops
    BY <1>2, FetchesOnly DEF Paired, ReqO
  <2> HIDE DEF rest, dack
  <2>2. CASE gnt
    <3>1. /\ Append(rest, treq.op) \in Seq(Ops)
          /\ Len(Append(rest, treq.op)) = Len(rest) + 1
      BY <2>1, <2>2, <1>8, AppendProperties, Zenon
    <3> QED BY <3>1, <2>2, <1>6
  <2>3. CASE ~gnt
    <3>1. reqfifo' = rest
      BY <2>3, <1>6
    <3>2. Len(rest) = Len(rest) + 0
      <4>1. Len(rest) \in Nat
        BY <1>8
      <4> QED BY <4>1
    <3> QED BY <2>3, <3>1, <3>2, <1>8
  <2> QED BY <2>2, <2>3
<1>10. AllReads' /\ Len(reqfifo') <= Outstanding /\ Len(rspfifo') <= Outstanding
  <2>1. /\ Len(reqfifo') \in Nat /\ Len(rspfifo') \in Nat /\ Len(Back) \in Nat
        /\ Len(rest) \in Nat
    <3>1. reqfifo' \in Seq(Ops) /\ rspfifo' \in Seq(Word) /\ rest \in Seq(Ops)
      BY <1>8, <1>9
    <3> HIDE DEF rest
    <3> QED BY <3>1, <1>4
  <2>2. gnt => Len(reqfifo) < Outstanding
    BY DEF Paired, ReqO, ReqReady
  <2>3. sramreqfifo \in {0, 1} /\ (gnt => sramreqfifo = 0) /\ (rvalid => sramreqfifo = 1)
    BY DEF Paired
  <2> HIDE DEF rest, dack
  <2>4. Len(rspfifo') + sramreqfifo' = Len(reqfifo')
    <3>1. /\ Len(reqfifo') = Len(reqfifo) - (IF dack THEN 1 ELSE 0) + (IF gnt THEN 1 ELSE 0)
          /\ Len(rspfifo') = Len(rspfifo) + (IF rvalid THEN 1 ELSE 0) - (IF dack THEN 1 ELSE 0)
      BY <1>1, <1>4, <1>8, <1>9
    <3>2. sramreqfifo' = sramreqfifo + (IF gnt THEN 1 ELSE 0) - (IF rvalid THEN 1 ELSE 0)
      BY <1>7, <2>3
    <3> DEFINE d == IF dack THEN 1 ELSE 0
               g == IF gnt THEN 1 ELSE 0
               v == IF rvalid THEN 1 ELSE 0
    <3>3. d \in Nat /\ g \in Nat /\ v \in Nat
      OBVIOUS
    <3>4. /\ Len(reqfifo') = Len(reqfifo) - d + g
          /\ Len(rspfifo') = Len(rspfifo) + v - d
          /\ sramreqfifo' = sramreqfifo + g - v
      BY <3>1, <3>2
    <3>5. sramreqfifo \in Nat
      BY <2>3
    <3> HIDE DEF d, g, v
    <3> QED BY <1>1, <3>3, <3>4, <3>5
  <2>5. Len(reqfifo') <= Outstanding
    BY <1>1, <1>8, <1>9, <2>2
  <2>6. sramreqfifo' \in {0, 1}
    BY <1>7, <2>3
  <2> QED BY <1>1, <2>1, <2>4, <2>5, <2>6 DEF AllReads
<1>11. treq' \in Request \cup {Nothing}
  BY <1>1 DEF HostRequest
<1>12. AdapterTypeOK'
  <2>1. sramreqfifo' \in 0 .. Outstanding
    BY <1>1, <1>7 DEF Paired
  <2> QED BY <2>1, <1>8, <1>9, <1>10, <1>11 DEF AdapterTypeOK
<1>13. ~gnt => Len(reqfifo') <= Len(reqfifo)
  <2> HIDE DEF rest, dack
  <2> QED BY <1>1, <1>8, <1>9
<1>14. ReqO /\ ~gnt => treq' = treq /\ ReqO'
  <2> SUFFICES ASSUME ReqO, ~gnt PROVE treq' = treq /\ ReqO'
    OBVIOUS
  <2>1. treq' = treq
    BY <1>5 DEF HostRequest, ReqO
  <2>2. Len(reqfifo') < Outstanding
    <3>1. Len(reqfifo) < Outstanding /\ Len(reqfifo') \in Nat
      BY <1>9 DEF ReqO, ReqReady
    <3> QED BY <3>1, <1>13, <1>1
  <2> QED BY <2>1, <2>2 DEF ReqO, ReqReady
<1> QED BY <1>4, <1>5, <1>6, <1>7, <1>10, <1>12, <1>13, <1>14

\* One edge of the grant: it moves on by a stage, or waits for the answer.
LEMMA GrantEdge ==
  ASSUME {gnt_sync, gnt, trig, rvalid} \subseteq BOOLEAN, Grant,
         sramreqfifo' = IF gnt THEN 1 ELSE IF rvalid THEN 0 ELSE sramreqfifo,
         ReqO /\ ~gnt => ReqO'
  PROVE  /\ Quiet /\ ~rvalid => IF ReqO THEN Queued' ELSE Quiet'
         /\ Queued /\ ~rvalid => Granting'
         /\ Granting /\ ~rvalid => Granted'
         /\ Granted => IF rvalid THEN Quiet' ELSE Granted'
<1>1. CASE Quiet /\ ~rvalid
  BY <1>1 DEF Quiet, Queued, Grant, Triggers, TrigNext, Granting, Granted
<1>2. CASE Queued /\ ~rvalid
  BY <1>2 DEF Quiet, Queued, Grant, Triggers, TrigNext, Granting, Granted
<1>3. CASE Granting /\ ~rvalid
  BY <1>3 DEF Quiet, Queued, Grant, Triggers, TrigNext, Granting, Granted
<1>4. CASE Granted
  BY <1>4 DEF Quiet, Queued, Grant, Triggers, TrigNext, Granting, Granted
<1> QED BY <1>1, <1>2, <1>3, <1>4 DEF Quiet, Queued, Granting, Granted

LEMMA GrantStages ==
  ASSUME XipInv
  PROVE  /\ Paired
         /\ Quiet \/ Queued \/ Granting \/ Granted
         /\ rvalid => Granted
<1>1. /\ next_state \in {"IDLE", "TRANSMIT", "TOGGLE", "RECEIVE"}
      /\ next_state = "RECEIVE" => cycle_cnt \in 0 .. 3
  BY DEF XipInv, TypeOK, Counting, Gap
<1>2. Quiet \/ Queued \/ Granting \/ Granted
  BY <1>1 DEF XipInv, Handshake
<1>3. rvalid => Granted
  BY DEF XipInv, Handshake
<1> QED
  BY <1>2, <1>3 DEF Paired, Quiet, Queued, Granting, Granted

\* What every edge of the clock does, whatever the state machine does with it.
LEMMA EdgeOfCycle ==
  ASSUME XipInv, NEW d_ready \in BOOLEAN, Cycle(d_ready)
  PROVE  /\ AdapterTypeOK' /\ AllReads' /\ (InReset /\ rst_ni)'
         /\ {gnt_sync, gnt, trig}' \subseteq BOOLEAN
         /\ Quiet /\ ~rvalid => IF ReqO THEN Queued' ELSE Quiet'
         /\ Queued => Granting'
         /\ Granting => Granted'
         /\ Granted => IF rvalid THEN Quiet' ELSE Granted'
         /\ ReqO /\ ~gnt => treq' = treq
         /\ config' \in Configs \cup {DefaultConfig}
         /\ config'.xip = config.xip /\ config'.dummy = config.dummy
         /\ config'.base = config.base
         /\ Leaving' => Leaving
         /\ Leaving' <=> (Leaving /\ ~clr_exip)
         /\ Sent' = Sent /\ Symbols' = Symbols
<1>1. /\ AdapterTypeOK /\ AllReads /\ gnt \in BOOLEAN /\ rvalid \in BOOLEAN /\ rdata \in Word
      /\ trig \in BOOLEAN /\ gnt_sync \in BOOLEAN /\ clr_exip \in BOOLEAN /\ rst_ni \in BOOLEAN
      /\ config \in Configs \cup {DefaultConfig}
  BY DEF XipInv, TypeOK
<1>2. /\ rst_ni /\ AdapterCycle(gnt, rvalid, rdata, d_ready) /\ HostRequest(gnt)
      /\ Grant /\ rst_ni' = rst_ni
      /\ config' = IF clr_exip THEN [config EXCEPT !.exit = FALSE] ELSE config
  BY DEF Cycle
<1>3. Paired /\ (rvalid => Granted)
  BY GrantStages
<1>4. /\ AdapterTypeOK' /\ AllReads'
      /\ sramreqfifo' = IF gnt THEN 1 ELSE IF rvalid THEN 0 ELSE sramreqfifo
      /\ ReqO /\ ~gnt => treq' = treq /\ ReqO'
  BY <1>1, <1>2, <1>3, AdapterEdge
<1>5. /\ Quiet /\ ~rvalid => IF ReqO THEN Queued' ELSE Quiet'
      /\ Queued /\ ~rvalid => Granting'
      /\ Granting /\ ~rvalid => Granted'
      /\ Granted => IF rvalid THEN Quiet' ELSE Granted'
  BY <1>1, <1>2, <1>4, GrantEdge
<1>6. Queued \/ Granting => ~rvalid
  BY <1>3 DEF Queued, Granting, Granted
<1>7. {gnt_sync, gnt, trig}' \subseteq BOOLEAN
  BY <1>1, <1>2 DEF Grant, Triggers, TrigNext, ReqO
<1>8. /\ config' \in Configs \cup {DefaultConfig}
      /\ config'.xip = config.xip /\ config'.dummy = config.dummy
      /\ config'.base = config.base
      /\ config'.exit = (config.exit /\ ~clr_exip)
  <2>1. CASE ~clr_exip
    <3>1. config' = config
      BY <2>1, <1>2
    <3>2. config.exit \in BOOLEAN
      <4>1. EndsXip \in BOOLEAN
        BY FlashAssumption
      <4>2. CASE config \in Configs
        <5>1. config.exit = FALSE \/ config.exit = EndsXip
          BY <4>2 DEF Configs
        <5> QED BY <4>1, <5>1
      <4>3. CASE config = DefaultConfig
        BY <4>3 DEF DefaultConfig
      <4> QED BY <4>2, <4>3, <1>1
    <3> QED BY <2>1, <3>1, <3>2, <1>1
  <2>2. CASE clr_exip /\ config \in Configs
    <3>1. config' = [config EXCEPT !.exit = FALSE]
      BY <2>2, <1>2
    <3> QED BY <2>2, <3>1 DEF Configs
  <2>3. CASE clr_exip /\ config = DefaultConfig
    <3>1. config' = DefaultConfig
      BY <2>3, <1>2 DEF DefaultConfig
    <3> QED BY <2>3, <3>1 DEF DefaultConfig
  <2> QED BY <2>1, <2>2, <2>3, <1>1
<1>9. Leaving' <=> (Leaving /\ ~clr_exip)
  BY <1>8 DEF Leaving
<1>10. Sent' = Sent /\ Symbols' = Symbols
  BY <1>8 DEF Sent, Symbols
<1> QED BY <1>2, <1>4, <1>5, <1>6, <1>7, <1>8, <1>9, <1>10 DEF InReset

-----------------------------------------------------------------------------
(* The state machine, one state at a time.                                  *)

LEMMA Sizes ==
  ASSUME config \in Configs \cup {DefaultConfig}
  PROVE  /\ Sent \in 7 .. 69 /\ Symbols \in {8, 32} /\ Sent + Symbols <= 77
         /\ Clocks \in 9 .. 77 /\ config.base \in Nat /\ config.xip \in BOOLEAN
         /\ AddressSymbols \in 6 .. 32 /\ AddressSymbols <= Sent - (IF config.xip THEN 1 ELSE 0)
<1>1. config.dummy \in 1 .. 63 /\ config.base \in Nat /\ config.xip \in BOOLEAN
  <2>1. CASE config \in Configs
    <3>1. Dummies \subseteq 1 .. 63 /\ Bases \subseteq Nat
      BY FlashAssumption
    <3> QED BY <2>1, <3>1 DEF Configs
  <2>2. CASE config = DefaultConfig
    BY <2>2 DEF DefaultConfig
  <2> QED BY <2>1, <2>2
<1>2. CASE config.xip
  BY <1>1, <1>2 DEF Sent, Symbols, Clocks, AddressSymbols
<1>3. CASE ~config.xip
  BY <1>1, <1>3 DEF Sent, Symbols, Clocks, Leaving, AddressSymbols
<1> QED BY <1>1, <1>2, <1>3

LEMMA AddressOnFlash ==
  ASSUME config \in Configs \cup {DefaultConfig}, NEW a \in Addr
  PROVE  FlashAddr(a) \in 0 .. FlashSize - 1
<1>1. a \in Nat /\ FlashSize \in Nat \ {0} /\ config.base \in Nat
  BY Sizes, FlashAssumption
<1> QED BY <1>1 DEF FlashAddr

\* The registers of the state machine, as TypeOK has them.
LEMMA XipTypes ==
  ASSUME XipInv
  PROVE  /\ config \in Configs \cup {DefaultConfig}
         /\ next_state \in {"IDLE", "TRANSMIT", "TOGGLE", "RECEIVE"}
         /\ cycle_cnt \in 0 .. MaxClocks
         /\ shift_reg \in [addr : 0 .. FlashSize - 1 \cup {Nothing},
                           out : 0 .. MaxClocks, in : 0 .. 32]
         /\ qspi_oe \in {"first", "all", "none"}
         /\ {qspi_csb, clr_exip, rvalid} \subseteq BOOLEAN
         /\ rdata \in Word
         /\ flash \in [edges : Nat, heard : BOOLEAN]
         /\ FlashSize \in Nat \ {0} /\ Nothing \notin Nat
BY FlashAssumption DEF XipInv, TypeOK

LEMMA StartStep ==
  ASSUME XipInv, NEW d_ready \in BOOLEAN, Cycle(d_ready), Start
  PROVE  XipInv'
<1>1. /\ AdapterTypeOK' /\ AllReads' /\ (InReset /\ rst_ni)'
      /\ {gnt_sync, gnt, trig}' \subseteq BOOLEAN
      /\ Quiet /\ ~rvalid => IF ReqO THEN Queued' ELSE Quiet'
      /\ Queued => Granting'
      /\ Granting => Granted'
      /\ Granted => IF rvalid THEN Quiet' ELSE Granted'
      /\ ReqO /\ ~gnt => treq' = treq
      /\ config' \in Configs \cup {DefaultConfig}
      /\ config'.base = config.base
      /\ Leaving' => Leaving
      /\ Leaving' <=> (Leaving /\ ~clr_exip)
  BY EdgeOfCycle
<1>2. /\ next_state = "IDLE" /\ ReqO
      /\ next_state' = "TRANSMIT" /\ cycle_cnt' = 0
      /\ shift_reg' = [addr |-> IF Leaving THEN Nothing ELSE FlashAddr(treq.addr),
                       out |-> 0, in |-> 0]
      /\ qspi_oe' = IF config.xip THEN "all" ELSE "first"
      /\ qspi_csb' = FALSE /\ rvalid' = FALSE
      /\ clr_exip' = clr_exip /\ rdata' = rdata /\ flash' = flash
  BY DEF Start, Cleared
<1>3. /\ ~rvalid /\ (Quiet \/ Queued \/ Granting \/ Granted)
      /\ (clr_exip /\ Leaving => Granted)
  BY <1>2 DEF XipInv, Handshake, Exiting
<1>4. treq.addr \in Addr
  BY <1>2 DEF XipInv, TypeOK, AdapterTypeOK, Request, ReqO
<1>5. FlashAddr(treq.addr) \in 0 .. FlashSize - 1
  BY <1>4, XipTypes, AddressOnFlash
<1>6. Clocks' \in Nat /\ Clocks' >= 1 /\ Sent' \in Nat
  <2>1. Sent' = Sent /\ Symbols' = Symbols
    BY EdgeOfCycle
  <2>2. Sent \in Nat /\ Symbols \in Nat \ {0}
    BY Sizes, XipTypes
  <2> QED BY <2>1, <2>2 DEF Clocks
<1>7. TypeOK'
  <2>1. (shift_reg \in [addr : 0 .. FlashSize - 1 \cup {Nothing},
                        out : 0 .. MaxClocks, in : 0 .. 32])'
    BY <1>2, <1>5 DEF MaxClocks
  <2>2. (rst_ni \in BOOLEAN)'
    BY <1>1
  <2> QED BY <1>1, <1>2, <2>1, <2>2, XipTypes DEF TypeOK, MaxClocks
<1>8. Handshake'
  <2>1. (Granted \/ Queued \/ Granting)'
    BY <1>1, <1>2, <1>3
  <2> QED BY <1>2, <2>1 DEF Handshake
<1>9. Addressed'
  <2> SUFFICES ASSUME (Queued \/ Granting)', ~Leaving'
               PROVE  shift_reg'.addr = FlashAddr(treq.addr)'
    BY DEF Addressed
  <2>1. Quiet \/ Queued
    BY <1>1, <1>3 DEF Queued, Granting, Granted
  <2>2. ~gnt /\ ~Granted
    BY <2>1 DEF Quiet, Queued, Granted
  <2>3. ~Leaving /\ treq' = treq
    BY <2>2, <1>1, <1>2, <1>3
  <2> QED BY <2>3, <1>1, <1>2 DEF FlashAddr
<1>10. Counting' /\ Sampling'
  <2>1. /\ shift_reg'.out = 0 /\ shift_reg'.in = 0
        /\ next_state' = "TRANSMIT" /\ cycle_cnt' = 0
    BY <1>2
  <2>2. shift_reg'.out <= cycle_cnt' /\ shift_reg'.in <= 0 /\ cycle_cnt' \in 0 .. Clocks' - 1
    <3>1. cycle_cnt' \in 0 .. Clocks' - 1
      <4>1. \A n \in Nat : n >= 1 => 0 \in 0 .. n - 1
        OBVIOUS
      <4>2. Clocks' \in Nat /\ Clocks' >= 1 /\ cycle_cnt' = 0
        BY <1>6, <2>1, Zenon
      <4> QED BY <4>1, <4>2, Zenon
    <3>2. shift_reg'.out <= cycle_cnt'
      BY <2>1
    <3>3. shift_reg'.in <= 0
      BY <2>1
    <3> QED BY <3>1, <3>2, <3>3
  <2>3. ~(cycle_cnt' > Sent')
    BY <1>6, <2>1
  <2>4. Counting'
    BY <2>1, <2>2 DEF Counting
  <2>5. Sampling'
    BY <2>2, <2>3 DEF Sampling
  <2> QED BY <2>4, <2>5
<1>11. Hearing'
  <2>1. flash.heard => ~(flash.edges > 0)
    BY <1>2 DEF XipInv, Hearing
  <2> QED BY <1>1, <1>2, <2>1 DEF Hearing, Transferring
<1>12. Exiting'
  BY <1>1, <1>2 DEF Exiting
<1> QED BY <1>1, <1>7, <1>8, <1>9, <1>10, <1>11, <1>12 DEF XipInv

LEMMA TransmitStep ==
  ASSUME XipInv, NEW d_ready \in BOOLEAN, Cycle(d_ready), Transmit
  PROVE  XipInv'
<1>1. /\ AdapterTypeOK' /\ AllReads' /\ (InReset /\ rst_ni)'
      /\ {gnt_sync, gnt, trig}' \subseteq BOOLEAN
      /\ Queued => Granting'
      /\ Granting => Granted'
      /\ Granted => IF rvalid THEN Quiet' ELSE Granted'
      /\ ReqO /\ ~gnt => treq' = treq
      /\ config' \in Configs \cup {DefaultConfig}
      /\ config'.base = config.base
      /\ Leaving' <=> (Leaving /\ ~clr_exip)
      /\ Sent' = Sent /\ Symbols' = Symbols
  BY EdgeOfCycle
<1>2. /\ next_state = "TRANSMIT" /\ next_state' = "TOGGLE"
      /\ cycle_cnt' = (cycle_cnt + 1) % 128
      /\ shift_reg' = IF Shifts THEN [shift_reg EXCEPT !.out = @ + 1, !.in = 0] ELSE shift_reg
      /\ qspi_oe' \in {"first", "none", qspi_oe}
      /\ qspi_csb' = qspi_csb /\ rvalid' = rvalid
      /\ clr_exip' = clr_exip /\ rdata' = rdata /\ flash' = flash
  BY DEF Transmit
<1>3. /\ Sent \in 7 .. 69 /\ Symbols \in {8, 32} /\ Clocks \in 9 .. 77
      /\ cycle_cnt \in 0 .. Clocks - 1
      /\ shift_reg.out \in 0 .. cycle_cnt
      /\ shift_reg.in \in 0 .. 32
      /\ shift_reg.in <= IF cycle_cnt > Sent THEN cycle_cnt - Sent ELSE 0
  <2>1. cycle_cnt \in 0 .. Clocks - 1
    BY <1>2 DEF XipInv, Counting
  <2>2. shift_reg.out \in 0 .. MaxClocks /\ shift_reg.in \in 0 .. 32
    BY XipTypes
  <2>3. shift_reg.out <= cycle_cnt
    BY <1>2 DEF XipInv, Counting, Transferring
  <2>4. shift_reg.in <= IF cycle_cnt > Sent THEN cycle_cnt - Sent ELSE 0
    BY <1>2 DEF XipInv, Sampling, Transferring
  <2>5. Sent \in 7 .. 69 /\ Symbols \in {8, 32} /\ Clocks \in 9 .. 77
    BY Sizes, XipTypes
  <2> QED BY <2>1, <2>2, <2>3, <2>4, <2>5 DEF MaxClocks
<1>4. cycle_cnt' = cycle_cnt + 1 /\ cycle_cnt' \in 1 .. Clocks
  BY <1>2, <1>3
<1>5. ~rvalid /\ ~(clr_exip /\ Leaving)
  BY <1>2 DEF XipInv, Handshake, Exiting
<1>6. (Leaving' <=> Leaving) /\ Clocks' = Clocks
  BY <1>1, <1>5 DEF Clocks
<1>7. /\ shift_reg' \in [addr : 0 .. FlashSize - 1 \cup {Nothing}, out : Nat, in : 0 .. 32]
      /\ shift_reg'.addr = shift_reg.addr
      /\ shift_reg'.out \in 0 .. cycle_cnt'
      /\ shift_reg'.in <= IF cycle_cnt' > Sent THEN cycle_cnt' - 1 - Sent ELSE 0
  <2>1. shift_reg \in [addr : 0 .. FlashSize - 1 \cup {Nothing}, out : Nat, in : 0 .. 32]
    BY XipTypes
  <2>2. CASE Shifts
    <3>1. shift_reg' = [shift_reg EXCEPT !.out = shift_reg.out + 1, !.in = 0]
      BY <1>2, <2>2
    <3>2. /\ shift_reg'.addr = shift_reg.addr /\ shift_reg'.out = shift_reg.out + 1
          /\ shift_reg'.in = 0
      BY <2>1, <3>1
    <3>3. shift_reg' \in [addr : 0 .. FlashSize - 1 \cup {Nothing}, out : Nat, in : 0 .. 32]
      <4>1. shift_reg.out + 1 \in Nat /\ shift_reg.addr \in 0 .. FlashSize - 1 \cup {Nothing}
        BY <2>1
      <4>2. shift_reg' = [addr |-> shift_reg.addr, out |-> shift_reg.out + 1, in |-> 0]
        BY <2>1, <3>1
      <4> QED BY <4>1, <4>2
    <3> QED BY <3>2, <3>3, <1>3, <1>4
  <2>3. CASE ~Shifts
    <3>1. shift_reg' = shift_reg
      BY <1>2, <2>3
    <3>2. shift_reg.in <= IF cycle_cnt' > Sent THEN cycle_cnt' - 1 - Sent ELSE 0
      BY <1>3, <1>4
    <3> QED BY <3>1, <3>2, <2>1, <1>3, <1>4
  <2> QED BY <2>2, <2>3
<1>8. TypeOK'
  <2>1. cycle_cnt' \in 0 .. MaxClocks /\ shift_reg'.out \in 0 .. MaxClocks
    BY <1>3, <1>4, <1>7 DEF MaxClocks
  <2>2. (shift_reg \in [addr : 0 .. FlashSize - 1 \cup {Nothing},
                        out : 0 .. MaxClocks, in : 0 .. 32])'
    BY <1>7, <2>1
  <2>3. (rst_ni \in BOOLEAN)'
    BY <1>1
  <2> QED BY <1>1, <1>2, <2>1, <2>2, <2>3, XipTypes DEF TypeOK
<1>9. Handshake'
  <2>1. Granted \/ (cycle_cnt = 0 /\ (Queued \/ Granting))
    BY <1>2 DEF XipInv, Handshake
  <2>2. Granted' \/ (cycle_cnt' = 1 /\ Granting')
    BY <1>1, <1>3, <1>4, <1>5, <2>1
  <2> QED BY <1>2, <1>5, <2>2 DEF Handshake
<1>10. Addressed'
  <2> SUFFICES ASSUME (Queued \/ Granting)', ~Leaving'
               PROVE  shift_reg'.addr = FlashAddr(treq.addr)'
    BY DEF Addressed
  <2>1. Queued
    <3>1. Granted \/ Queued \/ Granting
      BY <1>2 DEF XipInv, Handshake
    <3> QED BY <3>1, <1>1, <1>5 DEF Queued, Granting, Granted
  <2>2. shift_reg.addr = FlashAddr(treq.addr) /\ treq' = treq
    BY <2>1, <1>1, <1>2, <1>6 DEF XipInv, Addressed, Transferring, Queued
  <2> QED BY <2>2, <1>1, <1>7 DEF FlashAddr
<1>11. Counting' /\ Sampling'
  <2>1. shift_reg'.out <= cycle_cnt'
    BY <1>4, <1>7, <1>3
  <2>2. Counting'
    BY <1>2, <1>4, <1>6, <2>1 DEF Counting
  <2>3. Sampling'
    BY <1>1, <1>2, <1>7 DEF Sampling
  <2> QED BY <2>2, <2>3
<1>12. Hearing'
  BY <1>2, <1>6, <1>7 DEF XipInv, Hearing, Transferring
<1>13. Exiting'
  BY <1>2, <1>5, <1>6 DEF Exiting
<1> QED BY <1>1, <1>8, <1>9, <1>10, <1>11, <1>12, <1>13 DEF XipInv

LEMMA RestStep ==
  ASSUME XipInv, NEW d_ready \in BOOLEAN, Cycle(d_ready), Rest
  PROVE  XipInv'
<1>1. /\ AdapterTypeOK' /\ AllReads' /\ (InReset /\ rst_ni)'
      /\ {gnt_sync, gnt, trig}' \subseteq BOOLEAN
      /\ Quiet /\ ~rvalid => IF ReqO THEN Queued' ELSE Quiet'
      /\ Queued => Granting'
      /\ Granting => Granted'
      /\ Granted => IF rvalid THEN Quiet' ELSE Granted'
      /\ config' \in Configs \cup {DefaultConfig}
  BY EdgeOfCycle
<1>2. /\ next_state = "IDLE" /\ next_state' = "IDLE"
      /\ cycle_cnt' = 0
      /\ shift_reg' = [addr |-> Nothing, out |-> 0, in |-> 0]
      /\ qspi_oe' = "first" /\ qspi_csb' = TRUE /\ clr_exip' = FALSE /\ rvalid' = FALSE
      /\ flash' = [edges |-> 0, heard |-> TRUE]
      /\ rdata' = rdata
  BY DEF Rest, Cleared, Deselected
<1>3. ~rvalid /\ (Quiet \/ Queued \/ Granting \/ Granted)
  BY <1>2 DEF XipInv, Handshake
<1>4. TypeOK'
  <2>1. (rst_ni \in BOOLEAN)'
    BY <1>1
  <2>2. (shift_reg \in [addr : 0 .. FlashSize - 1 \cup {Nothing},
                        out : 0 .. MaxClocks, in : 0 .. 32])'
    BY <1>2 DEF MaxClocks
  <2>3. (cycle_cnt \in 0 .. MaxClocks /\ flash \in [edges : Nat, heard : BOOLEAN])'
    BY <1>2 DEF MaxClocks
  <2> QED BY <1>1, <1>2, <2>1, <2>2, <2>3, XipTypes DEF TypeOK
<1>5. Handshake'
  BY <1>1, <1>2, <1>3 DEF Handshake
<1>6. Addressed' /\ Counting' /\ Sampling' /\ Hearing' /\ Exiting'
  BY <1>2 DEF Addressed, Counting, Sampling, Hearing, Exiting, Transferring
<1> QED BY <1>1, <1>4, <1>5, <1>6 DEF XipInv

LEMMA ToggleStep ==
  ASSUME XipInv, NEW d_ready \in BOOLEAN, Cycle(d_ready), Toggle
  PROVE  XipInv'
<1>1. /\ AdapterTypeOK' /\ AllReads' /\ (InReset /\ rst_ni)'
      /\ {gnt_sync, gnt, trig}' \subseteq BOOLEAN
      /\ Granting => Granted'
      /\ Granted => IF rvalid THEN Quiet' ELSE Granted'
      /\ config' \in Configs \cup {DefaultConfig}
      /\ Leaving' <=> (Leaving /\ ~clr_exip)
      /\ Sent' = Sent /\ Symbols' = Symbols
  BY EdgeOfCycle
<1>2. /\ next_state = "TOGGLE"
      /\ next_state' = IF ~LastClock THEN "TRANSMIT" ELSE IF Leaving THEN "IDLE" ELSE "RECEIVE"
      /\ cycle_cnt' = IF LastClock THEN 0 ELSE cycle_cnt
      /\ shift_reg' = IF Samples
                      THEN [shift_reg EXCEPT !.in = IF Driven = @ + 1 THEN @ + 1 ELSE 0]
                      ELSE shift_reg
      /\ clr_exip' = (clr_exip \/ (LastClock /\ Leaving))
      /\ flash' = [edges |-> flash.edges + 1,
                   heard |-> flash.heard /\ (flash.edges < AddressSymbols => Hears)]
      /\ qspi_oe' = qspi_oe /\ qspi_csb' = qspi_csb /\ rvalid' = rvalid /\ rdata' = rdata
  BY DEF Toggle
<1>3. /\ Sent \in 7 .. 69 /\ Symbols \in {8, 32} /\ Clocks \in 9 .. 77
      /\ cycle_cnt \in 1 .. Clocks
      /\ shift_reg.out \in 0 .. cycle_cnt
      /\ shift_reg.in \in 0 .. 32
      /\ shift_reg.in <= IF cycle_cnt > Sent THEN cycle_cnt - 1 - Sent ELSE 0
  <2>1. cycle_cnt \in 1 .. Clocks
    BY <1>2 DEF XipInv, Counting
  <2>2. shift_reg.out \in 0 .. MaxClocks /\ shift_reg.in \in 0 .. 32
    BY XipTypes
  <2>3. shift_reg.out <= cycle_cnt
    BY <1>2 DEF XipInv, Counting, Transferring
  <2>4. shift_reg.in <= IF cycle_cnt > Sent THEN cycle_cnt - 1 - Sent ELSE 0
    BY <1>2 DEF XipInv, Sampling, Transferring
  <2>5. Sent \in 7 .. 69 /\ Symbols \in {8, 32} /\ Clocks \in 9 .. 77
    BY Sizes, XipTypes
  <2> QED BY <2>1, <2>2, <2>3, <2>4, <2>5 DEF MaxClocks
<1>4. LastClock <=> cycle_cnt = Clocks
  BY DEF LastClock, Clocks
<1>5. ~rvalid /\ ~(clr_exip /\ Leaving)
  BY <1>2 DEF XipInv, Handshake, Exiting
<1>6. Granted' /\ (LastClock => Granted)
  <2>1. Granted \/ (cycle_cnt = 1 /\ Granting)
    BY <1>2 DEF XipInv, Handshake
  <2> QED BY <2>1, <1>1, <1>3, <1>4, <1>5
<1>7. (Leaving' <=> Leaving) /\ Clocks' = Clocks
  BY <1>1, <1>5 DEF Clocks
<1>8. /\ shift_reg' \in [addr : 0 .. FlashSize - 1 \cup {Nothing}, out : 0 .. MaxClocks, in : 0 .. 32]
      /\ shift_reg'.addr = shift_reg.addr
      /\ shift_reg'.out = shift_reg.out
      /\ shift_reg'.in <= IF cycle_cnt > Sent THEN cycle_cnt - Sent ELSE 0
  <2>1. shift_reg \in [addr : 0 .. FlashSize - 1 \cup {Nothing}, out : 0 .. MaxClocks, in : 0 .. 32]
    BY XipTypes
  <2>2. CASE Samples
    <3>1. cycle_cnt > Sent /\ ~Leaving /\ cycle_cnt - Sent <= 32
      BY <2>2, <1>3 DEF Samples, Clocks
    <3>2. PICK n \in {shift_reg.in + 1, 0} :
            shift_reg' = [shift_reg EXCEPT !.in = n]
      BY <1>2, <2>2
    <3>3. n \in 0 .. 32 /\ n <= cycle_cnt - Sent
      BY <1>3, <3>1
    <3>4. shift_reg' = [addr |-> shift_reg.addr, out |-> shift_reg.out, in |-> n]
      BY <2>1, <3>2
    <3>5. shift_reg.addr \in 0 .. FlashSize - 1 \cup {Nothing} /\ shift_reg.out \in 0 .. MaxClocks
      BY <2>1
    <3> QED BY <3>1, <3>3, <3>4, <3>5
  <2>3. CASE ~Samples
    <3>1. shift_reg' = shift_reg
      BY <1>2, <2>3
    <3>2. shift_reg.in <= IF cycle_cnt > Sent THEN cycle_cnt - Sent ELSE 0
      BY <1>3
    <3> QED BY <3>1, <3>2, <2>1
  <2> QED BY <2>2, <2>3
<1>9. /\ flash' \in [edges : Nat, heard : BOOLEAN] /\ flash'.edges > 0
      /\ flash'.heard => shift_reg.addr # Nothing
  <2>1. flash.edges \in Nat /\ flash.heard \in BOOLEAN
    BY XipTypes
  <2>2. flash'.edges = flash.edges + 1
    BY <1>2
  <2>3. flash'.heard = (flash.heard /\ (flash.edges < AddressSymbols => Hears))
    BY <1>2
  <2>4. Hears \in BOOLEAN
    BY DEF Hears
  <2>5. flash' \in [edges : Nat, heard : BOOLEAN]
    <3> DEFINE h == flash.heard /\ (flash.edges < AddressSymbols => Hears)
               n == flash.edges + 1
    <3>1. flash' = [edges |-> n, heard |-> h] /\ h \in BOOLEAN /\ n \in Nat
      BY <1>2, <2>1, <2>4
    <3> HIDE DEF h, n
    <3> QED BY <3>1
  <2>6. ASSUME flash'.heard PROVE shift_reg.addr # Nothing
    <3>1. CASE flash.edges > 0
      BY <2>3, <2>6, <3>1, <1>2 DEF XipInv, Hearing
    <3>2. CASE ~(flash.edges > 0)
      <4>1. flash.edges < AddressSymbols
        BY <3>2, <2>1 DEF AddressSymbols
      <4> QED BY <2>3, <2>6, <4>1 DEF Hears
    <3> QED BY <3>1, <3>2
  <2> QED BY <2>1, <2>2, <2>5, <2>6
<1>10. TypeOK'
  <2>1. cycle_cnt' \in 0 .. MaxClocks
    BY <1>2, XipTypes DEF MaxClocks
  <2>2. (rst_ni \in BOOLEAN)' /\ clr_exip' \in BOOLEAN
    BY <1>1, <1>2
  <2>3. next_state' \in {"IDLE", "TRANSMIT", "TOGGLE", "RECEIVE"}
    BY <1>2
  <2>4. /\ qspi_oe' \in {"first", "all", "none"} /\ {qspi_csb', rvalid'} \subseteq BOOLEAN
        /\ rdata' \in Word
    BY <1>2, XipTypes
  <2> QED BY <1>1, <1>8, <1>9, <2>1, <2>2, <2>3, <2>4 DEF TypeOK
<1>11. CASE ~LastClock
  <2>1. next_state' = "TRANSMIT" /\ cycle_cnt' = cycle_cnt /\ clr_exip' = clr_exip
    BY <1>2, <1>11, XipTypes
  <2>2. cycle_cnt' \in 0 .. Clocks - 1
    BY <2>1, <1>3, <1>4, <1>11
  <2>3. Handshake' /\ Addressed'
    BY <1>2, <1>5, <1>6, <2>1 DEF Handshake, Addressed, Queued, Granting, Granted
  <2>4. Counting'
    BY <2>1, <2>2, <1>3, <1>7, <1>8 DEF Counting
  <2>5. Sampling'
    BY <2>1, <1>1, <1>8 DEF Sampling
  <2>6. Hearing'
    BY <2>1, <1>2, <1>7, <1>8, <1>9 DEF XipInv, Hearing, Transferring
  <2>7. Exiting'
    BY <2>1, <1>5, <1>7 DEF Exiting
  <2> QED BY <1>1, <1>10, <2>3, <2>4, <2>5, <2>6, <2>7 DEF XipInv
<1>12. CASE LastClock /\ Leaving
  <2>1. next_state' = "IDLE" /\ cycle_cnt' = 0
    BY <1>2, <1>12
  <2>2. ~flash'.heard
    BY <1>2, <1>9, <1>12 DEF XipInv, Hearing, Transferring
  <2> QED BY <1>1, <1>2, <1>5, <1>6, <1>10, <2>1, <2>2
          DEF XipInv, Handshake, Addressed, Counting, Sampling, Hearing, Exiting, Transferring
<1>13. CASE LastClock /\ ~Leaving
  <2>1. next_state' = "RECEIVE" /\ cycle_cnt' = 0
    BY <1>2, <1>13
  <2>2. Handshake' /\ Addressed' /\ Exiting'
    BY <1>2, <1>5, <1>6, <1>7, <1>13, <2>1
    DEF Handshake, Addressed, Exiting, Transferring, Granted, Quiet, Queued
  <2>3. Counting' /\ Sampling'
    BY <2>1 DEF Counting, Sampling, Transferring, Gap
  <2>4. Hearing'
    BY <2>1, <1>8, <1>9 DEF Hearing, Transferring
  <2> QED BY <1>1, <1>10, <2>2, <2>3, <2>4 DEF XipInv
<1> QED BY <1>11, <1>12, <1>13

LEMMA ReceiveStep ==
  ASSUME XipInv, NEW d_ready \in BOOLEAN, Cycle(d_ready), Receive
  PROVE  XipInv'
<1>1. /\ AdapterTypeOK' /\ AllReads' /\ (InReset /\ rst_ni)'
      /\ {gnt_sync, gnt, trig}' \subseteq BOOLEAN
      /\ Quiet /\ ~rvalid => IF ReqO THEN Queued' ELSE Quiet'
      /\ Queued => Granting'
      /\ Granted => IF rvalid THEN Quiet' ELSE Granted'
      /\ config' \in Configs \cup {DefaultConfig}
      /\ Leaving' <=> (Leaving /\ ~clr_exip)
  BY EdgeOfCycle
<1>2. /\ next_state = "RECEIVE"
      /\ next_state' = IF cycle_cnt # 3 THEN "RECEIVE" ELSE "IDLE"
      /\ cycle_cnt' = IF cycle_cnt # 3 THEN cycle_cnt + 1 ELSE 0
      /\ qspi_csb' = TRUE
      /\ IF cycle_cnt = 0 THEN rdata' \in Received ELSE rdata' = rdata
      /\ rvalid' = (cycle_cnt = 0)
      /\ flash' = [edges |-> 0, heard |-> TRUE]
      /\ shift_reg' = shift_reg /\ qspi_oe' = qspi_oe /\ clr_exip' = clr_exip
  BY DEF Receive, Gap, Deselected
<1>0. /\ next_state' = IF cycle_cnt # 3 THEN "RECEIVE" ELSE "IDLE"
      /\ cycle_cnt' = IF cycle_cnt # 3 THEN cycle_cnt + 1 ELSE 0
      /\ rvalid' <=> cycle_cnt = 0
  BY <1>2, Zenon
<1>3. cycle_cnt \in 0 .. 3 /\ (rvalid <=> cycle_cnt = 1)
  BY <1>2 DEF XipInv, Counting, Gap, Handshake
<1>4. ~(clr_exip /\ Leaving)
  BY <1>2 DEF XipInv, Exiting
<1>5. rdata' \in Word
  <2>1. CASE cycle_cnt = 0
    <3>1. flash.heard => shift_reg.addr \in 0 .. FlashSize - 1
      BY <1>2, <2>1, XipTypes DEF XipInv, Hearing
    <3>2. Flash \in [0 .. FlashSize - 1 -> Word]
      BY FlashAssumption
    <3> QED BY <1>2, <2>1, <3>1, <3>2 DEF Received
  <2>2. CASE cycle_cnt # 0
    BY <1>2, <2>2, XipTypes
  <2> QED BY <2>1, <2>2
<1>6. TypeOK'
  <2>1. cycle_cnt' \in 0 .. MaxClocks
    BY <1>2, <1>3 DEF MaxClocks
  <2>2. (rst_ni \in BOOLEAN)'
    BY <1>1
  <2>3. next_state' \in {"IDLE", "TRANSMIT", "TOGGLE", "RECEIVE"}
    BY <1>2
  <2>4. {qspi_csb', rvalid', clr_exip'} \subseteq BOOLEAN
    BY <1>2, XipTypes
  <2>5. flash' \in [edges : Nat, heard : BOOLEAN]
    BY <1>2
  <2> QED BY <1>1, <1>2, <1>5, <2>1, <2>2, <2>3, <2>4, <2>5, XipTypes DEF TypeOK
<1>7. Handshake'
  <2>1. CASE cycle_cnt = 0
    <3>1. Granted'
      BY <1>1, <1>2, <1>3, <2>1 DEF XipInv, Handshake
    <3>2. next_state' = "RECEIVE" /\ cycle_cnt' = 1 /\ rvalid'
      BY <1>0, <2>1
    <3> QED BY <3>1, <3>2 DEF Handshake
  <2>2. CASE cycle_cnt = 1
    <3>1. Quiet'
      BY <1>1, <1>2, <1>3, <2>2 DEF XipInv, Handshake
    <3>2. next_state' = "RECEIVE" /\ cycle_cnt' = 2 /\ ~rvalid'
      BY <1>0, <2>2
    <3> QED BY <3>1, <3>2 DEF Handshake
  <2>3. CASE cycle_cnt = 2
    <3>1. (Quiet \/ Queued)'
      BY <1>1, <1>2, <1>3, <2>3 DEF XipInv, Handshake
    <3>2. next_state' = "RECEIVE" /\ cycle_cnt' = 3 /\ ~rvalid'
      BY <1>0, <2>3
    <3> QED BY <3>1, <3>2 DEF Handshake
  <2>4. CASE cycle_cnt = 3
    <3>1. (Quiet \/ Queued \/ Granting)'
      BY <1>1, <1>2, <1>3, <2>4 DEF XipInv, Handshake
    <3>2. next_state' = "IDLE" /\ cycle_cnt' = 0 /\ ~rvalid'
      BY <1>0, <2>4
    <3> QED BY <3>1, <3>2 DEF Handshake
  <2> QED BY <1>3, <2>1, <2>2, <2>3, <2>4
<1>8. Counting' /\ Sampling' /\ Addressed'
  BY <1>2, <1>3 DEF Counting, Sampling, Addressed, Transferring, Gap
<1>9. Hearing'
  BY <1>2, <1>3 DEF Hearing, Transferring
<1>10. Exiting'
  BY <1>1, <1>2, <1>4 DEF Exiting
<1> QED BY <1>1, <1>6, <1>7, <1>8, <1>9, <1>10 DEF XipInv

\* The state machine at rest, in reset or out of it.
LEMMA AtRest ==
  ASSUME TypeOK, AllReads, InReset, Quiet, next_state = "IDLE", cycle_cnt = 0,
         ~rvalid, ~clr_exip, flash.heard => flash.edges = 0
  PROVE  XipInv
BY DEF XipInv, Handshake, Addressed, Counting, Sampling, Hearing, Exiting, Transferring

LEMMA NothingHeld ==
  /\ reqfifo = <<>> /\ rspfifo = <<>> /\ sramreqfifo = 0 /\ got = Nothing
  /\ treq \in Request \cup {Nothing}
  => AdapterTypeOK /\ AllReads
<1> SUFFICES ASSUME reqfifo = <<>>, rspfifo = <<>>, sramreqfifo = 0, got = Nothing,
                    treq \in Request \cup {Nothing}
             PROVE  AdapterTypeOK /\ AllReads
  OBVIOUS
<1>1. reqfifo \in Seq(Ops) /\ Len(reqfifo) = 0 /\ rspfifo \in Seq(Word) /\ Len(rspfifo) = 0
  BY EmptySeq
<1>2. Outstanding \in Nat
  BY OutstandingAssumption
<1>3. AllReads
  BY <1>1 DEF AllReads
<1> QED
  BY <1>1, <1>2, <1>3 DEF AdapterTypeOK

LEMMA InitHolds == Init => XipInv
<1> SUFFICES ASSUME Init PROVE XipInv
  OBVIOUS
<1>1. /\ AdapterInit /\ rst_ni = TRUE /\ config \in Configs
      /\ gnt_sync = FALSE /\ gnt = FALSE /\ trig = FALSE
      /\ next_state = "IDLE" /\ cycle_cnt = 0
      /\ shift_reg = [addr |-> Nothing, out |-> 0, in |-> 0]
      /\ qspi_oe = "first" /\ qspi_csb = TRUE /\ clr_exip = FALSE
      /\ rvalid = FALSE /\ rdata = Zero
      /\ flash = [edges |-> 0, heard |-> TRUE]
  BY DEF Init, Cleared, Deselected
<1>2. AdapterTypeOK /\ AllReads /\ sramreqfifo = 0
  BY <1>1, NothingHeld DEF AdapterInit
<1>3. TypeOK
  <2>1. /\ shift_reg \in [addr : 0 .. FlashSize - 1 \cup {Nothing}, out : 0 .. MaxClocks, in : 0 .. 32]
        /\ cycle_cnt \in 0 .. MaxClocks /\ flash \in [edges : Nat, heard : BOOLEAN]
    BY <1>1 DEF MaxClocks
  <2> QED BY <1>1, <1>2, <2>1, ZeroIsWord DEF TypeOK
<1> QED
  BY <1>1, <1>2, <1>3, AtRest DEF InReset, Quiet

LEMMA ResetStep == XipInv /\ Reset => XipInv'
<1> SUFFICES ASSUME XipInv, Reset PROVE XipInv'
  OBVIOUS
<1>1. /\ treq' = Nothing /\ reqfifo' = <<>> /\ sramreqfifo' = 0 /\ rspfifo' = <<>>
      /\ got' = Nothing /\ rst_ni' = FALSE /\ config' = config
      /\ gnt_sync' = FALSE /\ gnt' = FALSE /\ trig' = FALSE
      /\ next_state' = "IDLE" /\ cycle_cnt' = 0
      /\ shift_reg' = [addr |-> Nothing, out |-> 0, in |-> 0]
      /\ qspi_oe' = "first" /\ qspi_csb' = TRUE /\ clr_exip' = FALSE
      /\ rvalid' = FALSE /\ rdata' = Zero
      /\ flash' = [edges |-> 0, heard |-> TRUE]
  BY DEF Reset, Cleared, Deselected
<1>2. AdapterTypeOK' /\ AllReads'
  <2>1. /\ (reqfifo = <<>>)' /\ (rspfifo = <<>>)' /\ (sramreqfifo = 0)' /\ (got = Nothing)'
        /\ (treq \in Request \cup {Nothing})'
    BY <1>1
  <2> QED BY <2>1, NothingHeld, PTL
<1>3. TypeOK'
  <2>1. /\ shift_reg' \in [addr : 0 .. FlashSize - 1 \cup {Nothing}, out : 0 .. MaxClocks, in : 0 .. 32]
        /\ cycle_cnt' \in 0 .. MaxClocks /\ flash' \in [edges : Nat, heard : BOOLEAN]
    BY <1>1 DEF MaxClocks
  <2> QED BY <1>1, <1>2, <2>1, ZeroIsWord, XipTypes DEF TypeOK
<1>4. (InReset /\ Quiet)'
  BY <1>1 DEF InReset, Quiet
<1>5. /\ Handshake' /\ Addressed' /\ Counting' /\ Sampling' /\ Hearing' /\ Exiting'
  BY <1>1, <1>4 DEF Handshake, Addressed, Counting, Sampling, Hearing, Exiting, Transferring
<1> QED
  BY <1>2, <1>3, <1>4, <1>5 DEF XipInv

LEMMA ConfigureStep == XipInv /\ Configure => XipInv'
<1> SUFFICES ASSUME XipInv, Configure PROVE XipInv'
  OBVIOUS
<1>1. /\ ~rst_ni /\ config' \in Configs \cup {DefaultConfig}
      /\ UNCHANGED <<treq, reqfifo, sramreqfifo, rspfifo, got, rst_ni,
                     gnt_sync, gnt, trig, next_state, cycle_cnt, shift_reg, qspi_oe,
                     qspi_csb, clr_exip, rvalid, rdata, flash>>
  BY DEF Configure, adapterVars, grantVars, xipVars
<1>2. next_state = "IDLE" /\ Quiet /\ ~clr_exip
  BY <1>1 DEF XipInv, InReset
<1>3. TypeOK' /\ AllReads'
  BY <1>1 DEF XipInv, TypeOK, AdapterTypeOK, AllReads
<1>4. Handshake' /\ (InReset /\ Quiet)'
  BY <1>1, <1>2 DEF XipInv, Handshake, InReset, Quiet, Queued, Granting, Granted, ReqO, ReqReady
<1>5. Addressed' /\ Counting' /\ Sampling' /\ Hearing' /\ Exiting'
  BY <1>1, <1>2 DEF XipInv, Addressed, Counting, Sampling, Hearing, Exiting, Transferring
<1> QED
  BY <1>3, <1>4, <1>5 DEF XipInv

\* Out of reset only rst_ni changes.
LEMMA ReleaseStep ==
  ASSUME XipInv,
         UNCHANGED <<adapterVars, config, grantVars, xipVars, flash>>,
         rst_ni' = TRUE \/ rst_ni' = rst_ni
  PROVE  XipInv'
<1>1. UNCHANGED <<treq, reqfifo, sramreqfifo, rspfifo, got, config,
                  gnt_sync, gnt, trig, next_state, cycle_cnt, shift_reg, qspi_oe,
                  qspi_csb, clr_exip, rvalid, rdata, flash>>
  BY DEF adapterVars, grantVars, xipVars
<1>2. TypeOK' /\ AllReads'
  BY <1>1 DEF XipInv, TypeOK, AdapterTypeOK, AllReads
<1>3. Handshake' /\ InReset'
  BY <1>1 DEF XipInv, Handshake, InReset, Quiet, Queued, Granting, Granted, ReqO, ReqReady
<1>4. Leaving' = Leaving /\ Sent' = Sent /\ Clocks' = Clocks
  BY <1>1 DEF Leaving, Sent, Clocks, Symbols
<1>5. Addressed'
  BY <1>1, <1>4 DEF XipInv, Addressed, Transferring, Queued, Granting, ReqO, ReqReady, FlashAddr
<1>6. Counting' /\ Sampling'
  BY <1>1, <1>4 DEF XipInv, Counting, Sampling, Transferring
<1>7. Hearing' /\ Exiting'
  BY <1>1, <1>4 DEF XipInv, Hearing, Exiting, Transferring, Granted
<1> QED
  BY <1>2, <1>3, <1>5, <1>6, <1>7 DEF XipInv

LEMMA StepHolds == XipInv /\ [Next]_vars => XipInv'
<1> SUFFICES ASSUME XipInv, [Next]_vars PROVE XipInv'
  OBVIOUS
<1>1. ASSUME NEW d_ready \in HostReady, Cycle(d_ready)
      PROVE  XipInv'
  <2>1. d_ready \in BOOLEAN
    BY ReadyAssumption
  <2>2. Start \/ Rest \/ Transmit \/ Toggle \/ Receive
    BY <1>1 DEF Cycle, Xip
  <2> QED
    BY <1>1, <2>1, <2>2, StartStep, RestStep, TransmitStep, ToggleStep, ReceiveStep
<1>2. CASE Reset
  BY <1>2, ResetStep
<1>3. CASE Configure
  BY <1>3, ConfigureStep
<1>4. CASE Release \/ UNCHANGED vars
  BY <1>4, ReleaseStep DEF Release, vars
<1> QED
  BY <1>1, <1>2, <1>3, <1>4 DEF Next

-----------------------------------------------------------------------------
\* The registers of the controller and the adapter stay typed, whatever is configured:
\* no FIFO overflows and no counter leaves the range of its transfer.
THEOREM FlashTypeCorrect == Spec => []TypeOK
<1>1. XipInv => TypeOK
  BY DEF XipInv
<1> QED
  BY InitHolds, StepHolds, <1>1, PTL DEF Spec

LEMMA GrantIsMet == XipInv => GrantMeetsTransfer
<1> SUFFICES ASSUME XipInv PROVE GrantMeetsTransfer
  OBVIOUS
<1>1. /\ next_state \in {"IDLE", "TRANSMIT", "TOGGLE", "RECEIVE"}
      /\ next_state = "RECEIVE" => cycle_cnt \in 0 .. 3
      /\ treq \in Request \cup {Nothing} /\ reqfifo \in Seq(Ops)
      /\ Outstanding \in Nat \ {0}
  BY OutstandingAssumption DEF XipInv, TypeOK, AdapterTypeOK, Counting, Gap
<1>2. /\ Quiet \/ Queued \/ Granting \/ Granted
      /\ rvalid => Granted
  BY GrantStages
<1>3. gnt => Granting
  BY <1>2 DEF Quiet, Queued, Granting, Granted
<1>4. gnt => next_state # "RECEIVE"
  BY <1>1, <1>3 DEF XipInv, Handshake, Quiet, Queued, Granting, Granted
<1>5. ASSUME gnt, next_state # "IDLE"
      PROVE  cycle_cnt <= 1 /\ (Leaving \/ shift_reg.addr = FlashAddr(treq.addr))
  <2>1. Transferring /\ cycle_cnt \in {0, 1}
    BY <1>1, <1>3, <1>4, <1>5 DEF XipInv, Handshake, Transferring, Granting, Granted
  <2> QED
    BY <1>3, <1>5, <2>1 DEF XipInv, Addressed
<1>6. gnt => AAck(gnt)
  BY <1>1, <1>3 DEF Granting, AAck, AReady, ReqO, SramReqReady
<1>7. Len(rspfifo) + sramreqfifo = Reads(reqfifo)
  BY <1>1, ReadsOfFetches DEF XipInv, AllReads
<1>8. (rvalid => sramreqfifo = 1) /\ (sramreqfifo = 1 => trig)
  BY <1>2 DEF Quiet, Queued, Granting, Granted
<1> QED
  BY <1>4, <1>5, <1>6, <1>7, <1>8 DEF GrantMeetsTransfer

\* The grant pulse always meets the transfer of the request it grants, and each
\* answer of the flash the one read in flight, in either mode, back to back, and also
\* when XIP mode is being left.
THEOREM GrantsAreMet == Spec => []GrantMeetsTransfer
BY InitHolds, StepHolds, GrantIsMet, PTL DEF Spec

-----------------------------------------------------------------------------
(* The controller and the flash in step, while XIP mode is never left.      *)

Edges == IF next_state = "TOGGLE" THEN cycle_cnt - 1 ELSE cycle_cnt

\* In a transfer the clock edges the flash has counted, the shifts and the samples
\* are those of the counter, and the wires change hands when all is sent.
InStep ==
  /\ flash.heard /\ flash.edges = Edges
  /\ cycle_cnt <= Sent => shift_reg.out = IF cycle_cnt = 0 THEN 0 ELSE cycle_cnt - 1
  /\ shift_reg.in = IF Edges > Sent THEN Edges - Sent ELSE 0
  /\ qspi_oe = IF ~config.xip THEN "first" ELSE IF cycle_cnt >= Sent THEN "none" ELSE "all"

Timed ==
  /\ ~clr_exip
  /\ next_state = "IDLE" => qspi_csb /\ ~Granted /\ flash.edges = 0 /\ flash.heard
  /\ next_state # "IDLE" => shift_reg.addr \in 0 .. FlashSize - 1
  /\ Transferring => InStep
  /\ next_state = "RECEIVE" =>
       /\ cycle_cnt = 0 => /\ flash.heard /\ shift_reg.in = Symbols
                           /\ qspi_oe = IF config.xip THEN "none" ELSE "first"
       /\ cycle_cnt = 1 => rdata = Flash[shift_reg.addr]
       /\ cycle_cnt > 0 => qspi_csb

LEMMA NeverLeaving ==
  ASSUME ~EndsXip, XipInv
  PROVE  ~Leaving
<1>1. config \in Configs \cup {DefaultConfig}
  BY XipTypes
<1>2. CASE config \in Configs
  <2>1. config.exit = FALSE \/ config.exit = EndsXip
    BY <1>2 DEF Configs
  <2> QED BY <2>1 DEF Leaving
<1>3. CASE config = DefaultConfig
  BY <1>3 DEF Leaving, DefaultConfig
<1> QED BY <1>1, <1>2, <1>3

LEMMA StartInTime ==
  ASSUME ~EndsXip, XipInv, Timed, Start, config' = config
  PROVE  Timed'
<1>1. ~Leaving
  BY NeverLeaving
<1>2. /\ next_state = "IDLE" /\ ReqO
      /\ next_state' = "TRANSMIT" /\ cycle_cnt' = 0
      /\ shift_reg' = [addr |-> FlashAddr(treq.addr), out |-> 0, in |-> 0]
      /\ qspi_oe' = IF config.xip THEN "all" ELSE "first"
      /\ clr_exip' = clr_exip /\ flash' = flash
  BY <1>1 DEF Start, Cleared
<1>3. FlashAddr(treq.addr) \in 0 .. FlashSize - 1
  <2>1. treq.addr \in Addr
    BY <1>2 DEF XipInv, TypeOK, AdapterTypeOK, Request, ReqO
  <2> QED BY <2>1, XipTypes, AddressOnFlash
<1>4. ~clr_exip /\ flash.heard /\ flash.edges = 0
  BY <1>2 DEF Timed
<1>5. Sent' = Sent /\ Sent \in Nat /\ Sent > 0
  <2>1. Sent \in 7 .. 69
    BY Sizes, XipTypes
  <2>2. Sent' = Sent
    BY DEF Sent
  <2> QED BY <2>1, <2>2
<1>6. InStep'
  <2>1. Edges' = 0
    BY <1>2 DEF Edges
  <2>2. shift_reg'.out = 0 /\ shift_reg'.in = 0
    BY <1>2
  <2>3. qspi_oe' = IF ~config'.xip THEN "first" ELSE IF cycle_cnt' >= Sent' THEN "none" ELSE "all"
    BY <1>2, <1>5
  <2> QED BY <1>2, <1>4, <1>5, <2>1, <2>2, <2>3 DEF InStep
<1> QED BY <1>2, <1>3, <1>4, <1>6 DEF Timed

LEMMA TransmitInTime ==
  ASSUME ~EndsXip, XipInv, Timed, Transmit, config' = config
  PROVE  Timed'
<1>1. ~Leaving
  BY NeverLeaving
<1>2. /\ next_state = "TRANSMIT" /\ next_state' = "TOGGLE"
      /\ cycle_cnt' = (cycle_cnt + 1) % 128
      /\ shift_reg' = IF Shifts THEN [shift_reg EXCEPT !.out = @ + 1, !.in = 0] ELSE shift_reg
      /\ qspi_oe' = IF config.xip /\ cycle_cnt >= Sent - 1 THEN "none" ELSE qspi_oe
      /\ clr_exip' = clr_exip /\ flash' = flash
  BY <1>1 DEF Transmit, Releases
<1>3. /\ Sent \in 7 .. 69 /\ cycle_cnt \in 0 .. 76
  <2>1. Sent \in 7 .. 69 /\ Clocks \in 9 .. 77
    BY Sizes, XipTypes
  <2>2. cycle_cnt \in 0 .. Clocks - 1
    BY <1>2 DEF XipInv, Counting
  <2> QED BY <2>1, <2>2
<1>4. cycle_cnt' = cycle_cnt + 1 /\ Sent' = Sent
  BY <1>2, <1>3 DEF Sent
<1>5. InStep /\ shift_reg.addr \in 0 .. FlashSize - 1 /\ ~clr_exip
  BY <1>2 DEF Timed, Transferring
<1>6. Edges = cycle_cnt /\ Edges' = cycle_cnt
  BY <1>2, <1>3, <1>4 DEF Edges
<1>7. shift_reg.out \in 0 .. MaxClocks /\ shift_reg.in \in 0 .. 32
  BY XipTypes
<1>8. /\ shift_reg'.addr = shift_reg.addr
      /\ cycle_cnt' <= Sent => shift_reg'.out = IF cycle_cnt' = 0 THEN 0 ELSE cycle_cnt' - 1
      /\ shift_reg'.in = IF cycle_cnt > Sent THEN cycle_cnt - Sent ELSE 0
  <2>1. CASE Shifts
    <3>1. shift_reg' = [shift_reg EXCEPT !.out = shift_reg.out + 1, !.in = 0]
      BY <1>2, <2>1
    <3>2. /\ shift_reg'.addr = shift_reg.addr /\ shift_reg'.out = shift_reg.out + 1
          /\ shift_reg'.in = 0
      BY <3>1, XipTypes
    <3>3. cycle_cnt > 0 /\ cycle_cnt <= Sent
      BY <1>1, <2>1 DEF Shifts
    <3>4. shift_reg.out = cycle_cnt - 1
      BY <1>3, <1>5, <3>3 DEF InStep
    <3> QED BY <3>2, <3>3, <3>4, <1>3, <1>4
  <2>2. CASE ~Shifts
    <3>1. shift_reg' = shift_reg /\ (cycle_cnt = 0 \/ cycle_cnt > Sent)
      BY <1>2, <1>3, <2>2 DEF Shifts
    <3>2. shift_reg.in = IF cycle_cnt > Sent THEN cycle_cnt - Sent ELSE 0
      BY <1>5, <1>6 DEF InStep
    <3>3. cycle_cnt = 0 => shift_reg.out = 0
      BY <1>3, <1>5 DEF InStep
    <3> QED BY <3>1, <3>2, <3>3, <1>3, <1>4
  <2> QED BY <2>1, <2>2
<1>9. qspi_oe' = IF ~config.xip THEN "first" ELSE IF cycle_cnt' >= Sent THEN "none" ELSE "all"
  <2>1. qspi_oe = IF ~config.xip THEN "first" ELSE IF cycle_cnt >= Sent THEN "none" ELSE "all"
    BY <1>5 DEF InStep
  <2>2. CASE config.xip /\ cycle_cnt >= Sent - 1
    BY <2>2, <1>2, <1>3, <1>4
  <2>3. CASE ~(config.xip /\ cycle_cnt >= Sent - 1)
    BY <2>1, <2>3, <1>2, <1>3, <1>4
  <2> QED BY <2>2, <2>3
<1>10. InStep'
  <2>1. flash'.heard /\ flash'.edges = Edges'
    BY <1>2, <1>5, <1>6 DEF InStep
  <2> QED BY <2>1, <1>4, <1>6, <1>8, <1>9 DEF InStep
<1> QED BY <1>2, <1>5, <1>8, <1>10 DEF Timed

LEMMA ToggleInTime ==
  ASSUME ~EndsXip, XipInv, Timed, Toggle, config' = config
  PROVE  Timed'
<1>1. ~Leaving
  BY NeverLeaving
<1>2. /\ next_state = "TOGGLE"
      /\ next_state' = IF ~LastClock THEN "TRANSMIT" ELSE "RECEIVE"
      /\ cycle_cnt' = IF LastClock THEN 0 ELSE cycle_cnt
      /\ shift_reg' = IF Samples
                      THEN [shift_reg EXCEPT !.in = IF Driven = @ + 1 THEN @ + 1 ELSE 0]
                      ELSE shift_reg
      /\ clr_exip' = clr_exip
      /\ qspi_oe' = qspi_oe
  BY <1>1, XipTypes DEF Toggle
<1>3. /\ flash'.edges = flash.edges + 1
      /\ flash'.heard = (flash.heard /\ (flash.edges < AddressSymbols => Hears))
  BY DEF Toggle
<1>4. /\ Sent \in 7 .. 69 /\ Symbols \in {8, 32} /\ cycle_cnt \in 1 .. Sent + Symbols
      /\ AddressSymbols \in 6 .. 32 /\ AddressSymbols <= Sent - (IF config.xip THEN 1 ELSE 0)
  <2>1. /\ Sent \in 7 .. 69 /\ Symbols \in {8, 32}
        /\ AddressSymbols \in 6 .. 32 /\ AddressSymbols <= Sent - (IF config.xip THEN 1 ELSE 0)
    BY Sizes, XipTypes
  <2>2. cycle_cnt \in 1 .. Clocks
    BY <1>2 DEF XipInv, Counting
  <2> QED BY <1>1, <2>1, <2>2 DEF Clocks
<1>5. (LastClock <=> cycle_cnt = Sent + Symbols) /\ Sent' = Sent /\ Symbols' = Symbols
  BY <1>1 DEF LastClock, Sent, Symbols
<1>6. InStep /\ shift_reg.addr \in 0 .. FlashSize - 1 /\ ~clr_exip
  BY <1>2 DEF Timed, Transferring
<1>7. Edges = cycle_cnt - 1 /\ flash.edges = cycle_cnt - 1 /\ flash.heard
  BY <1>2, <1>6 DEF Edges, InStep
<1>8. flash'.heard
  <2> SUFFICES ASSUME flash.edges < AddressSymbols PROVE Hears
    BY <1>3, <1>7
  <2>1. cycle_cnt <= Sent /\ (config.xip => cycle_cnt < Sent)
    BY <1>4, <1>7
  <2>2. shift_reg.out = cycle_cnt - 1
    BY <1>4, <1>6, <2>1 DEF InStep
  <2>3. qspi_oe = IF config.xip THEN "all" ELSE "first"
    BY <1>4, <1>6, <2>1 DEF InStep
  <2>4. shift_reg.addr # Nothing
    BY <1>6, XipTypes
  <2> QED BY <1>7, <2>2, <2>3, <2>4 DEF Hears
<1>9. /\ shift_reg'.addr = shift_reg.addr /\ shift_reg'.out = shift_reg.out
      /\ shift_reg'.in = IF cycle_cnt > Sent THEN cycle_cnt - Sent ELSE 0
  <2>1. shift_reg \in [addr : 0 .. FlashSize - 1 \cup {Nothing}, out : 0 .. MaxClocks, in : 0 .. 32]
    BY XipTypes
  <2>2. shift_reg.in = IF cycle_cnt - 1 > Sent THEN cycle_cnt - 1 - Sent ELSE 0
    BY <1>6, <1>7 DEF InStep
  <2>3. CASE cycle_cnt > Sent
    <3>1. Samples
      BY <1>1, <2>3 DEF Samples
    <3>2. Driven = cycle_cnt - Sent
      BY <1>4, <1>7, <2>3 DEF Driven
    <3>3. shift_reg.in = cycle_cnt - 1 - Sent
      BY <1>4, <2>2, <2>3
    <3>4. shift_reg' = [shift_reg EXCEPT !.in = shift_reg.in + 1]
      BY <1>2, <1>4, <3>1, <3>2, <3>3
    <3>5. /\ shift_reg'.addr = shift_reg.addr /\ shift_reg'.out = shift_reg.out
          /\ shift_reg'.in = shift_reg.in + 1
      BY <2>1, <3>4
    <3> QED BY <2>3, <3>3, <3>5, <1>4
  <2>4. CASE ~(cycle_cnt > Sent)
    <3>1. ~Samples
      BY <2>4 DEF Samples
    <3>2. shift_reg' = shift_reg
      BY <1>2, <3>1
    <3> QED BY <2>2, <2>4, <3>2, <1>4
  <2> QED BY <2>3, <2>4
<1>10. qspi_oe' = IF ~config'.xip THEN "first" ELSE IF cycle_cnt >= Sent THEN "none" ELSE "all"
  BY <1>2, <1>6 DEF InStep
<1>11. CASE ~LastClock
  <2>1. next_state' = "TRANSMIT" /\ cycle_cnt' = cycle_cnt
    BY <1>2, <1>11
  <2>2. Edges' = cycle_cnt /\ flash'.edges = cycle_cnt
    BY <2>1, <1>3, <1>4, <1>7 DEF Edges
  <2>3. cycle_cnt' <= Sent' => shift_reg'.out = IF cycle_cnt' = 0 THEN 0 ELSE cycle_cnt' - 1
    BY <2>1, <1>5, <1>6, <1>9 DEF InStep
  <2>4. shift_reg'.in = IF Edges' > Sent' THEN Edges' - Sent' ELSE 0
    BY <2>2, <1>5, <1>9
  <2>5. InStep'
    BY <2>1, <2>2, <2>3, <2>4, <1>5, <1>8, <1>10 DEF InStep
  <2> QED BY <2>1, <2>5, <1>2, <1>6, <1>9 DEF Timed
<1>12. CASE LastClock
  <2>1. next_state' = "RECEIVE" /\ cycle_cnt' = 0
    BY <1>2, <1>12
  <2>2. shift_reg'.in = Symbols'
    BY <1>4, <1>5, <1>9, <1>12
  <2>3. qspi_oe' = IF config'.xip THEN "none" ELSE "first"
    BY <1>4, <1>5, <1>10, <1>12
  <2> QED BY <2>1, <2>2, <2>3, <1>2, <1>6, <1>8, <1>9 DEF Timed, Transferring
<1> QED BY <1>11, <1>12

LEMMA ReceiveInTime ==
  ASSUME ~EndsXip, XipInv, Timed, NEW d_ready \in BOOLEAN, Cycle(d_ready), Receive
  PROVE  Timed'
<1>1. /\ next_state = "RECEIVE"
      /\ next_state' = IF cycle_cnt # 3 THEN "RECEIVE" ELSE "IDLE"
      /\ cycle_cnt' = IF cycle_cnt # 3 THEN cycle_cnt + 1 ELSE 0
      /\ qspi_csb' = TRUE
      /\ cycle_cnt = 0 => rdata' \in Received
      /\ cycle_cnt # 0 => rdata' = rdata
      /\ flash'.edges = 0 /\ flash'.heard = TRUE
      /\ shift_reg' = shift_reg /\ clr_exip' = clr_exip
  BY DEF Receive, Gap, Deselected
<1>2. cycle_cnt \in 0 .. 3
  BY <1>1 DEF XipInv, Counting, Gap
<1>3. ~clr_exip /\ shift_reg.addr \in 0 .. FlashSize - 1
  BY <1>1 DEF Timed
<1>4. CASE cycle_cnt = 0
  <2>1. rdata' = Flash[shift_reg.addr]
    BY <1>1, <1>4 DEF Timed, Received
  <2>2. next_state' = "RECEIVE" /\ cycle_cnt' = 1
    BY <1>1, <1>4
  <2> QED BY <2>1, <2>2, <1>1, <1>3 DEF Timed, Transferring
<1>5. CASE cycle_cnt \in {1, 2}
  <2>1. next_state' = "RECEIVE" /\ cycle_cnt' \in {2, 3}
    BY <1>1, <1>5
  <2> QED BY <2>1, <1>1, <1>3 DEF Timed, Transferring
<1>6. CASE cycle_cnt = 3
  <2>1. (Quiet \/ Queued) /\ ~rvalid
    BY <1>1, <1>6 DEF XipInv, Handshake
  <2>2. (Quiet \/ Queued \/ Granting)'
    BY <2>1, EdgeOfCycle
  <2>3. ~Granted'
    BY <2>2 DEF Quiet, Queued, Granting, Granted
  <2>4. next_state' = "IDLE"
    BY <1>1, <1>6
  <2> QED BY <2>3, <2>4, <1>1, <1>3 DEF Timed, Transferring
<1> QED BY <1>2, <1>4, <1>5, <1>6

LEMMA RestInTime ==
  ASSUME ~EndsXip, XipInv, Timed, NEW d_ready \in BOOLEAN, Cycle(d_ready), Rest
  PROVE  Timed'
<1>1. /\ next_state = "IDLE" /\ ~ReqO /\ next_state' = "IDLE"
      /\ qspi_csb' = TRUE /\ clr_exip' = FALSE
      /\ flash'.edges = 0 /\ flash'.heard = TRUE
  BY DEF Rest, Deselected
<1>2. Quiet /\ ~rvalid
  BY <1>1, GrantStages DEF Timed, Queued, Granting
<1>3. Quiet'
  BY <1>1, <1>2, EdgeOfCycle
<1>4. ~Granted'
  BY <1>3 DEF Quiet, Granted
<1> QED BY <1>1, <1>4 DEF Timed, Transferring

LEMMA ConfigKept ==
  ASSUME Timed, NEW d_ready \in BOOLEAN, Cycle(d_ready)
  PROVE  config' = config
BY DEF Timed, Cycle

LEMMA InitInTime == Init => Timed
<1> SUFFICES ASSUME Init PROVE Timed
  OBVIOUS
<1>1. /\ next_state = "IDLE" /\ qspi_csb = TRUE /\ clr_exip = FALSE /\ trig = FALSE
      /\ flash.edges = 0 /\ flash.heard = TRUE
  BY DEF Init, Deselected
<1> QED BY <1>1 DEF Timed, Transferring, Granted

LEMMA StepInTime ==
  ASSUME ~EndsXip, XipInv, Timed, [Next]_vars
  PROVE  Timed'
<1>1. ASSUME NEW d_ready \in HostReady, Cycle(d_ready)
      PROVE  Timed'
  <2>1. d_ready \in BOOLEAN
    BY ReadyAssumption
  <2>2. Start \/ Rest \/ Transmit \/ Toggle \/ Receive
    BY <1>1 DEF Cycle, Xip
  <2>3. config' = config
    BY <1>1, <2>1, ConfigKept
  <2> QED
    BY <1>1, <2>1, <2>2, <2>3, StartInTime, RestInTime, TransmitInTime, ToggleInTime,
       ReceiveInTime
<1>2. CASE Reset
  <2>1. /\ next_state' = "IDLE" /\ qspi_csb' = TRUE /\ clr_exip' = FALSE /\ trig' = FALSE
        /\ flash'.edges = 0 /\ flash'.heard = TRUE
    BY <1>2 DEF Reset, Deselected
  <2> QED BY <2>1 DEF Timed, Transferring, Granted
<1>3. CASE Configure
  <2>1. /\ ~rst_ni
        /\ UNCHANGED <<sramreqfifo, gnt_sync, gnt, trig, next_state, qspi_csb, clr_exip, flash>>
    BY <1>3 DEF Configure, adapterVars, grantVars, xipVars
  <2>2. next_state = "IDLE"
    BY <2>1 DEF XipInv, InReset
  <2> QED BY <2>1, <2>2 DEF Timed, Transferring, Granted
<1>4. CASE Release \/ UNCHANGED vars
  <2>1. UNCHANGED <<sramreqfifo, config, gnt_sync, gnt, trig, next_state, cycle_cnt, shift_reg,
                    qspi_oe, qspi_csb, clr_exip, rvalid, rdata, flash>>
    BY <1>4 DEF Release, vars, adapterVars, grantVars, xipVars
  <2>2. Sent' = Sent /\ Symbols' = Symbols /\ Edges' = Edges
    BY <2>1 DEF Sent, Symbols, Edges
  <2>3. InStep' <=> InStep
    BY <2>1, <2>2 DEF InStep
  <2> QED BY <2>1, <2>2, <2>3 DEF Timed, Transferring, Granted
<1> QED
  BY <1>1, <1>2, <1>3, <1>4 DEF Next

LEMMA WiresAreFree ==
  ASSUME ~EndsXip, XipInv, Timed
  PROVE  NoContention
<1> SUFFICES ASSUME FlashDrives
             PROVE  qspi_oe = IF config.xip THEN "none" ELSE "first"
  BY DEF NoContention
<1>1. /\ ~qspi_csb
      /\ flash.edges > Sent \/ (flash.edges = Sent /\ next_state = "TOGGLE")
  BY DEF FlashDrives
<1>2. Sent \in 7 .. 69 /\ next_state \in {"IDLE", "TRANSMIT", "TOGGLE", "RECEIVE"}
      /\ cycle_cnt \in 0 .. MaxClocks
  BY Sizes, XipTypes
<1>3. CASE Transferring
  <2>1. InStep
    BY <1>3 DEF Timed
  <2>2. cycle_cnt >= Sent
    BY <2>1, <1>1, <1>2 DEF InStep, Edges, MaxClocks
  <2> QED BY <2>1, <2>2 DEF InStep
<1>4. CASE next_state = "RECEIVE"
  <2>1. cycle_cnt = 0
    BY <1>1, <1>2, <1>4 DEF Timed, MaxClocks
  <2> QED BY <1>4, <2>1 DEF Timed
<1> QED BY <1>1, <1>2, <1>3, <1>4 DEF Timed, Transferring

\* The controller has let go of the wires whenever the flash drives them, for every
\* number of dummy cycles and in either mode, as long as no configuration asks to
\* leave XIP mode.
THEOREM WiresUncontended ==
  ASSUME ~EndsXip
  PROVE  Spec => []NoContention
<1>1. Timed /\ XipInv /\ [Next]_vars => Timed'
  BY StepInTime
<1>2. Timed /\ XipInv => NoContention
  BY WiresAreFree
<1> QED
  BY InitHolds, InitInTime, StepHolds, <1>1, <1>2, PTL DEF Spec

-----------------------------------------------------------------------------
(* The words the adapter owes.                                              *)

Coming == Flash[shift_reg.addr]

\* Words that are back, and the one in flight.
Words == IF sramreqfifo = 1 THEN Append(rspfifo, Coming) ELSE rspfifo

OwedNow == Owed(sramreqfifo > 0, InFlight)

LEMMA FlightWord ==
  ASSUME XipInv, Timed, sramreqfifo = 1
  PROVE  /\ InFlight = Coming /\ Coming \in Word /\ Granted
         /\ next_state # "IDLE" /\ (rvalid => rdata = Coming)
<1>1. Granted
  BY GrantStages DEF Quiet, Queued, Granting
<1>2. next_state # "IDLE" /\ shift_reg.addr \in 0 .. FlashSize - 1
  BY <1>1 DEF Timed
<1>3. Coming \in Word
  <2>1. Flash \in [0 .. FlashSize - 1 -> Word]
    BY FlashAssumption
  <2> QED BY <1>2, <2>1 DEF Coming
<1>4. rvalid => rdata = Coming
  BY DEF XipInv, Handshake, Timed, Coming
<1>5. shift_reg.addr # Nothing
  BY <1>2, XipTypes
<1> QED BY <1>1, <1>2, <1>3, <1>4, <1>5 DEF InFlight, Coming

LEMMA OwedWords ==
  XipInv /\ Timed => /\ OwedNow = AnswersTo(reqfifo, Words)
                     /\ Words \in Seq(Word) /\ Len(Words) = Reads(reqfifo)
                     /\ Len(Words) = Len(reqfifo) /\ reqfifo \in Seq(Ops)
<1> SUFFICES ASSUME XipInv, Timed
             PROVE  /\ OwedNow = AnswersTo(reqfifo, Words)
                    /\ Words \in Seq(Word) /\ Len(Words) = Reads(reqfifo)
                    /\ Len(Words) = Len(reqfifo) /\ reqfifo \in Seq(Ops)
  OBVIOUS
<1>1. /\ reqfifo \in Seq(Ops) /\ rspfifo \in Seq(Word)
      /\ Len(rspfifo) + sramreqfifo = Len(reqfifo)
      /\ Len(reqfifo) \in Nat /\ Len(rspfifo) \in Nat
  BY DEF XipInv, TypeOK, AdapterTypeOK, AllReads
<1>2. Reads(reqfifo) = Len(reqfifo)
  BY <1>1, ReadsOfFetches
<1>3. CASE sramreqfifo = 1
  <2>1. InFlight = Coming /\ Coming \in Word
    BY <1>3, FlightWord
  <2>2. reqfifo # <<>>
    BY <1>1, <1>3
  <2>3. OwedNow = AnswersTo(reqfifo, Words)
    BY <1>3, <2>1, <2>2 DEF OwedNow, Owed, DataBack, RspWValid, RspWData, Words
  <2>4. Append(rspfifo, Coming) \in Seq(Word) /\ Len(Append(rspfifo, Coming)) = Len(rspfifo) + 1
    BY <1>1, <2>1, AppendProperties, Zenon
  <2> QED BY <1>1, <1>2, <1>3, <2>3, <2>4 DEF Words
<1>4. CASE sramreqfifo = 0
  <2>1. OwedNow = AnswersTo(reqfifo, Words)
    BY <1>4 DEF OwedNow, Owed, DataBack, RspWValid, Words
  <2> QED BY <1>1, <1>2, <1>4, <2>1 DEF Words
<1> QED BY <1>3, <1>4, GrantStages DEF Paired

\* The word in flight stays the same until it is back, and a grant brings the one
\* that its request asked for.
LEMMA FlightStep ==
  ASSUME ~EndsXip, XipInv, Timed, NEW d_ready \in BOOLEAN, Cycle(d_ready)
  PROVE  /\ sramreqfifo = 1 /\ ~rvalid => Coming' = Coming
         /\ gnt => Coming' = Flash[FlashAddr(treq.addr)]
<1>1. Start \/ Rest \/ Transmit \/ Toggle \/ Receive
  BY DEF Cycle, Xip
<1>2. Transmit \/ Toggle \/ Receive => shift_reg'.addr = shift_reg.addr
  <2>1. Transmit => shift_reg'.addr = shift_reg.addr
    BY XipTypes DEF Transmit
  <2>2. Toggle => shift_reg'.addr = shift_reg.addr
    BY XipTypes DEF Toggle
  <2>3. Receive => shift_reg'.addr = shift_reg.addr
    BY DEF Receive
  <2> QED BY <2>1, <2>2, <2>3
<1>3. sramreqfifo = 1 => ~Start /\ ~Rest
  BY FlightWord DEF Start, Rest
<1>4. ~Leaving
  BY NeverLeaving
<1>5. ASSUME gnt PROVE shift_reg'.addr = FlashAddr(treq.addr)
  <2>1. Granting
    BY <1>5, GrantStages DEF Quiet, Queued, Granted
  <2>2. GrantMeetsTransfer
    BY GrantIsMet
  <2>3. CASE next_state = "IDLE"
    <3>1. Start
      BY <1>1, <2>1, <2>3 DEF Rest, Transmit, Toggle, Receive, Granting
    <3> QED BY <1>4, <3>1 DEF Start, Cleared
  <2>4. CASE next_state # "IDLE"
    <3>1. shift_reg.addr = FlashAddr(treq.addr)
      BY <1>4, <1>5, <2>2, <2>4 DEF GrantMeetsTransfer
    <3>2. Transmit \/ Toggle \/ Receive
      BY <1>1, <2>4 DEF Start, Rest
    <3> QED BY <1>2, <3>1, <3>2
  <2> QED BY <2>3, <2>4
<1> QED BY <1>1, <1>2, <1>3, <1>5 DEF Coming

LEMMA PortStep ==
  ASSUME ~EndsXip, XipInv, Timed, XipInv', Timed', NEW d_ready \in BOOLEAN, Cycle(d_ready)
  PROVE  Port!Next
<1> DEFINE dack == reqfifo # <<>> /\ Back # <<>> /\ d_ready
           ops  == IF dack THEN Tail(reqfifo) ELSE reqfifo
           left == IF dack THEN Tail(Words) ELSE Words
           rest == IF dack THEN Tail(OwedNow) ELSE OwedNow
<1>1. /\ AdapterTypeOK /\ AllReads /\ gnt \in BOOLEAN /\ rvalid \in BOOLEAN /\ rdata \in Word
      /\ AdapterCycle(gnt, rvalid, rdata, d_ready) /\ HostRequest(gnt)
  BY DEF XipInv, TypeOK, Cycle
<1>2. Paired /\ (rvalid => sramreqfifo = 1)
  BY GrantStages DEF Granted
<1>3. /\ Back \in Seq(Word)
      /\ AAck(gnt) <=> gnt
      /\ reqfifo' = IF gnt THEN Append(ops, treq.op) ELSE ops
      /\ rspfifo' = IF dack THEN Tail(Back) ELSE Back
      /\ got' = IF dack THEN [op |-> Head(reqfifo), data |-> Head(Back)] ELSE Nothing
      /\ sramreqfifo' = IF gnt THEN 1 ELSE IF rvalid THEN 0 ELSE sramreqfifo
  BY <1>1, <1>2, AdapterEdge
<1>4. /\ OwedNow = AnswersTo(reqfifo, Words)
      /\ Words \in Seq(Word) /\ Len(Words) = Reads(reqfifo)
      /\ Len(Words) = Len(reqfifo) /\ reqfifo \in Seq(Ops)
  BY OwedWords
<1>5. OwedNow' = AnswersTo(reqfifo', Words')
  <2>1. XipInv' OBVIOUS
  <2>2. Timed' OBVIOUS
  <2>3. (OwedNow = AnswersTo(reqfifo, Words))'
    BY <2>1, <2>2, OwedWords, PTL
  <2> QED BY <2>3
<1>6. sramreqfifo \in {0, 1} /\ rspfifo \in Seq(Word)
  BY <1>2 DEF Paired, XipInv, TypeOK, AdapterTypeOK
\* What is back is what was back before, with the word in flight when it arrives.
<1>7. Words = IF sramreqfifo = 1 /\ ~rvalid THEN Append(Back, Coming) ELSE Back
  <2>1. CASE rvalid
    <3>1. rdata = Coming
      BY <1>2, <2>1, FlightWord
    <3> QED BY <1>2, <2>1, <3>1 DEF Words, Back
  <2>2. CASE ~rvalid
    BY <2>2 DEF Words, Back
  <2> QED BY <2>1, <2>2
<1>8. dack => /\ Words # <<>> /\ Head(Words) = Head(Back)
              /\ Tail(Words) = IF sramreqfifo = 1 /\ ~rvalid
                               THEN Append(Tail(Back), Coming) ELSE Tail(Back)
  <2> SUFFICES ASSUME dack, sramreqfifo = 1, ~rvalid
               PROVE  /\ Words # <<>> /\ Head(Words) = Head(Back)
                      /\ Tail(Words) = Append(Tail(Back), Coming)
    BY <1>7
  <2>1. Coming \in Word /\ Back # <<>>
    BY FlightWord
  <2>2. Words = Append(Back, Coming)
    BY <1>7
  <2> HIDE DEF dack
  <2>3. Append(Back, Coming) # <<>> /\ Head(Append(Back, Coming)) = Head(Back)
    BY <1>3, <2>1
  <2>4. Tail(Append(Back, Coming)) = Append(Tail(Back), Coming)
    BY <1>3, <2>1
  <2> QED BY <2>2, <2>3, <2>4
<1>9. left = IF sramreqfifo = 1 /\ ~rvalid THEN Append(rspfifo', Coming) ELSE rspfifo'
  <2>1. CASE dack
    BY <2>1, <1>3, <1>8
  <2>2. CASE ~dack
    BY <2>2, <1>3, <1>7
  <2> QED BY <2>1, <2>2
\* The answer that is taken is the oldest.
<1>10. /\ AnswersTo(ops, left) = rest
       /\ ops \in Seq(Ops) /\ left \in Seq(Word) /\ Len(left) = Reads(ops)
       /\ dack => OwedNow # <<>> /\ got' = Head(OwedNow)
  <2>1. CASE ~dack
    BY <2>1, <1>4
  <2>2. CASE dack
    <3>1. reqfifo # <<>> /\ Head(reqfifo) = "Get" /\ Head(reqfifo) \in Ops
      BY <2>2, <1>4, FetchesOnly
    <3>2. Tail(Words) = IF Head(reqfifo) = "Get" THEN Tail(Words) ELSE Words
      BY <3>1
    <3>3. /\ Tail(Words) \in Seq(Word)
          /\ Len(Tail(Words)) = Reads(Tail(reqfifo))
          /\ OwedNow # <<>>
          /\ Head(OwedNow) = [op |-> Head(reqfifo),
                              data |-> IF Head(reqfifo) = "Get" THEN Head(Words) ELSE Zero]
          /\ Tail(OwedNow) = AnswersTo(Tail(reqfifo), Tail(Words))
      BY <3>1, <3>2, <1>4, AnswersRest
    <3>4. Tail(reqfifo) \in Seq(Ops)
      BY <3>1, <1>4
    <3>5. got' = [op |-> Head(reqfifo), data |-> Head(Back)]
      BY <2>2, <1>3
    <3>6. got' = Head(OwedNow)
      BY <2>2, <3>1, <3>3, <3>5, <1>8
    <3> QED BY <2>2, <3>3, <3>4, <3>6
  <2> QED BY <2>1, <2>2
<1>11. Len(OwedNow) = Len(reqfifo)
  BY <1>4, AnswersType
<1>12. config' = config
  BY ConfigKept
<1>13. [a \in Addr |-> Flash[FlashAddr(a)]]' = [a \in Addr |-> Flash[FlashAddr(a)]]
  BY <1>12 DEF FlashAddr
<1>14. Port!Cycle(rest)
  <2>1. CASE ~gnt
    <3>1. reqfifo' = ops
      BY <2>1, <1>3
    <3>2. Words' = left
      <4>1. CASE sramreqfifo = 1 /\ ~rvalid
        <5>1. Coming' = Coming /\ sramreqfifo' = 1
          BY <2>1, <4>1, <1>3, FlightStep
        <5>2. Words' = Append(rspfifo', Coming)
          BY <5>1 DEF Words
        <5> QED BY <4>1, <5>2, <1>9
      <4>2. CASE ~(sramreqfifo = 1 /\ ~rvalid)
        <5>1. sramreqfifo' = 0
          BY <2>1, <4>2, <1>3, <1>6
        <5>2. Words' = rspfifo'
          BY <5>1 DEF Words
        <5> QED BY <4>2, <5>2, <1>9
      <4> QED BY <4>1, <4>2
    <3>3. OwedNow' = rest
      BY <3>1, <3>2, <1>5, <1>10
    <3>4. treq # Nothing => treq' = treq
      BY <2>1, <1>1, <1>3 DEF HostRequest
    <3> HIDE DEF rest
    <3> QED BY <3>3, <3>4, <1>13 DEF Port!Cycle, Port!Refuse, Port!Loaded, OwedNow
  <2>2. CASE gnt
    <3>1. treq # Nothing /\ Len(OwedNow) < Outstanding /\ sramreqfifo = 0 /\ ~rvalid
      BY <2>2, <1>2, <1>11 DEF Paired, ReqO, ReqReady
    <3>2. treq.op = "Get" /\ treq.op \in Ops /\ treq.addr \in Addr
      BY <3>1, <1>1, FetchesOnly DEF AdapterTypeOK, Request
    <3> DEFINE w == Flash[FlashAddr(treq.addr)]
    <3>3. reqfifo' = Append(ops, treq.op) /\ sramreqfifo' = 1
      BY <2>2, <1>3
    <3>4. Coming' = w
      BY <2>2, FlightStep
    <3>5. Words' = Append(left, w)
      <4>1. left = rspfifo'
        BY <3>1, <1>9
      <4>2. Words' = Append(rspfifo', Coming')
        BY <3>3 DEF Words
      <4> HIDE DEF left, w
      <4> QED BY <4>1, <4>2, <3>4
    <3>6. w \in Word
      <4>1. FlashAddr(treq.addr) \in 0 .. FlashSize - 1
        BY <3>2, XipTypes, AddressOnFlash
      <4>2. Flash \in [0 .. FlashSize - 1 -> Word]
        BY FlashAssumption
      <4> QED BY <4>1, <4>2
    <3>7. AnswersTo(Append(ops, treq.op), Append(left, w)) =
            Append(rest, [op |-> treq.op, data |-> w])
      <4>1. AnswersTo(Append(ops, treq.op), Append(left, w)) =
              Append(AnswersTo(ops, left),
                     [op |-> treq.op, data |-> IF treq.op = "Get" THEN w ELSE Zero])
        <5> DEFINE op   == treq.op
                   more == Append(left, w)
        <5>1. /\ op \in Ops /\ left \in Seq(Word) /\ Len(left) = Reads(ops)
              /\ op = "Get" => more = Append(left, w)
              /\ op # "Get" => more = left
              /\ ops \in Seq(Ops)
          BY <3>2, <1>10
        <5> HIDE DEF op, ops, left, w, more, dack
        <5>2. AnswersTo(Append(ops, op), more) =
                Append(AnswersTo(ops, left), [op |-> op, data |-> IF op = "Get" THEN w ELSE Zero])
          BY ONLY <5>1, <3>6, AnswersAppend
        <5> QED BY <5>2 DEF op, more
      <4> QED BY <4>1, <3>2, <1>10
    <3>8. OwedNow' = Append(rest, [op |-> treq.op, data |-> w])
      BY <3>3, <3>5, <3>7, <1>5
    <3>9. [op |-> treq.op, data |-> w] \in Port!Answers
      BY <3>2 DEF Port!Answers, Port!ReadWords
    <3> HIDE DEF rest, w
    <3> QED BY <3>1, <3>2, <3>8, <3>9, <1>13
            DEF Port!Cycle, Port!Accept, Port!Loaded, Port!Stored, OwedNow
  <2> QED BY <2>1, <2>2, <1>1
<1>15. CASE dack
  BY <1>10, <1>14, <1>15 DEF Port!Next, OwedNow
<1>16. CASE ~dack
  BY <1>3, <1>14, <1>16 DEF Port!Next, OwedNow
<1> QED BY <1>15, <1>16

\* Until the next reset every fetch is answered once, in order, with the word of the
\* flash at its address and base, for every number of dummy cycles and in either
\* mode, as long as no configuration asks to leave XIP mode.
THEOREM FlashIsMemoryPort ==
  ASSUME ~EndsXip
  PROVE  Spec => ImplementsMemory
<1>1. Init => Port!Init
  <2> SUFFICES ASSUME Init PROVE Port!Init
    OBVIOUS
  <2>1. reqfifo = <<>> /\ got = Nothing
    BY DEF Init, AdapterInit
  <2> QED
    BY <2>1, NoAnswers DEF Port!Init, Owed
<1>2. Timed /\ XipInv /\ [Next]_vars => Timed'
  BY StepInTime
<1>3. /\ XipInv /\ Timed /\ [Next]_vars /\ XipInv' /\ Timed'
      => [Port!Next \/ ~rst_ni \/ ~rst_ni']_(Port!vars)
  <2> SUFFICES ASSUME XipInv, Timed, [Next]_vars, XipInv', Timed'
               PROVE  [Port!Next \/ ~rst_ni \/ ~rst_ni']_(Port!vars)
    OBVIOUS
  <2>1. ASSUME NEW d_ready \in HostReady, Cycle(d_ready) PROVE Port!Next
    <3>1. d_ready \in BOOLEAN
      BY ReadyAssumption
    <3> QED BY <2>1, <3>1, PortStep
  <2>2. Reset => ~rst_ni'
    BY DEF Reset
  <2>3. Configure \/ Release => ~rst_ni
    BY DEF Configure, Release
  <2>4. UNCHANGED vars => UNCHANGED Port!vars
    BY DEF vars, adapterVars, xipVars, Port!vars, Owed, DataBack, RspWValid, RspWData, InFlight,
           FlashAddr
  <2> QED BY <2>1, <2>2, <2>3, <2>4 DEF Next
<1> QED
  BY InitHolds, InitInTime, StepHolds, <1>1, <1>2, <1>3, PTL DEF Spec, ImplementsMemory
=============================================================================
