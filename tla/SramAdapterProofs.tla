------------------------- MODULE SramAdapterProofs -------------------------
(***************************************************************************)
(* What the adapter's FIFOs do to the answers owed to the bus, for every   *)
(* depth, address and word: facts about operators and single cycles, which *)
(* the proofs of the memories share.                                       *)
(***************************************************************************)
EXTENDS SramAdapter, SequenceTheorems, FiniteSetTheorems, TLAPS

GetsUpTo(s, k) == {j \in 1 .. k : s[j] = "Get"}

LEMMA RankType ==
  ASSUME NEW s, NEW k \in Nat
  PROVE  /\ IsFiniteSet(GetsUpTo(s, k))
         /\ Rank(s, k) \in Nat
         /\ Rank(s, k) <= k
<1>1. IsFiniteSet(1 .. k) /\ Cardinality(1 .. k) = k
  BY FS_Interval
<1>2. GetsUpTo(s, k) \in SUBSET (1 .. k)
  BY DEF GetsUpTo
<1>3. IsFiniteSet(GetsUpTo(s, k)) /\ Cardinality(GetsUpTo(s, k)) <= k
  BY <1>1, <1>2, FS_Subset
<1>4. Rank(s, k) = Cardinality(GetsUpTo(s, k))
  BY DEF Rank, GetsUpTo
<1> QED
  BY <1>3, <1>4, FS_CardinalityType

LEMMA RankNone == ASSUME NEW s PROVE Rank(s, 0) = 0
<1>1. {j \in 1 .. 0 : s[j] = "Get"} = {}
  OBVIOUS
<1> QED
  BY <1>1, FS_EmptySet DEF Rank

LEMMA RankNext ==
  ASSUME NEW s, NEW k \in Nat
  PROVE  Rank(s, k + 1) = Rank(s, k) + (IF s[k + 1] = "Get" THEN 1 ELSE 0)
<1>1. IsFiniteSet(GetsUpTo(s, k))
  BY RankType
<1>2. k + 1 \notin GetsUpTo(s, k)
  BY DEF GetsUpTo
<1>3. GetsUpTo(s, k + 1) =
        IF s[k + 1] = "Get" THEN GetsUpTo(s, k) \cup {k + 1} ELSE GetsUpTo(s, k)
  BY DEF GetsUpTo
<1>4. Rank(s, k + 1) = Cardinality(GetsUpTo(s, k + 1)) /\ Rank(s, k) = Cardinality(GetsUpTo(s, k))
  BY DEF Rank, GetsUpTo
<1>5. Rank(s, k) \in Nat
  BY RankType
<1>6. Cardinality(GetsUpTo(s, k) \cup {k + 1}) = Cardinality(GetsUpTo(s, k)) + 1
  BY <1>1, <1>2, FS_AddElement
<1> QED
  BY <1>3, <1>4, <1>5, <1>6

LEMMA RankMonotone ==
  ASSUME NEW s, NEW m \in Nat, NEW n \in Nat, m <= n
  PROVE  Rank(s, m) <= Rank(s, n)
<1>1. GetsUpTo(s, m) \in SUBSET GetsUpTo(s, n)
  BY DEF GetsUpTo
<1>2. IsFiniteSet(GetsUpTo(s, n))
  BY RankType
<1>3. Cardinality(GetsUpTo(s, m)) <= Cardinality(GetsUpTo(s, n))
  BY <1>1, <1>2, FS_Subset
<1> QED
  BY <1>3 DEF Rank, GetsUpTo

\* A read has a rank of its own, counted from 1.
LEMMA RankOfRead ==
  ASSUME NEW s, NEW k \in Nat \ {0}, s[k] = "Get"
  PROVE  Rank(s, k) >= 1 /\ Rank(s, k) = Rank(s, k - 1) + 1
<1>1. Rank(s, (k - 1) + 1) = Rank(s, k - 1) + 1
  BY RankNext
<1>2. Rank(s, k - 1) \in Nat
  BY RankType
<1> QED
  BY <1>1, <1>2

\* Equal prefixes have equal ranks.
LEMMA RankOfPrefix ==
  ASSUME NEW s, NEW t, NEW k \in Nat, \A j \in 1 .. k : s[j] = t[j]
  PROVE  Rank(s, k) = Rank(t, k)
<1>1. {j \in 1 .. k : s[j] = "Get"} = {j \in 1 .. k : t[j] = "Get"}
  OBVIOUS
<1> QED
  BY <1>1 DEF Rank

\* Without its first operation a sequence has as many reads less.
LEMMA RankOfRest ==
  ASSUME NEW s, NEW t, NEW k \in Nat, \A j \in 1 .. k : t[j] = s[j + 1]
  PROVE  Rank(s, k + 1) = Rank(t, k) + (IF s[1] = "Get" THEN 1 ELSE 0)
<1> DEFINE A == GetsUpTo(t, k)
           B == {j \in 2 .. k + 1 : s[j] = "Get"}
           f == [j \in A |-> j + 1]
<1>1. IsFiniteSet(A) /\ Cardinality(A) = Rank(t, k) /\ Rank(t, k) \in Nat
  BY RankType DEF Rank, GetsUpTo
<1>2. f \in Bijection(A, B)
  <2>1. \A j \in A : j \in 1 .. k /\ j + 1 \in B
    BY DEF GetsUpTo
  <2>2. f \in [A -> B]
    BY <2>1
  <2>3. \A i, j \in A : f[i] = f[j] => i = j
    BY <2>1
  <2>4. \A b \in B : b - 1 \in A /\ f[b - 1] = b
    BY DEF GetsUpTo
  <2> HIDE DEF A, B, f
  <2> QED
    BY <2>2, <2>3, <2>4 DEF Bijection, Injection, Surjection, IsInjective
<1>3. IsFiniteSet(B) /\ Cardinality(B) = Rank(t, k)
  <2> HIDE DEF A, B, f
  <2>1. ExistsBijection(A, B)
    BY <1>2 DEF ExistsBijection
  <2> QED
    BY <1>1, <2>1, FS_Bijection
<1>4. GetsUpTo(s, k + 1) = IF s[1] = "Get" THEN B \cup {1} ELSE B
  BY DEF GetsUpTo
<1>5. 1 \notin B
  OBVIOUS
<1>6. Cardinality(B \cup {1}) = Cardinality(B) + 1
  BY <1>3, <1>5, FS_AddElement
<1>7. Rank(s, k + 1) = Cardinality(GetsUpTo(s, k + 1))
  BY DEF Rank, GetsUpTo
<1> HIDE DEF B
<1> QED
  BY <1>1, <1>3, <1>4, <1>6, <1>7

-----------------------------------------------------------------------------
AnswerSet == [op : Ops, data : Word]

LEMMA ZeroIsWord == Zero \in Word
  BY ByteAssumption DEF Zero, Word

\* The k-th answer, when all data are back.
LEMMA AnswersType ==
  ASSUME NEW s \in Seq(Ops), NEW data \in Seq(Word), Len(data) = Reads(s)
  PROVE  /\ AnswersTo(s, data) \in Seq(AnswerSet)
         /\ Len(AnswersTo(s, data)) = Len(s)
         /\ \A k \in 1 .. Len(s) :
              /\ s[k] = "Get" => Rank(s, k) \in 1 .. Len(data)
              /\ AnswersTo(s, data)[k] =
                   [op |-> s[k], data |-> IF s[k] = "Get" THEN data[Rank(s, k)] ELSE Zero]
<1>1. \A k \in 1 .. Len(s) : s[k] = "Get" => Rank(s, k) \in 1 .. Len(data)
  <2> SUFFICES ASSUME NEW k \in 1 .. Len(s), s[k] = "Get" PROVE Rank(s, k) \in 1 .. Len(data)
    OBVIOUS
  <2>1. Rank(s, k) >= 1
    BY RankOfRead
  <2>2. Rank(s, k) <= Rank(s, Len(s))
    BY RankMonotone
  <2>3. Rank(s, k) \in Nat
    BY RankType
  <2> QED
    BY <2>1, <2>2, <2>3 DEF Reads
<1>2. \A k \in 1 .. Len(s) : AnswersTo(s, data)[k] =
        [op |-> s[k], data |-> IF s[k] = "Get" THEN data[Rank(s, k)] ELSE Zero]
  BY <1>1 DEF AnswersTo
<1>3. \A k \in 1 .. Len(s) : AnswersTo(s, data)[k] \in AnswerSet
  <2> SUFFICES ASSUME NEW k \in 1 .. Len(s) PROVE AnswersTo(s, data)[k] \in AnswerSet
    OBVIOUS
  <2>1. s[k] \in Ops
    BY ElementOfSeq
  <2>2. s[k] = "Get" => data[Rank(s, k)] \in Word
    BY <1>1, ElementOfSeq
  <2> DEFINE d == IF s[k] = "Get" THEN data[Rank(s, k)] ELSE Zero
  <2>3. d \in Word
    BY <2>2, ZeroIsWord
  <2>4. AnswersTo(s, data)[k] = [op |-> s[k], data |-> d]
    BY <1>2
  <2> HIDE DEF d
  <2> QED
    BY <2>1, <2>3, <2>4 DEF AnswerSet
<1>4. AnswersTo(s, data) \in [1 .. Len(s) -> AnswerSet]
  <2>1. AnswersTo(s, data) = [k \in 1 .. Len(s) |-> AnswersTo(s, data)[k]]
    BY DEF AnswersTo
  <2> QED
    BY <1>3, <2>1
<1>5. Len(s) \in Nat
  OBVIOUS
<1>6. AnswersTo(s, data) \in Seq(AnswerSet)
  BY <1>4, <1>5, SeqDef
<1>7. DOMAIN AnswersTo(s, data) = 1 .. Len(s)
  BY <1>4
<1>8. Len(AnswersTo(s, data)) = Len(s)
  BY <1>5, <1>6, <1>7
<1> QED
  BY <1>1, <1>2, <1>6, <1>8

LEMMA NoAnswers == ASSUME NEW data PROVE AnswersTo(<<>>, data) = <<>>
<1>1. AnswersTo(<<>>, data) \in [1 .. 0 -> {}]
  BY EmptySeq DEF AnswersTo
<1>2. AnswersTo(<<>>, data) \in Seq({})
  BY <1>1, SeqDef
<1>3. Len(AnswersTo(<<>>, data)) = 0
  BY <1>1, <1>2
<1> QED
  BY <1>2, <1>3, EmptySeq

\* One operation more is one answer more; only a read uses another word.
LEMMA AnswersAppend ==
  ASSUME NEW s \in Seq(Ops), NEW data \in Seq(Word), Len(data) = Reads(s),
         NEW op \in Ops, NEW w \in Word, NEW more,
         op = "Get" => more = Append(data, w),
         op # "Get" => more = data
  PROVE  /\ Len(more) = Reads(Append(s, op))
         /\ AnswersTo(Append(s, op), more) =
              Append(AnswersTo(s, data), [op |-> op, data |-> IF op = "Get" THEN w ELSE Zero])
<1> DEFINE t   == Append(s, op)
           ans == [op |-> op, data |-> IF op = "Get" THEN w ELSE Zero]
           n   == Len(s)
<1>1. /\ t \in Seq(Ops) /\ Len(t) = n + 1 /\ n \in Nat
      /\ \A k \in 1 .. n : t[k] = s[k]
      /\ t[n + 1] = op
  BY AppendProperties
<1>2. \A k \in 0 .. n : Rank(t, k) = Rank(s, k) /\ Rank(s, k) \in Nat
  <2> SUFFICES ASSUME NEW k \in 0 .. n PROVE Rank(t, k) = Rank(s, k) /\ Rank(s, k) \in Nat
    OBVIOUS
  <2> HIDE DEF t
  <2>1. k \in Nat /\ \A j \in 1 .. k : t[j] = s[j]
    BY <1>1
  <2>2. Rank(t, k) = Rank(s, k)
    BY <2>1, RankOfPrefix
  <2> QED
    BY <2>1, <2>2, RankType
<1>3. Rank(t, n + 1) = Rank(s, n) + (IF op = "Get" THEN 1 ELSE 0)
  <2> HIDE DEF t
  <2>1. n \in Nat /\ t[n + 1] = op /\ Rank(t, n) = Rank(s, n)
    BY <1>1, <1>2
  <2> HIDE DEF n
  <2>2. Rank(t, n + 1) = Rank(t, n) + (IF t[n + 1] = "Get" THEN 1 ELSE 0)
    BY <2>1, RankNext
  <2> QED
    BY <2>1, <2>2
<1>4. more \in Seq(Word) /\ Len(more) = Reads(t)
  <2>1. Rank(s, n) = Len(data) /\ Reads(t) = Rank(t, n + 1) /\ Len(data) \in Nat
    BY <1>1 DEF Reads
  <2>2. Append(data, w) \in Seq(Word) /\ Len(Append(data, w)) = Len(data) + 1
    BY AppendProperties
  <2> HIDE DEF t, n
  <2>3. CASE op = "Get"
    BY <1>3, <2>1, <2>2, <2>3
  <2>4. CASE op # "Get"
    BY <1>3, <2>1, <2>4
  <2> QED
    BY <2>3, <2>4
<1>5. ans \in AnswerSet
  BY ZeroIsWord DEF AnswerSet
<1>6. Append(AnswersTo(s, data), ans) \in Seq(AnswerSet)
      /\ Len(Append(AnswersTo(s, data), ans)) = n + 1
  BY <1>5, AnswersType, AppendProperties
<1>7. AnswersTo(t, more) \in Seq(AnswerSet) /\ Len(AnswersTo(t, more)) = n + 1
  <2> HIDE DEF t
  <2> QED
    BY <1>1, <1>4, AnswersType
<1>8. ASSUME NEW k \in 1 .. n + 1
      PROVE  AnswersTo(t, more)[k] = Append(AnswersTo(s, data), ans)[k]
  <2>1. AnswersTo(t, more)[k] =
          [op |-> t[k], data |-> IF t[k] = "Get" THEN more[Rank(t, k)] ELSE Zero]
    <3> HIDE DEF t
    <3> QED
      BY <1>1, <1>4, AnswersType
  <2>2. CASE k <= n
    <3>1. k \in 1 .. n
      BY <2>2, <1>1
    <3>2. Append(AnswersTo(s, data), ans)[k] = AnswersTo(s, data)[k]
      BY <3>1, <1>5, AnswersType, AppendProperties
    <3>3. AnswersTo(s, data)[k] =
            [op |-> s[k], data |-> IF s[k] = "Get" THEN data[Rank(s, k)] ELSE Zero]
      BY <3>1, AnswersType
    <3>4. s[k] = "Get" => Rank(s, k) \in 1 .. Len(data)
      BY <3>1, AnswersType
    <3>5. s[k] = "Get" => more[Rank(t, k)] = data[Rank(s, k)]
      BY <3>1, <3>4, <1>2, AppendProperties
    <3> HIDE DEF t
    <3> QED
      BY <2>1, <3>1, <3>2, <3>3, <3>5, <1>1
  <2>3. CASE k = n + 1
    <3>1. Append(AnswersTo(s, data), ans)[k] = ans
      BY <2>3, <1>5, AnswersType, AppendProperties
    <3>2. op = "Get" => Rank(t, k) = Len(data) + 1
      BY <2>3, <1>3, <1>1, <1>2 DEF Reads
    <3>3. op = "Get" => more = Append(data, w)
      OBVIOUS
    <3>4. op = "Get" => more[Rank(t, k)] = w
      <4>1. Append(data, w)[Len(data) + 1] = w
        BY AppendProperties
      <4> HIDE DEF t
      <4> QED
        BY <3>2, <3>3, <4>1
    <3> HIDE DEF t
    <3> QED
      BY <2>1, <2>3, <3>1, <3>4, <1>1
  <2>4. k <= n \/ k = n + 1
    BY <1>1
  <2> HIDE DEF t, ans
  <2> QED
    BY <2>2, <2>3, <2>4
<1> HIDE DEF t, ans
<1>9. AnswersTo(t, more) = Append(AnswersTo(s, data), ans)
  BY <1>6, <1>7, <1>8, SeqEqual
<1> QED
  BY <1>4, <1>9 DEF t, ans

\* Without the oldest operation its answer is gone, and the word of a read with it.
LEMMA AnswersRest ==
  ASSUME NEW s \in Seq(Ops), s # <<>>,
         NEW data \in Seq(Word), Len(data) = Reads(s), NEW less,
         less = IF Head(s) = "Get" THEN Tail(data) ELSE data
  PROVE  /\ Head(s) = "Get" => data # <<>>
         /\ less \in Seq(Word)
         /\ Len(less) = Reads(Tail(s))
         /\ AnswersTo(s, data) # <<>>
         /\ Head(AnswersTo(s, data)) =
              [op |-> Head(s), data |-> IF Head(s) = "Get" THEN Head(data) ELSE Zero]
         /\ Tail(AnswersTo(s, data)) = AnswersTo(Tail(s), less)
<1> DEFINE t == Tail(s)
           n == Len(s)
           g == IF s[1] = "Get" THEN 1 ELSE 0
           A == AnswersTo(s, data)
<1>1. /\ n \in Nat \ {0} /\ Head(s) = s[1] /\ s[1] \in Ops
      /\ t \in Seq(Ops) /\ Len(t) = n - 1
      /\ \A k \in 1 .. n - 1 : t[k] = s[k + 1]
  BY EmptySeq, HeadTailProperties, ElementOfSeq
<1> HIDE DEF t
<1>2. ASSUME NEW k \in 0 .. n - 1
      PROVE  Rank(s, k + 1) = Rank(t, k) + g /\ Rank(t, k) \in Nat
  <2>1. k \in Nat /\ \A j \in 1 .. k : t[j] = s[j + 1]
    BY <1>1
  <2>2. Rank(s, k + 1) = Rank(t, k) + g
    BY <2>1, RankOfRest
  <2> QED
    BY <2>1, <2>2, RankType
<1>3. Reads(s) = Reads(t) + g /\ Reads(t) \in Nat
  BY <1>1, <1>2 DEF Reads
<1>4. s[1] = "Get" => data # <<>> /\ Rank(s, 1) = 1
  <2>1. Rank(s, 0 + 1) = Rank(s, 0) + g
    BY RankNext
  <2>2. s[1] = "Get" => Len(data) # 0
    BY <1>3
  <2> QED
    BY <2>1, <2>2, RankNone, EmptySeq
<1>5. /\ less \in Seq(Word) /\ Len(less) = Reads(t)
      /\ \A i \in 1 .. Len(less) : less[i] = data[i + g]
  <2>1. CASE s[1] = "Get"
    <3>1. data # <<>> /\ less = Tail(data) /\ g = 1
      BY <2>1, <1>1, <1>4
    <3>2. /\ Tail(data) \in Seq(Word) /\ Len(Tail(data)) = Len(data) - 1
          /\ \A i \in 1 .. Len(Tail(data)) : Tail(data)[i] = data[i + 1]
      BY <3>1, HeadTailProperties
    <3> HIDE DEF g
    <3> QED
      BY <3>1, <3>2, <1>3
  <2>2. CASE s[1] # "Get"
    BY <2>2, <1>1, <1>3
  <2> QED
    BY <2>1, <2>2
<1>6. A \in Seq(AnswerSet) /\ Len(A) = n /\ A # <<>>
  BY <1>1, AnswersType, EmptySeq
<1>7. Head(A) = [op |-> s[1], data |-> IF s[1] = "Get" THEN Head(data) ELSE Zero]
  <2>1. A[1] = [op |-> s[1], data |-> IF s[1] = "Get" THEN data[Rank(s, 1)] ELSE Zero]
    BY <1>1, AnswersType
  <2>2. Head(A) = A[1]
    BY <1>6
  <2>3. s[1] = "Get" => Head(data) = data[Rank(s, 1)]
    BY <1>4
  <2> HIDE DEF A
  <2> QED
    BY <2>1, <2>2, <2>3
<1>8. Tail(A) \in Seq(AnswerSet) /\ Len(Tail(A)) = n - 1
      /\ \A k \in 1 .. n - 1 : Tail(A)[k] = A[k + 1]
  <2> HIDE DEF A
  <2> QED
    BY <1>6, HeadTailProperties
<1>9. AnswersTo(t, less) \in Seq(AnswerSet) /\ Len(AnswersTo(t, less)) = n - 1
  BY <1>1, <1>5, AnswersType
<1>10. ASSUME NEW k \in 1 .. n - 1
       PROVE  Tail(A)[k] = AnswersTo(t, less)[k]
  <2>1. AnswersTo(t, less)[k] =
          [op |-> t[k], data |-> IF t[k] = "Get" THEN less[Rank(t, k)] ELSE Zero]
    <3>1. t \in Seq(Ops) /\ less \in Seq(Word) /\ Len(less) = Reads(t) /\ k \in 1 .. Len(t)
      BY <1>1, <1>5
    <3> QED BY <3>1, AnswersType, Zenon
  <2>2. k + 1 \in 1 .. n /\ k \in 0 .. n - 1 /\ t[k] = s[k + 1]
    BY <1>1
  <2>3. A[k + 1] = [op |-> s[k + 1],
                    data |-> IF s[k + 1] = "Get" THEN data[Rank(s, k + 1)] ELSE Zero]
    BY <2>2, AnswersType
  <2>4. t[k] = "Get" => Rank(t, k) \in 1 .. Len(less)
    BY <1>1, <1>5, AnswersType
  <2>5. t[k] = "Get" => less[Rank(t, k)] = data[Rank(s, k + 1)]
    BY <1>2, <1>5, <2>2, <2>4
  <2> HIDE DEF A
  <2> QED
    BY <1>8, <2>1, <2>2, <2>3, <2>5
<1>11. Tail(A) = AnswersTo(t, less)
  <2> HIDE DEF A
  <2> QED
    BY <1>8, <1>9, <1>10, SeqEqual
<1> QED
  BY <1>1, <1>4, <1>5, <1>6, <1>7, <1>11 DEF t
-----------------------------------------------------------------------------
\* What EveryReadTracked says of the FIFOs, for the read-valid register v.
Tracked(v) == /\ sramreqfifo = (IF v THEN 1 ELSE 0)
              /\ Len(rspfifo) + sramreqfifo = Reads(reqfifo)

\* All data the SRAM returns find room, and a request that passes the request
\* FIFO passes the SRAM-request FIFO.
LEMMA DataFindRoom ==
  ASSUME AdapterTypeOK, NEW v \in BOOLEAN, NEW w \in Word, Tracked(v)
  PROVE  /\ DataBack(v, w) \in Seq(Word)
         /\ Len(DataBack(v, w)) = Reads(reqfifo)
         /\ Len(DataBack(v, w)) <= Len(reqfifo)
         /\ RspFifo(v, w) = DataBack(v, w)
         /\ RspWValid(v) <=> v
         /\ ReqReady => SramReqReady
<1>1. /\ reqfifo \in Seq(Ops) /\ rspfifo \in Seq(Word)
      /\ Len(reqfifo) \in Nat /\ Len(reqfifo) <= Outstanding /\ Len(rspfifo) \in Nat
      /\ Outstanding \in Nat
  BY OutstandingAssumption DEF AdapterTypeOK
<1>2. Reads(reqfifo) \in Nat /\ Reads(reqfifo) <= Len(reqfifo)
  BY <1>1, RankType DEF Reads
<1>3. CASE v
  <2>1. sramreqfifo = 1 /\ Len(rspfifo) = Reads(reqfifo) - 1
    BY <1>1, <1>2, <1>3 DEF Tracked
  <2>2. reqfifo # <<>> /\ RspWValid(v)
    BY <1>1, <1>2, <1>3, <2>1, EmptySeq DEF RspWValid
  <2>3. RspReady /\ (ReqReady => SramReqReady)
    BY <1>1, <1>2, <2>1 DEF RspReady, ReqReady, SramReqReady
  <2>4. DataBack(v, w) = Append(rspfifo, w) /\ RspFifo(v, w) = Append(rspfifo, w)
    BY <2>1, <2>2, <2>3 DEF DataBack, RspFifo, RspWData
  <2>5. Append(rspfifo, w) \in Seq(Word) /\ Len(Append(rspfifo, w)) = Len(rspfifo) + 1
    BY <1>1, AppendProperties
  <2>6. Len(Append(rspfifo, w)) = Reads(reqfifo)
    BY <1>1, <1>2, <2>1, <2>5
  <2> QED
    BY <1>2, <1>3, <2>2, <2>3, <2>4, <2>5, <2>6
<1>4. CASE ~v
  <2>1. sramreqfifo = 0 /\ Len(rspfifo) = Reads(reqfifo)
    BY <1>1, <1>2, <1>4 DEF Tracked
  <2>2. ~RspWValid(v) /\ DataBack(v, w) = rspfifo /\ RspFifo(v, w) = rspfifo
    BY <1>4 DEF RspWValid, DataBack, RspFifo
  <2>3. ReqReady => SramReqReady
    BY <1>1, <2>1 DEF ReqReady, SramReqReady
  <2> QED
    BY <1>1, <1>2, <1>4, <2>1, <2>2, <2>3
<1> QED
  BY <1>3, <1>4

\* The bus takes the oldest answer owed, or none; rest stays owed.
Taken(owed, rest) == \/ rest = owed /\ got' = Nothing
                     \/ owed # <<>> /\ rest = Tail(owed) /\ got' = Head(owed)

\* One clock edge: what was owed, less the answer taken, more the one accepted.
\* The word of a read that was accepted comes back in the next cycle.
LEMMA CycleOfAnswers ==
  ASSUME AdapterTypeOK, NEW v \in BOOLEAN, NEW w \in Word, Tracked(v),
         NEW d_ready \in BOOLEAN, AdapterCycle(TRUE, v, w, d_ready)
  PROVE  /\ reqfifo' \in Seq(Ops) /\ Len(reqfifo') <= Outstanding
         /\ rspfifo' \in Seq(Word) /\ Len(rspfifo') <= Outstanding
         /\ got' \in AnswerSet \cup {Nothing}
         /\ sramreqfifo' = (IF ReqO /\ ~WeO THEN 1 ELSE 0)
         /\ Len(rspfifo') + sramreqfifo' = Reads(reqfifo')
         /\ Len(Owed(v, w)) = Len(reqfifo)
         /\ \E rest :
              /\ Taken(Owed(v, w), rest)
              /\ ~ReqO => AnswersTo(reqfifo', rspfifo') = rest
              /\ ReqO /\ ~WeO =>
                   /\ reqfifo' # <<>>
                   /\ \A x \in Word : AnswersTo(reqfifo', Append(rspfifo', x)) =
                                        Append(rest, [op |-> treq.op, data |-> x])
              /\ ReqO /\ WeO => AnswersTo(reqfifo', rspfifo') =
                                  Append(rest, [op |-> treq.op, data |-> Zero])
<1> DEFINE back == DataBack(v, w)
           owed == Owed(v, w)
           dack == DValid(back) /\ d_ready
           ops  == IF dack THEN Tail(reqfifo) ELSE reqfifo
           rest == IF dack THEN Tail(owed) ELSE owed
<1>1. /\ reqfifo \in Seq(Ops) /\ Len(reqfifo) \in Nat /\ Len(reqfifo) <= Outstanding
      /\ treq \in Request \cup {Nothing} /\ Outstanding \in Nat /\ sramreqfifo \in Nat
  BY OutstandingAssumption DEF AdapterTypeOK
<1>2. /\ back \in Seq(Word) /\ Len(back) = Reads(reqfifo) /\ Len(back) <= Len(reqfifo)
      /\ RspFifo(v, w) = back /\ (RspWValid(v) <=> v) /\ (ReqReady => SramReqReady)
  BY DataFindRoom
<1> HIDE DEF back
<1>3. owed = AnswersTo(reqfifo, back)
  BY DEF Owed, back
<1>4. owed \in Seq(AnswerSet) /\ Len(owed) = Len(reqfifo)
  BY <1>1, <1>2, <1>3, AnswersType
<1> HIDE DEF owed
<1>5. /\ reqfifo' = IF ReqO THEN Append(ops, treq.op) ELSE ops
      /\ sramreqfifo' = IF ReqO /\ ~WeO THEN 1 ELSE 0
      /\ rspfifo' = IF dack /\ RspPop(back) THEN Tail(back) ELSE back
      /\ got' = IF dack THEN Answer(back) ELSE Nothing
  <2>1. AAck(TRUE) <=> ReqO
    BY <1>2 DEF AAck, AReady, ReqO
  <2>2. SramReqNext(TRUE, v) = IF ReqO /\ ~WeO THEN 1 ELSE 0
    BY <1>2, <2>1 DEF SramReqNext, Tracked, AAck, AReady
  <2> QED
    BY <1>2, <2>1, <2>2 DEF AdapterCycle
<1>6. /\ ops \in Seq(Ops) /\ Len(ops) <= Len(reqfifo)
      /\ rspfifo' \in Seq(Word) /\ Len(rspfifo') = Reads(ops)
      /\ AnswersTo(ops, rspfifo') = rest
      /\ Taken(owed, rest)
      /\ got' \in AnswerSet \cup {Nothing}
  <2>1. CASE ~dack
    BY <2>1, <1>1, <1>2, <1>3, <1>5 DEF Taken
  <2>2. CASE dack
    <3>1. reqfifo # <<>>
      BY <2>2 DEF DValid
    <3>2. rspfifo' = IF Head(reqfifo) = "Get" THEN Tail(back) ELSE back
      BY <2>2, <1>5 DEF RspPop, DValid
    <3>3. /\ Head(reqfifo) = "Get" => back # <<>>
          /\ rspfifo' \in Seq(Word)
          /\ Len(rspfifo') = Reads(Tail(reqfifo))
          /\ owed # <<>>
          /\ Head(owed) = [op |-> Head(reqfifo),
                           data |-> IF Head(reqfifo) = "Get" THEN Head(back) ELSE Zero]
          /\ Tail(owed) = AnswersTo(Tail(reqfifo), rspfifo')
      <4>1. reqfifo \in Seq(Ops) /\ back \in Seq(Word) /\ Len(back) = Reads(reqfifo)
        BY <1>1, <1>2
      <4>2. /\ Head(reqfifo) = "Get" => back # <<>>
            /\ rspfifo' \in Seq(Word)
            /\ Len(rspfifo') = Reads(Tail(reqfifo))
            /\ AnswersTo(reqfifo, back) # <<>>
            /\ Head(AnswersTo(reqfifo, back)) =
                 [op |-> Head(reqfifo),
                  data |-> IF Head(reqfifo) = "Get" THEN Head(back) ELSE Zero]
            /\ Tail(AnswersTo(reqfifo, back)) = AnswersTo(Tail(reqfifo), rspfifo')
        BY <3>1, <3>2, <4>1, AnswersRest, Zenon
      <4> QED BY <1>3, <4>2, Zenon
    <3>4. got' = Head(owed)
      BY <2>2, <1>5, <3>3 DEF Answer
    <3>5. Head(owed) \in AnswerSet
      BY <1>4, <3>3, HeadTailProperties
    <3>6. Tail(reqfifo) \in Seq(Ops) /\ Len(Tail(reqfifo)) <= Len(reqfifo)
      BY <1>1, <3>1, HeadTailProperties
    <3> QED
      BY <2>2, <3>3, <3>4, <3>5, <3>6 DEF Taken
  <2> QED
    BY <2>1, <2>2
<1> HIDE DEF ops, rest
<1>7. Reads(ops) \in Nat /\ Reads(ops) <= Len(ops) /\ Len(ops) \in Nat
  BY <1>6, RankType DEF Reads
<1>8. CASE ~ReqO
  <2>1. reqfifo' = ops /\ sramreqfifo' = 0
    BY <1>5, <1>8
  <2>2. AnswersTo(reqfifo', rspfifo') = rest
    BY <1>6, <2>1
  <2> QED
    BY <1>1, <1>4, <1>6, <1>7, <1>8, <2>1, <2>2 DEF owed
<1>9. CASE ReqO
  <2>1. treq.op \in Ops /\ Len(reqfifo) < Outstanding
    BY <1>1, <1>9 DEF ReqO, ReqReady, Request
  <2>2. /\ reqfifo' = Append(ops, treq.op) /\ reqfifo' \in Seq(Ops)
        /\ Len(reqfifo') = Len(ops) + 1 /\ reqfifo' # <<>>
    BY <1>5, <1>6, <1>9, <2>1, AppendProperties
  <2>3. Len(reqfifo') <= Outstanding /\ Len(rspfifo') <= Outstanding
    BY <1>1, <1>6, <1>7, <2>1, <2>2
  <2>4. CASE treq.op = "Get"
    <3>1. ReqO /\ ~WeO /\ sramreqfifo' = 1
      BY <1>5, <1>9, <2>4 DEF WeO
    <3>2. \A x \in Word :
            /\ Len(Append(rspfifo', x)) = Reads(reqfifo')
            /\ AnswersTo(reqfifo', Append(rspfifo', x)) = Append(rest, [op |-> treq.op, data |-> x])
      <4> SUFFICES ASSUME NEW x \in Word
                   PROVE  /\ Len(Append(rspfifo', x)) = Reads(reqfifo')
                          /\ AnswersTo(reqfifo', Append(rspfifo', x)) =
                               Append(rest, [op |-> treq.op, data |-> x])
        OBVIOUS
      <4>1. /\ Len(Append(rspfifo', x)) = Reads(Append(ops, treq.op))
            /\ AnswersTo(Append(ops, treq.op), Append(rspfifo', x)) =
                 Append(AnswersTo(ops, rspfifo'), [op |-> treq.op, data |-> x])
        <5> DEFINE op == treq.op
                   data == rspfifo'
                   more == Append(data, x)
        <5>1. /\ op \in Ops /\ data \in Seq(Word) /\ Len(data) = Reads(ops)
              /\ op = "Get" => more = Append(data, x)
              /\ op # "Get" => more = data
              /\ ops \in Seq(Ops)
          BY <1>6, <2>1, <2>4
        <5>3. [op |-> op, data |-> IF op = "Get" THEN x ELSE Zero] = [op |-> op, data |-> x]
          BY <2>4
        <5> HIDE DEF op, data, more
        <5>2. /\ Len(more) = Reads(Append(ops, op))
              /\ AnswersTo(Append(ops, op), more) =
                   Append(AnswersTo(ops, data), [op |-> op, data |-> IF op = "Get" THEN x ELSE Zero])
          BY ONLY <5>1, x \in Word, AnswersAppend
        <5> QED
          BY <5>1, <5>2, <5>3 DEF op, data, more
      <4> QED
        BY <1>6, <2>2, <4>1
    <3>3. Len(rspfifo') + 1 = Reads(reqfifo')
      <4>1. Len(Append(rspfifo', Zero)) = Len(rspfifo') + 1
        BY <1>6, ZeroIsWord, AppendProperties
      <4> QED
        BY <3>2, <4>1, ZeroIsWord
    <3> QED
      BY <1>4, <1>6, <2>2, <2>3, <3>1, <3>2, <3>3 DEF owed
  <2>5. CASE treq.op # "Get"
    <3>1. treq.op = "Put"
      BY <2>1, <2>5, OpsAssumption
    <3>2. ReqO /\ WeO /\ sramreqfifo' = 0
      BY <1>5, <1>9, <3>1 DEF WeO, ReqO
    <3>3. /\ Len(rspfifo') = Reads(reqfifo')
          /\ AnswersTo(reqfifo', rspfifo') = Append(rest, [op |-> treq.op, data |-> Zero])
      BY <1>6, <2>1, <2>2, <3>1, ZeroIsWord, AnswersAppend
    <3> QED
      BY <1>4, <1>6, <1>7, <2>2, <2>3, <3>2, <3>3 DEF owed
  <2> QED
    BY <2>4, <2>5
<1> QED
  BY <1>8, <1>9
============================================================================
