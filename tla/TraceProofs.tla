------------------------- MODULE TraceProofs ---------------------------------
(***************************************************************************)
(* The walk of compare_trace_csv gives the verdict of the definition, for  *)
(* every pair of traces; and the driver that calls it reports every job    *)
(* once and on the program its seed regenerates, for every testlist, every *)
(* batch size and every sequence of invocations.                           *)
(***************************************************************************)
EXTENDS TraceCompare, Regression, FiniteSetTheorems, SequenceTheorems,
        WellFoundedInduction, TLAPS

\* The two traces agree as far as row m of one and row n of the other.
AgreeUpTo(s, m, t, n) ==
  \A n1 \in ChangedRows(s), n2 \in ChangedRows(t) :
    n1 =< m /\ n2 =< n /\ Rank(s, n1) = Rank(t, n2) => s[n1] = t[n2]

\* The indices stand at rows that changed the registers equally often; while
\* trace 2 is searched, trace 1 is one change ahead.
Paired ==
  /\ loop \in {"next", "rest"} => Rank(t1, i1) = Rank(t2, i2)
  /\ loop = "seek" => i1 \in ChangedRows(t1) /\ Rank(t1, i1) = Rank(t2, i2) + 1
  /\ loop = "rest" => i1 = Len(t1)

RegistersTracked ==
  /\ gpr1 = Before(t1, i1 + 1)
  /\ loop # "done" => gpr2 = Before(t2, i2 + 1)

\* The outer loop goes on only while trace 2 does.
NotAtLastChange ==
  loop \in {"next", "seek"} => (i2 = Len(t2) => i2 \notin ChangedRows(t2))

Counted ==
  loop # "done" =>
    /\ mismatch_cnt = 0 <=> AgreeUpTo(t1, i1, t2, i2)
    /\ mismatch_cnt = 0 => matched_cnt = Rank(t2, i2)

IInv == CompareTypeOK /\ RegistersTracked /\ Paired /\ NotAtLastChange /\ Counted /\ VerdictExact

-----------------------------------------------------------------------------
LEMMA LastType ==
  ASSUME NEW n \in Nat, NEW S \in SUBSET (1..n), S # {}
  PROVE  Latest(S) \in S
<1> DEFINE T == {n - m : m \in S}
<1>1. T \in SUBSET Nat /\ T # {}
  <2>1. \A m \in S : m \in Nat /\ n - m \in Nat
    OBVIOUS
  <2>2. PICK m \in S : TRUE
    OBVIOUS
  <2>3. n - m \in T
    BY <2>2
  <2>4. \A d \in T : d \in Nat
    BY <2>1
  <2> QED
    BY <2>3, <2>4
<1>2. PICK least \in T : \A m \in T : least =< m
  <2> DEFINE Less == OpToRel(<, Nat)
  <2>1. PICK x \in T : \A y \in T : <<y, x>> \notin Less
    <3>1. IsWellFoundedOn(Less, Nat)
      BY NatLessThanWellFounded
    <3> HIDE DEF Less
    <3> QED
      BY <1>1, <3>1, WFMin
  <2> HIDE DEF T
  <2>2. \A y \in T : ~(y < x)
    BY <1>1, <2>1 DEF OpToRel
  <2>3. \A y \in T : y \in Nat
    BY <1>1
  <2>4. \A y \in T : x =< y
    BY <2>2, <2>3
  <2> QED
    BY <2>4
<1>3. PICK top \in S : least = n - top
  OBVIOUS
<1>4. \A m \in S : m =< top
  <2>1. \A m \in S : n - top =< n - m
    BY <1>2, <1>3
  <2> QED
    BY <2>1
<1> QED
  BY <1>4 DEF Latest

LEMMA LastOfTop ==
  ASSUME NEW n \in Nat, NEW S \in SUBSET (1..n), n \in S
  PROVE  Latest(S) = n
<1>1. n \in S /\ \A m \in S : m =< n
  OBVIOUS
<1>2. \A x \in S : (\A m \in S : m =< x) => x = n
  <2> SUFFICES ASSUME NEW x \in S, \A m \in S : m =< x
               PROVE  x = n
    OBVIOUS
  <2>1. n =< x /\ x =< n /\ x \in Nat
    BY <1>1
  <2> QED
    BY <2>1
<1> QED
  BY <1>1, <1>2 DEF Latest

LEMMA RowTypes ==
  ASSUME NEW t \in Seq(Rows), NEW n \in DOMAIN t
  PROVE  /\ n \in Nat /\ n >= 1 /\ n =< Len(t)
         /\ t[n] \in Rows /\ Len(t[n]) \in Nat /\ DOMAIN t[n] = 1..Len(t[n])
         /\ \A k \in DOMAIN t[n] : t[n][k] \in Regs \X Values
<1>1. t[n] \in Rows /\ n \in 1..Len(t) /\ Len(t) \in Nat
  OBVIOUS
<1>2. t[n] \in Seq(Regs \X Values)
  BY <1>1 DEF Rows
<1>3. Len(t[n]) \in Nat /\ DOMAIN t[n] = 1..Len(t[n])
  BY <1>2
<1>4. \A k \in DOMAIN t[n] : t[n][k] \in Regs \X Values
  BY <1>2
<1> QED
  BY <1>1, <1>3, <1>4

LEMMA UpdatedType ==
  ASSUME NEW t \in Seq(Rows), NEW n \in DOMAIN t, NEW g \in [Regs -> Values]
  PROVE  Updated(t[n], g) \in [Regs -> Values]
<1> DEFINE entry == t[n]
           W(r) == {m \in 1..Len(entry) : entry[m][1] = r}
<1>1. \A r \in Regs : W(r) # {} => entry[Latest(W(r))][2] \in Values
  <2> SUFFICES ASSUME NEW r \in Regs, W(r) # {}
               PROVE  entry[Latest(W(r))][2] \in Values
    OBVIOUS
  <2>1. Len(entry) \in Nat /\ W(r) \in SUBSET (1..Len(entry))
    BY RowTypes
  <2>2. Latest(W(r)) \in W(r)
    BY <2>1, LastType
  <2>3. entry[Latest(W(r))] \in Regs \X Values
    BY <2>2, RowTypes
  <2> QED
    BY <2>3
<1> QED
  BY <1>1 DEF Updated, AfterWrites

-----------------------------------------------------------------------------
\* The register file the walk keeps is the one each row finds.
LEMMA BeforeFirst ==
  ASSUME NEW t \in Seq(Rows)
  PROVE  Before(t, 1) = Zero
  BY DEF Before, Writers, Zero

LEMMA BeforeStep ==
  ASSUME NEW t \in Seq(Rows), NEW n \in DOMAIN t
  PROVE  Before(t, n + 1) = Updated(t[n], Before(t, n))
<1> DEFINE entry == t[n]
           W(r) == {m \in 1..Len(entry) : entry[m][1] = r}
<1>1. n \in Nat /\ n >= 1 /\ Len(entry) \in Nat /\ DOMAIN entry = 1..Len(entry)
  BY RowTypes
<1>2. \A r \in Regs : W(r) # {} =>
        Before(t, n + 1)[r] = Updated(entry, Before(t, n))[r]
  <2> SUFFICES ASSUME NEW r \in Regs, W(r) # {}
               PROVE  Before(t, n + 1)[r] = Updated(entry, Before(t, n))[r]
    OBVIOUS
  <2>1. n \in Writers(t, n + 1, r)
    BY <1>1 DEF Writers
  <2>2. Writers(t, n + 1, r) \in SUBSET (1..n)
    BY <1>1 DEF Writers
  <2>3. Latest(Writers(t, n + 1, r)) = n
    BY <1>1, <2>1, <2>2, LastOfTop
  <2>4. Before(t, n + 1)[r] = Updated(entry, Zero)[r]
    BY <2>1, <2>3 DEF Before
  <2>5. Updated(entry, Zero)[r] = entry[Latest(W(r))][2]
    BY DEF Updated, AfterWrites
  <2>6. Updated(entry, Before(t, n))[r] = entry[Latest(W(r))][2]
    BY DEF Updated, AfterWrites
  <2> QED
    BY <2>4, <2>5, <2>6
<1>3. \A r \in Regs : W(r) = {} =>
        Before(t, n + 1)[r] = Updated(entry, Before(t, n))[r]
  <2> SUFFICES ASSUME NEW r \in Regs, W(r) = {}
               PROVE  Before(t, n + 1)[r] = Updated(entry, Before(t, n))[r]
    OBVIOUS
  <2>1. Writers(t, n + 1, r) = Writers(t, n, r)
    <3>1. \A k \in DOMAIN entry : entry[k][1] # r
      BY <1>1
    <3>2. (n + 1) - 1 = n /\ 1..n = (1..(n - 1)) \cup {n}
      BY <1>1
    <3> QED
      BY <3>1, <3>2 DEF Writers
  <2>2. Before(t, n + 1)[r] = Before(t, n)[r]
    BY <2>1 DEF Before
  <2>3. Updated(entry, Before(t, n))[r] = Before(t, n)[r]
    BY DEF Updated, AfterWrites
  <2> QED
    BY <2>2, <2>3
<1> QED
  BY <1>2, <1>3 DEF Before, Updated, AfterWrites

LEMMA ChangedAt ==
  ASSUME NEW t \in Seq(Rows), NEW n \in DOMAIN t
  PROVE  n \in ChangedRows(t) <=> Changes(t[n], Before(t, n))
  BY DEF ChangedRows

-----------------------------------------------------------------------------
\* Counting the rows that change a register.
LEMMA RankType ==
  ASSUME NEW t \in Seq(Rows), NEW n \in Nat
  PROVE  /\ IsFiniteSet(ChangedRows(t) \cap 1..n)
         /\ Rank(t, n) \in Nat
<1>1. IsFiniteSet(1..n)
  BY FS_Interval
<1>2. IsFiniteSet(ChangedRows(t) \cap 1..n)
  BY <1>1, FS_Subset
<1> QED
  BY <1>2, FS_CardinalityType DEF Rank

LEMMA RankZero ==
  ASSUME NEW t \in Seq(Rows)
  PROVE  Rank(t, 0) = 0
<1>1. ChangedRows(t) \cap 1..0 = {}
  OBVIOUS
<1> QED
  BY <1>1, FS_EmptySet DEF Rank

LEMMA RankStep ==
  ASSUME NEW t \in Seq(Rows), NEW n \in Nat
  PROVE  Rank(t, n + 1) = IF n + 1 \in ChangedRows(t) THEN Rank(t, n) + 1
                                                      ELSE Rank(t, n)
<1> DEFINE A == ChangedRows(t) \cap 1..n
           B == ChangedRows(t) \cap 1..(n + 1)
<1>1. IsFiniteSet(A)
  BY RankType
<1>2. CASE n + 1 \in ChangedRows(t)
  <2>1. B = A \cup {n + 1} /\ n + 1 \notin A
    BY <1>2
  <2>2. Cardinality(B) = Cardinality(A) + 1
    BY <1>1, <2>1, FS_AddElement
  <2> QED
    BY <1>2, <2>2 DEF Rank
<1>3. CASE n + 1 \notin ChangedRows(t)
  <2>1. B = A
    BY <1>3
  <2> QED
    BY <1>3, <2>1 DEF Rank
<1> QED
  BY <1>2, <1>3

LEMMA RankMonotone ==
  ASSUME NEW t \in Seq(Rows), NEW m \in Nat, NEW n \in Nat, m =< n
  PROVE  Rank(t, m) =< Rank(t, n)
<1>1. IsFiniteSet(ChangedRows(t) \cap 1..n)
  BY RankType
<1>2. ChangedRows(t) \cap 1..m \in SUBSET (ChangedRows(t) \cap 1..n)
  OBVIOUS
<1> QED
  BY <1>1, <1>2, FS_Subset DEF Rank

LEMMA RankStrict ==
  ASSUME NEW t \in Seq(Rows), NEW m \in Nat, NEW n \in ChangedRows(t), m < n
  PROVE  Rank(t, m) < Rank(t, n)
<1>1. n \in Nat /\ n - 1 \in Nat /\ m =< n - 1 /\ (n - 1) + 1 = n
  BY DEF ChangedRows
<1>2. Rank(t, n) = Rank(t, n - 1) + 1
  BY <1>1, RankStep
<1>3. Rank(t, m) =< Rank(t, n - 1)
  BY <1>1, RankMonotone
<1>4. Rank(t, m) \in Nat /\ Rank(t, n - 1) \in Nat
  BY <1>1, RankType
<1> QED
  BY <1>2, <1>3, <1>4

LEMMA ChangedType ==
  ASSUME NEW t \in Seq(Rows), NEW n \in ChangedRows(t)
  PROVE  n \in Nat /\ n >= 1 /\ n =< Len(t) /\ n \in DOMAIN t /\ Rank(t, n) \in Nat
<1>1. n \in DOMAIN t
  BY DEF ChangedRows
<1>2. n \in Nat /\ n >= 1 /\ n =< Len(t)
  BY <1>1, RowTypes
<1> QED
  BY <1>1, <1>2, RankType

-----------------------------------------------------------------------------
\* How the agreement grows with the indices.
LEMMA SkipFirst ==
  ASSUME NEW s \in Seq(Rows), NEW t \in Seq(Rows), NEW m \in Nat, NEW n \in Nat,
         m + 1 \notin ChangedRows(s)
  PROVE  AgreeUpTo(s, m + 1, t, n) <=> AgreeUpTo(s, m, t, n)
<1>1. \A n1 \in ChangedRows(s) : n1 =< m + 1 <=> n1 =< m
  BY ChangedType
<1> QED
  BY <1>1 DEF AgreeUpTo

LEMMA SkipSecond ==
  ASSUME NEW s \in Seq(Rows), NEW t \in Seq(Rows), NEW m \in Nat, NEW n \in Nat,
         n + 1 \notin ChangedRows(t)
  PROVE  AgreeUpTo(s, m, t, n + 1) <=> AgreeUpTo(s, m, t, n)
<1>1. \A n2 \in ChangedRows(t) : n2 =< n + 1 <=> n2 =< n
  BY ChangedType
<1> QED
  BY <1>1 DEF AgreeUpTo

\* A row that is one change ahead has no counterpart yet.
LEMMA AheadFirst ==
  ASSUME NEW s \in Seq(Rows), NEW t \in Seq(Rows), NEW m \in Nat, NEW n \in Nat,
         m + 1 \in ChangedRows(s), Rank(s, m + 1) = Rank(t, n) + 1
  PROVE  AgreeUpTo(s, m + 1, t, n) <=> AgreeUpTo(s, m, t, n)
<1>1. Rank(t, n) \in Nat
  BY RankType
<1>2. \A n2 \in ChangedRows(t) : n2 =< n => Rank(t, n2) < Rank(s, m + 1)
  <2> SUFFICES ASSUME NEW n2 \in ChangedRows(t), n2 =< n
               PROVE  Rank(t, n2) < Rank(s, m + 1)
    OBVIOUS
  <2>1. n2 \in Nat /\ Rank(t, n2) \in Nat
    BY ChangedType
  <2>2. Rank(t, n2) =< Rank(t, n)
    BY <2>1, RankMonotone
  <2> QED
    BY <1>1, <2>1, <2>2
<1>3. \A n2 \in ChangedRows(t) : n2 =< n => Rank(s, m + 1) # Rank(t, n2)
  <2>1. \A n2 \in ChangedRows(t) : Rank(t, n2) \in Nat
    BY ChangedType
  <2> QED
    BY <1>1, <1>2, <2>1
<1>4. \A n1 \in ChangedRows(s) : n1 =< m + 1 <=> n1 =< m \/ n1 = m + 1
  BY ChangedType
<1>5. AgreeUpTo(s, m + 1, t, n) => AgreeUpTo(s, m, t, n)
  BY <1>4 DEF AgreeUpTo
<1>6. AgreeUpTo(s, m, t, n) => AgreeUpTo(s, m + 1, t, n)
  BY <1>3, <1>4 DEF AgreeUpTo
<1> QED
  BY <1>5, <1>6

\* The row found in trace 2 is compared with the one waiting in trace 1.
LEMMA PairFound ==
  ASSUME NEW s \in Seq(Rows), NEW t \in Seq(Rows), NEW m \in ChangedRows(s), NEW n \in Nat,
         n + 1 \in ChangedRows(t), Rank(s, m) = Rank(t, n) + 1
  PROVE  AgreeUpTo(s, m, t, n + 1) <=> AgreeUpTo(s, m, t, n) /\ s[m] = t[n + 1]
<1>1. Rank(t, n + 1) = Rank(s, m) /\ m \in Nat /\ Rank(s, m) \in Nat
  BY RankStep, ChangedType
<1>2. \A n1 \in ChangedRows(s) : n1 =< m /\ Rank(s, n1) = Rank(s, m) => n1 = m
  <2> SUFFICES ASSUME NEW n1 \in ChangedRows(s), n1 < m
               PROVE  Rank(s, n1) # Rank(s, m)
    BY <1>1, ChangedType
  <2>1. n1 \in Nat /\ Rank(s, n1) \in Nat
    BY ChangedType
  <2>2. Rank(s, n1) < Rank(s, m)
    BY <2>1, RankStrict
  <2> QED
    BY <1>1, <2>1, <2>2
<1>3. \A n2 \in ChangedRows(t) : n2 =< n + 1 <=> n2 =< n \/ n2 = n + 1
  BY ChangedType
<1>4. AgreeUpTo(s, m, t, n + 1) => AgreeUpTo(s, m, t, n)
  BY <1>3 DEF AgreeUpTo
<1>5. AgreeUpTo(s, m, t, n + 1) => s[m] = t[n + 1]
  BY <1>1 DEF AgreeUpTo
<1>6. AgreeUpTo(s, m, t, n) /\ s[m] = t[n + 1] => AgreeUpTo(s, m, t, n + 1)
  BY <1>1, <1>2, <1>3 DEF AgreeUpTo
<1> QED
  BY <1>4, <1>5, <1>6

\* When trace 2 is used up, nothing else can be paired.
LEMMA AgreeToTheEnd ==
  ASSUME NEW s \in Seq(Rows), NEW t \in Seq(Rows), NEW m \in Nat,
         Rank(s, m) = Rank(t, Len(t))
  PROVE  AgreeUpTo(s, m, t, Len(t)) <=> SameChanges(s, t)
<1>1. \A n2 \in ChangedRows(t) : n2 =< Len(t)
  BY ChangedType
<1>2. \A n1 \in ChangedRows(s), n2 \in ChangedRows(t) :
        Rank(s, n1) = Rank(t, n2) => n1 =< m
  <2> SUFFICES ASSUME NEW n1 \in ChangedRows(s), NEW n2 \in ChangedRows(t), m < n1
               PROVE  Rank(s, n1) # Rank(t, n2)
    BY ChangedType
  <2>1. Rank(s, m) < Rank(s, n1)
    BY RankStrict
  <2>2. n2 \in Nat /\ n2 =< Len(t) /\ Len(t) \in Nat /\ Rank(t, n2) \in Nat
    BY ChangedType
  <2>3. Rank(t, n2) =< Rank(t, Len(t))
    BY <2>2, RankMonotone
  <2>4. Rank(s, n1) \in Nat /\ Rank(s, m) \in Nat
    BY ChangedType, RankType
  <2> QED
    BY <2>1, <2>2, <2>3, <2>4
<1> QED
  BY <1>1, <1>2 DEF AgreeUpTo, SameChanges

-----------------------------------------------------------------------------
LEMMA InitIInv == CompareInit => IInv
<1> SUFFICES ASSUME CompareInit PROVE IInv
  OBVIOUS
<1>1. t1 \in Seq(Rows) /\ t2 \in Seq(Rows)
  BY TracesAssumption DEF CompareInit
<1>2. Zero \in [Regs -> Values]
  BY ValuesAssumption DEF Zero
<1>3. CompareTypeOK
  <2>1. Len(t1) \in Nat /\ Len(t2) \in Nat
    BY <1>1
  <2> QED
    BY <1>2, <2>1 DEF CompareInit, CompareTypeOK
<1>4. RegistersTracked
  BY <1>1, BeforeFirst DEF CompareInit, RegistersTracked
<1>5. Paired
  BY <1>1, RankZero DEF CompareInit, Paired
<1>6. 0 \notin ChangedRows(t1) /\ 0 \notin ChangedRows(t2)
  BY <1>1, ChangedType
<1>7. NotAtLastChange
  BY <1>6 DEF CompareInit, NotAtLastChange
<1>8. AgreeUpTo(t1, 0, t2, 0)
  <2>1. \A n1 \in ChangedRows(t1) : ~(n1 =< 0)
    BY <1>1, ChangedType
  <2> QED
    BY <2>1 DEF AgreeUpTo
<1>9. Counted
  BY <1>1, <1>8, RankZero DEF CompareInit, Counted
<1>10. VerdictExact
  BY DEF CompareInit, VerdictExact
<1> QED
  BY <1>3, <1>4, <1>5, <1>7, <1>9, <1>10 DEF IInv

LEMMA StepIInv == IInv /\ [CompareNext]_compareVars => IInv'
<1> SUFFICES ASSUME IInv, [CompareNext]_compareVars PROVE IInv'
  OBVIOUS
<1> USE DEF IInv
<1>1. /\ t1 \in Seq(Rows) /\ t2 \in Seq(Rows)
      /\ Len(t1) \in Nat /\ Len(t2) \in Nat
      /\ DOMAIN t1 = 1..Len(t1) /\ DOMAIN t2 = 1..Len(t2)
      /\ i1 \in Nat /\ i2 \in Nat /\ i1 =< Len(t1) /\ i2 =< Len(t2)
  <2>1. t1 \in Seq(Rows) /\ t2 \in Seq(Rows)
    BY TracesAssumption DEF CompareTypeOK
  <2> QED
    BY <2>1 DEF CompareTypeOK
<1>2. Rank(t1, i1) \in Nat /\ Rank(t2, i2) \in Nat
  BY <1>1, RankType
<1>3. CASE NextRow
  <2>1. /\ loop = "next" /\ i1' = i1 + 1 /\ i1 + 1 \in DOMAIN t1 /\ i1 + 1 \in Nat
        /\ UNCHANGED <<t1, t2, i2, gpr2, matched_cnt, mismatch_cnt>>
        /\ loop' \in {"seek", "next"}
    BY <1>1, <1>3 DEF NextRow
  <2>2. loop' = "seek" <=> i1 + 1 \in ChangedRows(t1)
    BY <1>1, <1>3, <2>1, ChangedAt DEF NextRow, RegistersTracked
  <2>3. Rank(t1, i1 + 1) = IF i1 + 1 \in ChangedRows(t1) THEN Rank(t1, i1) + 1
                                                        ELSE Rank(t1, i1)
    BY <1>1, RankStep
  <2>4. Rank(t1, i1) = Rank(t2, i2)
    BY <2>1 DEF Paired
  <2>5. AgreeUpTo(t1, i1 + 1, t2, i2) <=> AgreeUpTo(t1, i1, t2, i2)
    BY <1>1, <2>3, <2>4, SkipFirst, AheadFirst
  <2>6. CompareTypeOK'
    <3>1. gpr1' \in [Regs -> Values]
      BY <1>1, <1>3, <2>1, UpdatedType DEF NextRow, CompareTypeOK
    <3> QED
      BY <1>1, <2>1, <3>1 DEF CompareTypeOK
  <2>7. RegistersTracked'
    <3>1. gpr1' = Before(t1, (i1 + 1) + 1)
      BY <1>1, <1>3, <2>1, BeforeStep DEF NextRow, RegistersTracked
    <3> QED
      BY <2>1, <3>1 DEF RegistersTracked
  <2>8. Paired'
    BY <2>1, <2>2, <2>3, <2>4 DEF Paired
  <2>9. NotAtLastChange'
    BY <2>1 DEF NotAtLastChange
  <2>10. Counted'
    BY <2>1, <2>5 DEF Counted
  <2>11. VerdictExact'
    BY <2>1 DEF VerdictExact
  <2> QED
    BY <2>6, <2>7, <2>8, <2>9, <2>10, <2>11
<1>4. CASE SeekRow
  <2> DEFINE same == t1[i1] = t2[i2 + 1]
  <2>1. /\ loop = "seek" /\ i2' = i2 + 1 /\ i2 + 1 \in DOMAIN t2 /\ i2 + 1 \in Nat
        /\ i2 + 1 =< Len(t2)
        /\ UNCHANGED <<t1, t2, i1, gpr1>>
    <3>1. /\ loop = "seek" /\ i2 < Len(t2) /\ i2' = i2 + 1
          /\ UNCHANGED <<t1, t2, i1, gpr1>>
      BY <1>4 DEF SeekRow
    <3> QED
      BY <1>1, <3>1
  <2>2. Changes(t2[i2 + 1], gpr2) <=> i2 + 1 \in ChangedRows(t2)
    BY <1>1, <2>1, ChangedAt DEF RegistersTracked
  <2>3. Rank(t2, i2 + 1) = IF i2 + 1 \in ChangedRows(t2) THEN Rank(t2, i2) + 1
                                                        ELSE Rank(t2, i2)
    BY <1>1, RankStep
  <2>4. i1 \in ChangedRows(t1) /\ Rank(t1, i1) = Rank(t2, i2) + 1
    BY <2>1 DEF Paired
  <2>5. gpr2' \in [Regs -> Values]
    BY <1>1, <1>4, <2>1, UpdatedType DEF SeekRow, CompareTypeOK
  <2>6. RegistersTracked'
    <3>1. gpr2' = Before(t2, (i2 + 1) + 1)
      BY <1>1, <1>4, <2>1, BeforeStep DEF SeekRow, RegistersTracked
    <3> QED
      BY <2>1, <3>1 DEF RegistersTracked
  <2>7. CASE i2 + 1 \notin ChangedRows(t2)
    <3>1. loop' = "seek" /\ UNCHANGED <<matched_cnt, mismatch_cnt>>
      BY <1>4, <2>1, <2>2, <2>7 DEF SeekRow
    <3>2. AgreeUpTo(t1, i1, t2, i2 + 1) <=> AgreeUpTo(t1, i1, t2, i2)
      BY <1>1, <2>7, SkipSecond
    <3>3. CompareTypeOK'
      BY <1>1, <2>1, <2>5, <3>1 DEF CompareTypeOK
    <3>4. Paired'
      BY <2>1, <2>3, <2>4, <2>7, <3>1 DEF Paired
    <3>5. NotAtLastChange'
      BY <2>1, <2>7, <3>1 DEF NotAtLastChange
    <3>6. Counted'
      BY <2>1, <2>3, <2>7, <3>1, <3>2 DEF Counted
    <3>7. VerdictExact'
      BY <3>1 DEF VerdictExact
    <3> QED
      BY <2>6, <3>3, <3>4, <3>5, <3>6, <3>7
  <2>8. CASE i2 + 1 \in ChangedRows(t2)
    <3>1. /\ loop' = IF i2 + 1 = Len(t2) THEN "done" ELSE "next"
          /\ same => matched_cnt' = matched_cnt + 1 /\ mismatch_cnt' = mismatch_cnt
          /\ ~same => matched_cnt' = matched_cnt /\ mismatch_cnt' = mismatch_cnt + 1
      BY <1>4, <2>1, <2>2, <2>8 DEF SeekRow
    <3>2. matched_cnt \in Nat /\ mismatch_cnt \in Nat
      BY DEF CompareTypeOK
    <3>3. AgreeUpTo(t1, i1, t2, i2 + 1) <=> AgreeUpTo(t1, i1, t2, i2) /\ same
      BY <1>1, <2>4, <2>8, PairFound
    <3>4. mismatch_cnt' = 0 <=> AgreeUpTo(t1, i1, t2, i2 + 1)
      BY <2>1, <3>1, <3>2, <3>3 DEF Counted
    <3>5. Rank(t2, i2 + 1) = Rank(t2, i2) + 1 /\ Rank(t1, i1) = Rank(t2, i2 + 1)
      BY <2>3, <2>4, <2>8
    <3>6. mismatch_cnt' = 0 => matched_cnt' = Rank(t2, i2 + 1)
      BY <2>1, <3>1, <3>2, <3>5 DEF Counted
    <3>7. CompareTypeOK'
      <4>1. matched_cnt' \in Nat /\ mismatch_cnt' \in Nat
        BY <3>1, <3>2
      <4>2. loop' \in {"next", "done"}
        BY <3>1
      <4> QED
        BY <1>1, <2>1, <2>5, <4>1, <4>2 DEF CompareTypeOK
    <3>8. Paired'
      BY <2>1, <3>1, <3>5 DEF Paired
    <3>9. NotAtLastChange'
      BY <2>1, <3>1 DEF NotAtLastChange
    <3>10. Counted'
      BY <2>1, <3>4, <3>6 DEF Counted
    <3>11. VerdictExact'
      <4> SUFFICES ASSUME i2 + 1 = Len(t2)
                   PROVE  VerdictExact'
        BY <3>1 DEF VerdictExact
      <4>1. AgreeUpTo(t1, i1, t2, Len(t2)) <=> SameChanges(t1, t2)
        BY <1>1, <3>5, AgreeToTheEnd
      <4>2. Rank(t2, Len(t2)) =< Rank(t1, Len(t1))
        BY <1>1, <3>5, RankMonotone
      <4>3. Rank(t1, Len(t1)) \in Nat /\ Rank(t2, Len(t2)) \in Nat
        BY <1>1, RankType
      <4>4. Passes(t1, t2) <=> SameChanges(t1, t2)
        BY <2>8, <4>2, <4>3 DEF Passes
      <4> QED
        BY <2>1, <3>4, <3>6, <4>1, <4>4 DEF VerdictExact
    <3> QED
      BY <2>6, <3>7, <3>8, <3>9, <3>10, <3>11
  <2> QED
    BY <2>7, <2>8
<1>5. CASE SeekEnd
  <2>1. /\ loop = "seek" /\ i2 = Len(t2) /\ loop' = "done"
        /\ mismatch_cnt' = mismatch_cnt + 1
        /\ UNCHANGED <<t1, t2, i1, i2, gpr1, gpr2, matched_cnt>>
    BY <1>5 DEF SeekEnd
  <2>2. mismatch_cnt' \in Nat /\ mismatch_cnt' # 0
    BY <2>1 DEF CompareTypeOK
  <2>3. Rank(t1, i1) = Rank(t2, Len(t2)) + 1 /\ Len(t2) \notin ChangedRows(t2)
    BY <2>1 DEF Paired, NotAtLastChange
  <2>4. Rank(t1, i1) =< Rank(t1, Len(t1)) /\ Rank(t1, Len(t1)) \in Nat
    BY <1>1, RankMonotone, RankType
  <2>5. ~Passes(t1, t2)
    BY <1>2, <2>1, <2>3, <2>4 DEF Passes
  <2>6. VerdictExact'
    BY <2>1, <2>2, <2>5 DEF VerdictExact
  <2>7. CompareTypeOK'
    BY <2>1, <2>2 DEF CompareTypeOK
  <2> QED
    BY <2>1, <2>6, <2>7 DEF RegistersTracked, Paired, NotAtLastChange, Counted
<1>6. CASE LoopEnd
  <2>1. /\ loop = "next" /\ i1 = Len(t1) /\ loop' = "rest"
        /\ UNCHANGED <<t1, t2, i1, i2, gpr1, gpr2, matched_cnt, mismatch_cnt>>
    BY <1>6 DEF LoopEnd
  <2>2. CompareTypeOK' /\ RegistersTracked' /\ Paired'
    BY <2>1 DEF CompareTypeOK, RegistersTracked, Paired
  <2> QED
    BY <2>1, <2>2 DEF NotAtLastChange, Counted, VerdictExact
<1>7. CASE RestRow
  <2>1. /\ loop = "rest" /\ i2 + 1 \in DOMAIN t2 /\ i2 + 1 \in Nat /\ i2 + 1 =< Len(t2)
        /\ i1 = Len(t1)
        /\ UNCHANGED <<t1, t2, i1, gpr1, matched_cnt>>
    BY <1>1, <1>7 DEF RestRow, Paired
  <2>2. Changes(t2[i2 + 1], gpr2) <=> i2 + 1 \in ChangedRows(t2)
    BY <1>1, <2>1, ChangedAt DEF RegistersTracked
  <2>3. Rank(t2, i2 + 1) = IF i2 + 1 \in ChangedRows(t2) THEN Rank(t2, i2) + 1
                                                        ELSE Rank(t2, i2)
    BY <1>1, RankStep
  <2>4. Rank(t1, Len(t1)) = Rank(t2, i2)
    BY <2>1 DEF Paired
  <2>5. gpr2' \in [Regs -> Values]
    BY <1>1, <1>7, <2>1, UpdatedType DEF RestRow, CompareTypeOK
  <2>6. CASE i2 + 1 \notin ChangedRows(t2)
    <3>1. i2' = i2 + 1 /\ UNCHANGED <<mismatch_cnt, loop>>
      BY <1>7, <2>2, <2>6 DEF RestRow
    <3>2. AgreeUpTo(t1, i1, t2, i2 + 1) <=> AgreeUpTo(t1, i1, t2, i2)
      BY <1>1, <2>6, SkipSecond
    <3>3. CompareTypeOK'
      BY <1>1, <2>1, <2>5, <3>1 DEF CompareTypeOK
    <3>4. RegistersTracked'
      <4>1. gpr2' = Before(t2, (i2 + 1) + 1)
        BY <1>1, <1>7, <2>1, BeforeStep DEF RestRow, RegistersTracked
      <4> QED
        BY <2>1, <3>1, <4>1 DEF RegistersTracked
    <3>5. Paired' /\ NotAtLastChange' /\ VerdictExact'
      BY <2>1, <2>3, <2>4, <2>6, <3>1 DEF Paired, NotAtLastChange, VerdictExact
    <3>6. Counted'
      BY <2>1, <2>3, <2>6, <3>1, <3>2 DEF Counted
    <3> QED
      BY <3>3, <3>4, <3>5, <3>6
  <2>7. CASE i2 + 1 \in ChangedRows(t2)
    <3>1. i2' = i2 /\ loop' = "done" /\ mismatch_cnt' = mismatch_cnt + (Len(t2) - i2)
      BY <1>7, <2>2, <2>7 DEF RestRow
    <3>2. mismatch_cnt' \in Nat /\ mismatch_cnt' # 0
      BY <1>1, <2>1, <3>1 DEF CompareTypeOK
    <3>3. Rank(t2, i2 + 1) =< Rank(t2, Len(t2)) /\ Rank(t2, Len(t2)) \in Nat
      BY <1>1, <2>1, RankMonotone, RankType
    <3>4. ~Passes(t1, t2)
      BY <1>2, <2>3, <2>4, <2>7, <3>3 DEF Passes
    <3>5. CompareTypeOK'
      BY <1>1, <2>1, <2>5, <3>1, <3>2 DEF CompareTypeOK
    <3>6. VerdictExact'
      BY <2>1, <3>1, <3>2, <3>4 DEF VerdictExact
    <3> QED
      BY <2>1, <3>1, <3>5, <3>6 DEF RegistersTracked, Paired, NotAtLastChange, Counted
  <2> QED
    BY <2>6, <2>7
<1>8. CASE RestEnd
  <2>1. /\ loop = "rest" /\ i2 = Len(t2) /\ loop' = "done" /\ i1 = Len(t1)
        /\ UNCHANGED <<t1, t2, i1, i2, gpr1, gpr2, matched_cnt, mismatch_cnt>>
    BY <1>8 DEF RestEnd, Paired
  <2>2. Rank(t1, i1) = Rank(t2, Len(t2))
    BY <2>1 DEF Paired
  <2>3. AgreeUpTo(t1, i1, t2, Len(t2)) <=> SameChanges(t1, t2)
    BY <1>1, <2>2, AgreeToTheEnd
  <2>4. Passes(t1, t2) <=> SameChanges(t1, t2)
    BY <1>2, <2>1, <2>2 DEF Passes
  <2>5. VerdictExact'
    BY <2>1, <2>3, <2>4 DEF VerdictExact, Counted
  <2>6. CompareTypeOK'
    BY <2>1 DEF CompareTypeOK
  <2> QED
    BY <2>1, <2>5, <2>6 DEF RegistersTracked, Paired, NotAtLastChange, Counted
<1>9. CASE UNCHANGED compareVars
  BY <1>9 DEF compareVars, CompareTypeOK, RegistersTracked, Paired, NotAtLastChange, Counted, VerdictExact
<1> QED
  BY <1>3, <1>4, <1>5, <1>6, <1>7, <1>8, <1>9 DEF CompareNext

(* Every state of a comparison has the types the code gives its variables.  *)
THEOREM CompareTypeCorrect == CompareSpec => []CompareTypeOK
<1>1. IInv => CompareTypeOK
  BY DEF IInv
<1> QED
  BY InitIInv, StepIInv, <1>1, PTL DEF CompareSpec

(* The verdict of compare_trace_csv is that of the definition, for all      *)
(* traces of any length.                                                    *)
THEOREM VerdictCorrect == CompareSpec => []VerdictExact
<1>1. IInv => VerdictExact
  BY DEF IInv
<1> QED
  BY InitIInv, StepIInv, <1>1, PTL DEF CompareSpec

-----------------------------------------------------------------------------
(* Numbers and sequences the driver computes with.                           *)
\* The order that WFMin of the library takes its minimum in.
Lesser == {p \in Nat \X Nat : p[1] < p[2]}

\* A set of naturals has a least element.
LEMMA Least ==
  ASSUME NEW X, X \subseteq Nat, X # {}
  PROVE  \E x \in X : \A y \in X : ~(y < x)
<1>1. IsWellFoundedOn(Lesser, Nat)
  BY NatLessThanWellFounded DEF OpToRel, Lesser
<1>2. \E x \in X : \A y \in X : ~(<<y, x>> \in Lesser)
  BY <1>1, WFMin
<1> QED BY <1>2 DEF Lesser

\* What holds of 0 and passes from k to k + 1 holds up to n.
LEMMA Inductive ==
  ASSUME NEW n \in Nat, NEW X, 0 \in X, \A k \in 0 .. n : k + 1 <= n /\ k \in X => k + 1 \in X
  PROVE  \A k \in 0 .. n : k \in X
<1> SUFFICES ASSUME NEW k0 \in 0 .. n, k0 \notin X PROVE FALSE
  OBVIOUS
<1> DEFINE Y == {k \in 0 .. n : k \notin X}
<1>1. PICK m \in Y : \A y \in Y : ~(y < m)
  <2>1. Y \subseteq Nat /\ Y # {}
    OBVIOUS
  <2> HIDE DEF Y
  <2> QED BY <2>1, Least
<1>2. m \in 0 .. n /\ m \notin X /\ m # 0
  OBVIOUS
<1>3. m - 1 \in 0 .. n /\ m - 1 < m /\ (m - 1) + 1 = m
  BY <1>2
<1>4. m - 1 \in X
  BY <1>1, <1>3
<1> QED BY <1>2, <1>3, <1>4

\* Min of FiniteSetsExt is that element.
LEMMA MinOf ==
  ASSUME NEW X, X \subseteq Nat, X # {}
  PROVE  Min(X) \in X /\ \A y \in X : Min(X) =< y
<1>1. PICK x \in X : \A y \in X : ~(y < x)
  BY Least
<1>2. x \in X /\ \A y \in X : x =< y
  BY <1>1
<1> QED BY <1>2 DEF Min

-----------------------------------------------------------------------------
(*                 Lists of commands                                        *)

Concat(seqs) == CHOOSE g : g = [i \in 1 .. Len(seqs) |->
                                  IF i = 1 THEN seqs[i] ELSE g[i - 1] \o seqs[i]]

\* What FlattenSeq chooses is Concat, once such a function exists.
LEMMA FlattenIsConcat ==
  ASSUME NEW seqs
  PROVE  FlattenSeq(seqs) = IF Len(seqs) = 0 THEN seqs ELSE Concat(seqs)[Len(seqs)]
BY Zenon DEF FlattenSeq, Concat

\* ... and it does: the partial concatenations can be listed.
LEMMA ConcatExists ==
  ASSUME NEW S, NEW seqs \in Seq(Seq(S))
  PROVE  \E g : g = [i \in 1 .. Len(seqs) |-> IF i = 1 THEN seqs[i] ELSE g[i - 1] \o seqs[i]]
<1> DEFINE n == Len(seqs)
           X == {k \in 0 .. n : \E f \in [1 .. k -> Seq(S)] :
                   \A i \in 1 .. k : f[i] = IF i = 1 THEN seqs[i] ELSE f[i - 1] \o seqs[i]}
<1>0. n \in Nat /\ \A i \in 1 .. n : seqs[i] \in Seq(S)
  BY LenProperties, ElementOfSeq
<1> HIDE DEF n
<1>1. 0 \in X
  <2> DEFINE f == [i \in 1 .. 0 |-> <<>>]
  <2>1. f \in [1 .. 0 -> Seq(S)]
    OBVIOUS
  <2>2. \A i \in 1 .. 0 : FALSE
    OBVIOUS
  <2> HIDE DEF f
  <2>3. \E h \in [1 .. 0 -> Seq(S)] :
          \A i \in 1 .. 0 : h[i] = IF i = 1 THEN seqs[i] ELSE h[i - 1] \o seqs[i]
    BY <2>1, <2>2, Zenon
  <2>4. 0 \in 0 .. n
    BY <1>0
  <2> QED BY <2>3, <2>4, Zenon
<1>2. ASSUME NEW k \in 0 .. n, k + 1 <= n, k \in X
      PROVE  k + 1 \in X
  <2>1. PICK f \in [1 .. k -> Seq(S)] :
               \A i \in 1 .. k : f[i] = IF i = 1 THEN seqs[i] ELSE f[i - 1] \o seqs[i]
    BY <1>2
  <2> DEFINE next == IF k = 0 THEN seqs[k + 1] ELSE f[k] \o seqs[k + 1]
             g == [i \in 1 .. k + 1 |-> IF i = k + 1 THEN next ELSE f[i]]
  <2>2. next \in Seq(S)
    <3>1. seqs[k + 1] \in Seq(S)
      BY <1>0, <1>2
    <3>2. CASE k = 0
      BY <3>1, <3>2
    <3>3. CASE k # 0
      <4>1. f[k] \in Seq(S)
        BY <2>1, <3>3, <1>0
      <4>2. f[k] \o seqs[k + 1] \in Seq(S)
        BY <3>1, <4>1, ConcatProperties
      <4> QED BY <3>3, <4>2
    <3> QED BY <3>2, <3>3
  <2> HIDE DEF next
  <2>3. g \in [1 .. k + 1 -> Seq(S)]
    <3>1. \A i \in 1 .. k + 1 : i # k + 1 => i \in 1 .. k
      BY <1>0
    <3> QED BY <2>1, <2>2, <3>1
  <2>4. ASSUME NEW i \in 1 .. k + 1
        PROVE  g[i] = IF i = 1 THEN seqs[i] ELSE g[i - 1] \o seqs[i]
    <3>1. CASE i = k + 1
      <4>1. CASE k = 0
        BY <3>1, <4>1 DEF next
      <4>2. CASE k # 0
        <5>1. i # 1 /\ g[i] = f[k] \o seqs[i]
          <6>1. i # 1 /\ g[i] = next
            BY <3>1, <4>2, <1>0
          <6> QED BY <3>1, <4>2, <6>1 DEF next
        <5>2. g[i - 1] = f[k]
          BY <3>1, <4>2, <1>0
        <5> QED BY <5>1, <5>2
      <4> QED BY <4>1, <4>2
    <3>2. CASE i # k + 1
      <4>1. i \in 1 .. k /\ g[i] = f[i]
        BY <3>2, <1>0
      <4>2. i # 1 => g[i - 1] = f[i - 1]
        BY <4>1, <1>0
      <4> QED BY <2>1, <4>1, <4>2
    <3> QED BY <3>1, <3>2
  <2>5. k + 1 \in 0 .. n
    BY <1>2, <1>0
  <2> HIDE DEF g
  <2> QED BY <2>3, <2>4, <2>5
<1> HIDE DEF X
<1>3. n \in X
  <2>1. \A k \in 0 .. n : k \in X
    BY <1>0, <1>1, <1>2, Inductive
  <2> QED BY <2>1, <1>0
<1>4. PICK f \in [1 .. n -> Seq(S)] :
             \A i \in 1 .. n : f[i] = IF i = 1 THEN seqs[i] ELSE f[i - 1] \o seqs[i]
  BY <1>3 DEF X
<1>5. f = [i \in 1 .. n |-> IF i = 1 THEN seqs[i] ELSE f[i - 1] \o seqs[i]]
  BY <1>4
<1> QED BY <1>5 DEF n

(* Flattening a sequence of sequences over S gives a sequence over S.       *)
LEMMA FlattenType ==
  ASSUME NEW S, NEW seqs \in Seq(Seq(S))
  PROVE  FlattenSeq(seqs) \in Seq(S)
<1> DEFINE n == Len(seqs)
           g == Concat(seqs)
           X == {k \in 0 .. n : k # 0 => g[k] \in Seq(S)}
<1>0. n \in Nat /\ \A i \in 1 .. n : seqs[i] \in Seq(S)
  BY LenProperties, ElementOfSeq
<1>1. g = [i \in 1 .. n |-> IF i = 1 THEN seqs[i] ELSE g[i - 1] \o seqs[i]]
  BY ConcatExists, Zenon DEF Concat
<1>2. \A i \in 1 .. n : g[i] = IF i = 1 THEN seqs[i] ELSE g[i - 1] \o seqs[i]
  <2> HIDE DEF n, g
  <2> QED BY <1>1
<1> HIDE DEF n, g
<1>3. 0 \in X
  BY <1>0
<1>4. ASSUME NEW k \in 0 .. n, k + 1 <= n, k \in X
      PROVE  k + 1 \in X
  <2>1. k + 1 \in 1 .. n /\ k + 1 \in 0 .. n /\ (k + 1) - 1 = k /\ (k + 1 = 1 <=> k = 0)
    BY <1>4, <1>0
  <2>2. seqs[k + 1] \in Seq(S)
    BY <1>0, <2>1
  <2>3. CASE k = 0
    BY <1>2, <2>1, <2>2, <2>3
  <2>4. CASE k # 0
    <3>1. g[k + 1] = g[k] \o seqs[k + 1]
      BY <1>2, <2>1, <2>4
    <3>2. g[k] \in Seq(S)
      BY <1>4, <2>4
    <3>3. g[k] \o seqs[k + 1] \in Seq(S)
      BY <2>2, <3>2, ConcatProperties
    <3> QED BY <2>1, <3>1, <3>3
  <2> QED BY <2>3, <2>4
<1> HIDE DEF X
<1>5. n \in X
  <2>1. \A k \in 0 .. n : k \in X
    BY <1>0, <1>3, <1>4, Inductive
  <2> QED BY <2>1, <1>0
<1>6. CASE n = 0
  <2>1. seqs \in Seq(S)
    BY <1>6, EmptySeq DEF n
  <2> QED BY <1>6, <2>1, FlattenIsConcat DEF n
<1>7. CASE n # 0
  BY <1>5, <1>7, FlattenIsConcat DEF n, g, X
<1> QED BY <1>6, <1>7

\* A number lies less than s above one multiple of s only.
LEMMA MultiplesApart ==
  ASSUME NEW s \in Nat \ {0}, NEW k \in Nat, NEW b \in Nat, NEW c \in Nat,
         k - b * s \in 0 .. s - 1, k - c * s \in 0 .. s - 1, c > b
  PROVE  FALSE
<1>1. PICK d \in Nat : c = b + 1 + d
  <2>1. c - b - 1 \in Nat /\ c = b + 1 + (c - b - 1)
    OBVIOUS
  <2> QED BY <2>1
<1>2. c * s = b * s + s + d * s
  BY <1>1
<1>3. d * s >= 0
  OBVIOUS
<1> QED BY <1>2, <1>3

(* A number of the batch b divided by the batch size is b.                   *)
LEMMA BatchNumber ==
  ASSUME NEW s \in Nat \ {0}, NEW b \in Nat, NEW k \in Nat, k - b * s \in 0 .. s - 1
  PROVE  k \div s = b
<1>1. k \div s \in Nat /\ k - (k \div s) * s \in 0 .. s - 1
  OBVIOUS
<1>2. ASSUME NEW q \in Nat, k - q * s \in 0 .. s - 1
      PROVE  q = b
  <2>1. CASE q > b
    BY <1>2, <2>1, MultiplesApart
  <2>2. CASE q < b
    BY <1>2, <2>2, MultiplesApart
  <2> QED BY <2>1, <2>2
<1> QED BY <1>1, <1>2

-----------------------------------------------------------------------------
(* The commands of an invocation name jobs of the testlist, and the batches   *)
(* divide the iterations of a test among them.                                *)

LEMMA JobIs ==
  ASSUME NEW t \in DOMAIN Tests, NEW i \in 0 .. Tests[t].iterations - 1
  PROVE  <<t, i>> \in Jobs
<1> DEFINE of == {<<t, k>> : k \in 0 .. Tests[t].iterations - 1}
<1>1. <<t, i>> \in of
  OBVIOUS
<1> QED BY <1>1, Zenon DEF Jobs

LEMMA TestsListed ==
  ASSUME NEW o \in Options
  PROVE  Range(o.tests) \subseteq DOMAIN Tests
<1>1. o.tests \in Seq(DOMAIN Tests)
  BY OptionsAssumption
<1> QED BY <1>1, LenProperties, ElementOfSeq DEF Range

\* Numbers of commands that fit the testlist give commands that do.
LEMMA ListingType ==
  ASSUME NEW o \in Options, NEW S, NEW n,
         \A t \in Range(o.tests) : n[t] \in Nat /\ \A m \in 1 .. n[t] : <<t, m - 1>> \in S
  PROVE  Listing(o, n) \in Seq(S)
<1> DEFINE part(t) == [m \in 1 .. n[t] |-> <<t, m - 1>>]
           parts == [k \in DOMAIN o.tests |-> part(o.tests[k])]
<1>1. ASSUME NEW t \in Range(o.tests) PROVE part(t) \in Seq(S)
  BY IsASeq
<1>2. o.tests \in Seq(DOMAIN Tests)
  BY OptionsAssumption
<1>3. Len(o.tests) \in Nat /\ DOMAIN o.tests = 1 .. Len(o.tests)
      /\ \A k \in 1 .. Len(o.tests) : o.tests[k] \in Range(o.tests)
  BY <1>2, LenProperties DEF Range
<1>4. parts \in Seq(Seq(S))
  <2> HIDE DEF part
  <2>1. parts = [k \in 1 .. Len(o.tests) |-> part(o.tests[k])]
    BY <1>3
  <2>2. \A k \in 1 .. Len(o.tests) : part(o.tests[k]) \in Seq(S)
    BY <1>1, <1>3
  <2> HIDE DEF parts
  <2> QED BY <1>3, <2>1, <2>2, IsASeq
<1>5. Listing(o, n) = FlattenSeq(parts)
  BY DEF Listing
<1> HIDE DEF parts
<1> QED BY <1>4, <1>5, FlattenType

LEMMA IterationsType ==
  ASSUME NEW o \in Options, NEW t \in DOMAIN Tests
  PROVE  /\ Iterations(o, t) \in Nat \ {0} /\ Iterations(o, t) <= Tests[t].iterations
         /\ Tests[t].iterations \in Nat
BY TestsAssumption DEF Iterations

LEMMA JobsOfType ==
  ASSUME NEW o \in Options
  PROVE  JobsOf(o) \in Seq(Jobs)
<1> DEFINE n == [t \in DOMAIN Tests |-> Iterations(o, t)]
<1>1. ASSUME NEW t \in DOMAIN Tests
      PROVE  n[t] \in Nat /\ \A m \in 1 .. n[t] : <<t, m - 1>> \in Jobs
  BY IterationsType, JobIs
<1>2. JobsOf(o) = Listing(o, n)
  BY DEF JobsOf
<1> HIDE DEF n
<1> QED BY <1>1, <1>2, ListingType, TestsListed

LEMMA GccJobsOfType ==
  ASSUME NEW o \in Options
  PROVE  GccJobsOf(o) \in Seq(Jobs)
<1> DEFINE n == [t \in DOMAIN Tests |-> IF Tests[t].no_gcc THEN 0 ELSE Iterations(o, t)]
<1>1. ASSUME NEW t \in DOMAIN Tests
      PROVE  n[t] \in Nat /\ \A m \in 1 .. n[t] : <<t, m - 1>> \in Jobs
  <2>1. n[t] = 0 \/ n[t] = Iterations(o, t)
    BY Zenon
  <2> HIDE DEF n
  <2> QED BY <2>1, IterationsType, JobIs
<1>2. GccJobsOf(o) = Listing(o, n)
  BY Zenon DEF GccJobsOf
<1> HIDE DEF n
<1> QED BY <1>1, <1>2, ListingType, TestsListed

LEMMA SimsOfType ==
  ASSUME NEW o \in Options
  PROVE  SimsOf(o) \in Seq(Sims \X Jobs)
<1> DEFINE n == [t \in DOMAIN Tests |-> IF Tests[t].no_iss THEN 0 ELSE Iterations(o, t)]
           jobs == Listing(o, n)
           part(iss) == [m \in DOMAIN jobs |-> <<iss, jobs[m]>>]
           parts == [k \in DOMAIN IssList |-> part(IssList[k])]
<1>1. ASSUME NEW t \in DOMAIN Tests
      PROVE  n[t] \in Nat /\ \A m \in 1 .. n[t] : <<t, m - 1>> \in Jobs
  <2>1. n[t] = 0 \/ n[t] = Iterations(o, t)
    BY Zenon
  <2> HIDE DEF n
  <2> QED BY <2>1, IterationsType, JobIs
<1>2. SimsOf(o) = FlattenSeq(parts)
  BY Zenon DEF SimsOf
<1> HIDE DEF n
<1>3. jobs \in Seq(Jobs)
  BY <1>1, ListingType, TestsListed
<1> HIDE DEF jobs
<1>4. DOMAIN jobs = 1 .. Len(jobs) /\ Len(jobs) \in Nat /\ \A m \in 1 .. Len(jobs) : jobs[m] \in Jobs
  BY <1>3, LenProperties, ElementOfSeq
<1>5. DOMAIN IssList = 1 .. Len(IssList) /\ Len(IssList) \in Nat
      /\ \A k \in 1 .. Len(IssList) : IssList[k] \in Sims
  BY OptionsAssumption, LenProperties, Zenon DEF Sims, Range
<1>6. ASSUME NEW iss \in Sims PROVE part(iss) \in Seq(Sims \X Jobs)
  <2>1. part(iss) = [m \in 1 .. Len(jobs) |-> <<iss, jobs[m]>>]
    BY <1>4
  <2>2. \A m \in 1 .. Len(jobs) : <<iss, jobs[m]>> \in Sims \X Jobs
    BY <1>4
  <2> HIDE DEF part
  <2> QED BY <1>4, <2>1, <2>2, IsASeq
<1> HIDE DEF part
<1>7. parts \in Seq(Seq(Sims \X Jobs))
  <2>1. parts = [k \in 1 .. Len(IssList) |-> part(IssList[k])]
    BY <1>5
  <2>2. \A k \in 1 .. Len(IssList) : part(IssList[k]) \in Seq(Sims \X Jobs)
    BY <1>5, <1>6
  <2> HIDE DEF parts
  <2> QED BY <1>5, <2>1, <2>2, IsASeq
<1> HIDE DEF parts
<1> QED BY <1>2, <1>7, FlattenType

(* The commands of the generation name a test and one of its batches.        *)
BatchSet(o) == UNION {{<<t, b>> : b \in 0 .. batch_cnt(o, t) - 1} : t \in Range(o.tests)}

LEMMA batch_cntType ==
  ASSUME NEW o \in Options, NEW t \in DOMAIN Tests
  PROVE  batch_cnt(o, t) \in Nat
<1>1. BatchSize \in Nat /\ Iterations(o, t) \in Nat \ {0}
  BY OptionsAssumption, IterationsType
<1>2. CASE BatchSize = 0 \/ IsCsr(t)
  BY <1>2 DEF batch_cnt
<1>3. CASE ~(BatchSize = 0 \/ IsCsr(t))
  <2>1. BatchSize \in Nat \ {0} /\ Iterations(o, t) + BatchSize - 1 \in Nat
    BY <1>1, <1>3
  <2>2. (Iterations(o, t) + BatchSize - 1) \div BatchSize \in Nat
    BY <2>1
  <2> QED BY <1>3, <2>2 DEF batch_cnt
<1> QED BY <1>2, <1>3

LEMMA BatchesOfType ==
  ASSUME NEW o \in Options
  PROVE  BatchesOf(o) \in Seq(BatchSet(o))
<1> DEFINE n == [t \in DOMAIN Tests |-> batch_cnt(o, t)]
<1>1. ASSUME NEW t \in Range(o.tests)
      PROVE  n[t] \in Nat /\ \A m \in 1 .. n[t] : <<t, m - 1>> \in BatchSet(o)
  <2>1. n[t] = batch_cnt(o, t) /\ n[t] \in Nat
    BY batch_cntType, TestsListed
  <2> HIDE DEF n
  <2>2. ASSUME NEW m \in 1 .. n[t]
        PROVE  <<t, m - 1>> \in BatchSet(o)
    <3> DEFINE of == {<<t, b>> : b \in 0 .. batch_cnt(o, t) - 1}
    <3>1. <<t, m - 1>> \in of
      BY <2>1
    <3> QED BY <3>1, Zenon DEF BatchSet
  <2> QED BY <2>1, <2>2
<1>2. BatchesOf(o) = Listing(o, n)
  BY DEF BatchesOf
<1> HIDE DEF n
<1> QED BY <1>1, <1>2, ListingType

\* The last batch of n programs is no larger than the others.
LEMMA LastBatch ==
  ASSUME NEW s \in Nat \ {0}, NEW n \in Nat \ {0}, NEW b \in Nat,
         b \in 0 .. ((n + s - 1) \div s) - 1, ~(b < ((n + s - 1) \div s) - 1)
  PROVE  n - b * s <= s
<1> DEFINE q == (n + s - 1) \div s
<1>1. n + s - 1 \in Nat
  OBVIOUS
<1>2. q \in Nat /\ (n + s - 1) - q * s <= s - 1
  BY <1>1
<1> HIDE DEF q
<1>3. b = q - 1
  BY <1>2 DEF q
<1>4. b * s = q * s - s
  BY <1>2, <1>3
<1>5. q * s \in Int /\ b * s \in Int
  BY <1>2
<1> QED BY <1>2, <1>4, <1>5

\* A job of a generated batch finds the number of the batch by division.
LEMMA BatchOfJob ==
  ASSUME NEW j \in Jobs, opts \in Options, NEW e \in BatchSet(opts), ~IsCsr(j[1]), j \in Batch(e)
  PROVE  /\ e[2] = BatchOf(j) /\ j[1] = e[1] /\ j[2] \in Nat
         /\ j[2] - start_idx(e[2]) \in Nat
         /\ BatchSize # 0 => j[2] - e[2] * BatchSize \in 0 .. BatchSize - 1
<1>0. PICK t \in DOMAIN Tests : \E i \in 0 .. Tests[t].iterations - 1 : j = <<t, i>>
  BY Zenon DEF Jobs
<1>1. PICK i \in 0 .. Tests[t].iterations - 1 : j = <<t, i>>
  BY <1>0
<1>2. j[1] = t /\ j[2] = i /\ i \in Nat /\ e[1] = t
  BY <1>1, TestsAssumption DEF Batch
<1>3. e[2] \in 0 .. batch_cnt(opts, t) - 1 /\ e[2] \in Nat
  <2>1. PICK u \in Range(opts.tests) : \E b \in 0 .. batch_cnt(opts, u) - 1 : e = <<u, b>>
    BY Zenon DEF BatchSet
  <2>2. PICK b \in 0 .. batch_cnt(opts, u) - 1 : e = <<u, b>>
    BY <2>1
  <2>3. batch_cnt(opts, t) \in Nat
    BY batch_cntType
  <2>4. u = t /\ b = e[2]
    BY <1>2, <2>2
  <2> QED BY <2>2, <2>3, <2>4
<1>4. i - e[2] * BatchSize \in 0 .. test_cnt(opts, t, e[2]) - 1
  BY <1>2 DEF Batch, start_idx
<1>5. BatchSize \in Nat /\ Iterations(opts, t) \in Nat \ {0}
  BY OptionsAssumption, IterationsType
<1>6. ~IsCsr(t)
  BY <1>2
<1>7. CASE BatchSize = 0
  <2>1. e[2] = 0
    BY <1>3, <1>7 DEF batch_cnt
  <2>2. start_idx(e[2]) = 0
    BY <1>7, <2>1 DEF start_idx
  <2> QED BY <1>2, <1>7, <2>1, <2>2 DEF BatchOf
<1>8. CASE BatchSize # 0
  <2>1. batch_cnt(opts, t) = (Iterations(opts, t) + BatchSize - 1) \div BatchSize
    BY <1>6, <1>8 DEF batch_cnt
  <2>2. CASE e[2] < batch_cnt(opts, t) - 1
    <3>1. test_cnt(opts, t, e[2]) = BatchSize
      BY <2>2 DEF test_cnt
    <3>2. i - e[2] * BatchSize \in 0 .. BatchSize - 1
      BY <1>4, <3>1
    <3>3. i \div BatchSize = e[2]
      BY <1>2, <1>3, <1>5, <1>8, <3>2, BatchNumber
    <3> QED BY <1>2, <1>8, <3>2, <3>3 DEF BatchOf, start_idx
  <2>3. CASE ~(e[2] < batch_cnt(opts, t) - 1)
    <3>1. test_cnt(opts, t, e[2]) = Iterations(opts, t) - e[2] * BatchSize
      BY <2>3 DEF test_cnt
    <3>2. Iterations(opts, t) - e[2] * BatchSize <= BatchSize
      BY <1>3, <1>5, <1>8, <2>1, <2>3, LastBatch
    <3>3. i - e[2] * BatchSize \in 0 .. BatchSize - 1
      <4>1. e[2] * BatchSize \in Int
        BY <1>3, <1>5
      <4> QED BY <1>2, <1>4, <1>5, <3>1, <3>2, <4>1
    <3>4. i \div BatchSize = e[2]
      BY <1>2, <1>3, <1>5, <1>8, <3>3, BatchNumber
    <3> QED BY <1>2, <1>8, <3>3, <3>4 DEF BatchOf, start_idx
  <2> QED BY <2>2, <2>3
<1> QED BY <1>7, <1>8

-----------------------------------------------------------------------------
(* The order of the steps.                                                    *)

GenSteps == {"directed", "compile", "seeds", "gen", "save"}
CmpSteps == {"clear", "cmp", "summary"}
Steps == GenSteps \cup {"gcc", "sim"} \cup CmpSteps

Place(p) == IF p = "start" THEN 0 ELSE CHOOSE n \in DOMAIN Order : Order[n] = p

LEMMA OrderIs ==
  /\ DOMAIN Order = 1 .. 11
  /\ Order[1] = "directed" /\ Order[2] = "compile" /\ Order[3] = "seeds" /\ Order[4] = "gen"
  /\ Order[5] = "save" /\ Order[6] = "gcc" /\ Order[7] = "sim" /\ Order[8] = "clear"
  /\ Order[9] = "cmp" /\ Order[10] = "summary" /\ Order[11] = "end"
BY DEF Order

LEMMA PlaceIs ==
  /\ Place("start") = 0 /\ Place("directed") = 1 /\ Place("compile") = 2 /\ Place("seeds") = 3
  /\ Place("gen") = 4 /\ Place("save") = 5 /\ Place("gcc") = 6 /\ Place("sim") = 7
  /\ Place("clear") = 8 /\ Place("cmp") = 9 /\ Place("summary") = 10
<1>1. \A n \in 1 .. 11 : n = 1 \/ n = 2 \/ n = 3 \/ n = 4 \/ n = 5 \/ n = 6 \/ n = 7
                         \/ n = 8 \/ n = 9 \/ n = 10 \/ n = 11
  OBVIOUS
<1>2. ASSUME NEW p, NEW k \in 1 .. 11, Order[k] = p, p # "start",
             \A n \in 1 .. 11 : Order[n] = p => n = k
      PROVE  Place(p) = k
  BY <1>2, OrderIs DEF Place
<1>3. /\ \A n \in 1 .. 11 : Order[n] = "directed" => n = 1
      /\ \A n \in 1 .. 11 : Order[n] = "compile" => n = 2
      /\ \A n \in 1 .. 11 : Order[n] = "seeds" => n = 3
      /\ \A n \in 1 .. 11 : Order[n] = "gen" => n = 4
      /\ \A n \in 1 .. 11 : Order[n] = "save" => n = 5
  BY <1>1, OrderIs
<1>4. /\ \A n \in 1 .. 11 : Order[n] = "gcc" => n = 6
      /\ \A n \in 1 .. 11 : Order[n] = "sim" => n = 7
      /\ \A n \in 1 .. 11 : Order[n] = "clear" => n = 8
      /\ \A n \in 1 .. 11 : Order[n] = "cmp" => n = 9
      /\ \A n \in 1 .. 11 : Order[n] = "summary" => n = 10
  BY <1>1, OrderIs
<1>5. /\ Place("directed") = 1 /\ Place("compile") = 2 /\ Place("seeds") = 3
      /\ Place("gen") = 4 /\ Place("save") = 5
  BY <1>2, <1>3, OrderIs
<1>6. /\ Place("gcc") = 6 /\ Place("sim") = 7
      /\ Place("clear") = 8 /\ Place("cmp") = 9 /\ Place("summary") = 10
  BY <1>2, <1>4, OrderIs
<1> QED BY <1>5, <1>6 DEF Place

LEMMA AskedIs ==
  /\ \A p \in GenSteps : Asked(p) <=> "gen" \in opts.steps
  /\ \A p \in CmpSteps : Asked(p) <=> "cmp" \in opts.steps /\ Comparing
  /\ Asked("gcc") <=> "gcc" \in opts.steps
  /\ Asked("sim") <=> "sim" \in opts.steps
  /\ Asked("end")
BY DEF Asked, GenSteps, CmpSteps

(* Proceed goes to the next step in the order that was asked for.            *)
LEMMA ProceedTo ==
  ASSUME Proceed, phase \in {"start"} \cup Steps
  PROVE  \E n \in 1 .. 11 :
           /\ phase' = Order[n] /\ todo' = CommandsOf(Order[n])
           /\ Place(phase) < n /\ Asked(Order[n])
           /\ \A m \in 1 .. 11 : Place(phase) < m /\ m < n => ~Asked(Order[m])
<1> DEFINE X == {n \in DOMAIN Order : n > Place(phase) /\ Asked(Order[n])}
           to == Order[Min(X)]
<1>1. phase' = to /\ todo' = CommandsOf(to)
  BY Zenon DEF Proceed, Place
<1>2. Place(phase) \in 0 .. 10
  BY PlaceIs DEF Steps, GenSteps, CmpSteps
<1>3. X \subseteq Nat /\ X # {}
  <2>1. 11 \in X
    BY <1>2, OrderIs, AskedIs
  <2> QED BY <2>1, OrderIs
<1>4. Min(X) \in X /\ \A y \in X : Min(X) =< y
  <2> HIDE DEF X
  <2> QED BY <1>3, MinOf
<1> DEFINE n == Min(X)
<1>5. n \in 1 .. 11 /\ Place(phase) < n /\ Asked(Order[n])
  <2> HIDE DEF n
  <2>1. n \in X
    BY <1>4 DEF n
  <2> QED BY <2>1, <1>2, OrderIs
<1>6. ASSUME NEW m \in 1 .. 11, Place(phase) < m, m < n, Asked(Order[m])
      PROVE  FALSE
  <2> HIDE DEF n
  <2>1. m \in X
    BY <1>6, <1>2, OrderIs
  <2>2. n =< m
    BY <1>4, <2>1 DEF n
  <2> QED BY <2>2, <1>5, <1>6
<1>7. phase' = Order[n] /\ todo' = CommandsOf(Order[n])
  BY <1>1
<1> HIDE DEF n, X
<1> QED BY <1>5, <1>6, <1>7

(* Which steps follow which.                                                 *)
LEMMA Succession ==
  ASSUME Proceed, phase \in {"start"} \cup Steps
  PROVE  /\ phase' \in Steps \cup {"end"} /\ todo' = CommandsOf(phase')
         /\ phase' \in GenSteps => "gen" \in opts.steps
         /\ phase' \in CmpSteps => "cmp" \in opts.steps /\ Comparing
         /\ phase' = "gen" => phase = "seeds"
         /\ phase' = "save" => phase = "gen"
         /\ phase = "seeds" /\ "gen" \in opts.steps => phase' = "gen"
         /\ phase = "gen" /\ "gen" \in opts.steps => phase' = "save"
         /\ phase' = "cmp" => phase = "clear"
         /\ phase' = "summary" => phase = "cmp"
         /\ phase' = "end" /\ "cmp" \in opts.steps /\ Comparing => phase = "summary"
<1>1. PICK n \in 1 .. 11 :
           /\ phase' = Order[n] /\ todo' = CommandsOf(Order[n])
           /\ Place(phase) < n /\ Asked(Order[n])
           /\ \A m \in 1 .. 11 : Place(phase) < m /\ m < n => ~Asked(Order[m])
  BY ProceedTo
<1>2. n = 1 \/ n = 2 \/ n = 3 \/ n = 4 \/ n = 5 \/ n = 6 \/ n = 7
      \/ n = 8 \/ n = 9 \/ n = 10 \/ n = 11
  OBVIOUS
<1>3. phase' \in Steps \cup {"end"} /\ todo' = CommandsOf(phase') /\ Asked(phase')
  BY <1>1, <1>2, OrderIs DEF Steps, GenSteps, CmpSteps
<1>4. /\ phase' \in GenSteps => "gen" \in opts.steps
      /\ phase' \in CmpSteps => "cmp" \in opts.steps /\ Comparing
  BY <1>3, AskedIs
<1>5. Place(phase) \in 0 .. 10
  BY PlaceIs DEF Steps, GenSteps, CmpSteps
<1>6. /\ Place(phase) = 3 => phase = "seeds"
      /\ Place(phase) = 4 => phase = "gen"
      /\ Place(phase) = 8 => phase = "clear"
      /\ Place(phase) = 9 => phase = "cmp"
      /\ Place(phase) = 10 => phase = "summary"
  BY PlaceIs DEF Steps, GenSteps, CmpSteps
<1>7. phase' = "gen" => phase = "seeds"
  <2> SUFFICES ASSUME phase' = "gen" PROVE Place(phase) = 3
    BY <1>6
  <2>1. n = 4
    BY <1>1, <1>2, OrderIs
  <2>2. Asked("gen") /\ ~(Place(phase) < 3)
    <3>1. Asked("gen")
      BY <1>3
    <3>2. Asked("seeds")
      BY <3>1, AskedIs DEF GenSteps
    <3> QED BY <3>1, <3>2, <2>1, <1>1, OrderIs
  <2> QED BY <2>1, <2>2, <1>1, <1>5
<1>8. phase' = "save" => phase = "gen"
  <2> SUFFICES ASSUME phase' = "save" PROVE Place(phase) = 4
    BY <1>6
  <2>1. n = 5
    BY <1>1, <1>2, OrderIs
  <2>2. ~(Place(phase) < 4)
    <3>1. Asked("save")
      BY <1>3
    <3>2. Asked("gen")
      BY <3>1, AskedIs DEF GenSteps
    <3> QED BY <3>2, <2>1, <1>1, OrderIs
  <2> QED BY <2>1, <2>2, <1>1, <1>5
<1>9. phase = "gen" /\ "gen" \in opts.steps => phase' = "save"
  <2> SUFFICES ASSUME phase = "gen", "gen" \in opts.steps PROVE phase' = "save"
    OBVIOUS
  <2>1. Asked("save")
    BY AskedIs DEF GenSteps
  <2>2. Place(phase) = 4
    BY PlaceIs
  <2>3. n = 5
    BY <1>1, <2>1, <2>2, OrderIs
  <2> QED BY <1>1, <2>3, OrderIs
<1>13. phase = "seeds" /\ "gen" \in opts.steps => phase' = "gen"
  <2> SUFFICES ASSUME phase = "seeds", "gen" \in opts.steps PROVE phase' = "gen"
    OBVIOUS
  <2>1. Asked("gen")
    BY AskedIs DEF GenSteps
  <2>2. Place(phase) = 3
    BY PlaceIs
  <2>3. n = 4
    BY <1>1, <2>1, <2>2, OrderIs
  <2> QED BY <1>1, <2>3, OrderIs
<1>10. phase' = "cmp" => phase = "clear"
  <2> SUFFICES ASSUME phase' = "cmp" PROVE Place(phase) = 8
    BY <1>6
  <2>1. n = 9
    BY <1>1, <1>2, OrderIs
  <2>2. ~(Place(phase) < 8)
    <3>1. Asked("cmp")
      BY <1>3
    <3>2. Asked("clear")
      BY <3>1, AskedIs DEF CmpSteps
    <3> QED BY <3>2, <2>1, <1>1, OrderIs
  <2> QED BY <2>1, <2>2, <1>1, <1>5
<1>11. phase' = "summary" => phase = "cmp"
  <2> SUFFICES ASSUME phase' = "summary" PROVE Place(phase) = 9
    BY <1>6
  <2>1. n = 10
    BY <1>1, <1>2, OrderIs
  <2>2. ~(Place(phase) < 9)
    <3>1. Asked("summary")
      BY <1>3
    <3>2. Asked("cmp")
      BY <3>1, AskedIs DEF CmpSteps
    <3> QED BY <3>2, <2>1, <1>1, OrderIs
  <2> QED BY <2>1, <2>2, <1>1, <1>5
<1>12. phase' = "end" /\ "cmp" \in opts.steps /\ Comparing => phase = "summary"
  <2> SUFFICES ASSUME phase' = "end", "cmp" \in opts.steps, Comparing PROVE Place(phase) = 10
    BY <1>6
  <2>1. n = 11
    BY <1>1, <1>2, OrderIs
  <2>2. Asked("summary")
    BY AskedIs DEF CmpSteps
  <2>3. ~(Place(phase) < 10)
    BY <2>1, <2>2, <1>1, OrderIs
  <2> QED BY <2>3, <1>5
<1> QED BY <1>3, <1>4, <1>7, <1>8, <1>9, <1>10, <1>11, <1>12, <1>13

-----------------------------------------------------------------------------
(* The step of an invocation and the commands it has left.                   *)
PhaseInv ==
  /\ opts \in Options
  /\ phase \in {"idle", "start", "end"} \cup Steps
  /\ phase \in GenSteps => "gen" \in opts.steps
  /\ phase \in CmpSteps => "cmp" \in opts.steps /\ Comparing
  /\ phase = "gen" => todo \in Seq(Range(BatchesOf(opts)))
  /\ phase = "gcc" => todo \in Seq(Jobs)
  /\ phase = "sim" => todo \in Seq(Sims \X Jobs)
  /\ phase = "cmp" => todo \in Seq(Jobs)
  /\ todo # <<>> => phase \in {"directed", "gen", "gcc", "sim", "cmp"}
  /\ exit = "success" => phase = "idle"

LEMMA BatchesTyped ==
  ASSUME NEW o \in Options
  PROVE  Range(BatchesOf(o)) \subseteq BatchSet(o) /\ BatchesOf(o) \in Seq(Range(BatchesOf(o)))
<1> DEFINE s == BatchesOf(o)
<1>1. s \in Seq(BatchSet(o))
  BY BatchesOfType
<1> HIDE DEF s
<1>2. Len(s) \in Nat /\ DOMAIN s = 1 .. Len(s) /\ (\A n \in 1 .. Len(s) : s[n] \in BatchSet(o))
      /\ s = [n \in 1 .. Len(s) |-> s[n]]
  BY <1>1, LenProperties, ElementOfSeq
<1>3. \A n \in 1 .. Len(s) : s[n] \in Range(s)
  BY <1>2 DEF Range
<1>4. [n \in 1 .. Len(s) |-> s[n]] \in Seq(Range(s))
  BY <1>2, <1>3, IsASeq
<1>5. Range(s) \subseteq BatchSet(o)
  BY <1>2 DEF Range
<1>6. s \in Seq(Range(s))
  BY <1>2, <1>4
<1> QED BY <1>5, <1>6 DEF s

LEMMA CommandsIs ==
  /\ CommandsOf("gen") = BatchesOf(opts) /\ CommandsOf("gcc") = GccJobsOf(opts)
  /\ CommandsOf("sim") = SimsOf(opts) /\ CommandsOf("cmp") = JobsOf(opts)
  /\ \A p \in (Steps \cup {"end"}) \ {"directed", "gen", "gcc", "sim", "cmp"} : CommandsOf(p) = <<>>
BY DEF CommandsOf, Steps, GenSteps, CmpSteps

LEMMA ProceedTyped ==
  ASSUME PhaseInv, Proceed, phase \in {"start"} \cup Steps, UNCHANGED <<opts, exit>>
  PROVE  PhaseInv'
<1>1. /\ phase' \in Steps \cup {"end"} /\ todo' = CommandsOf(phase')
      /\ phase' \in GenSteps => "gen" \in opts.steps
      /\ phase' \in CmpSteps => "cmp" \in opts.steps /\ Comparing
  BY Succession
<1>2. opts \in Options /\ exit # "success"
  BY DEF PhaseInv, Steps, GenSteps, CmpSteps
<1>3. /\ phase' = "gen" => todo' \in Seq(Range(BatchesOf(opts)))
      /\ phase' = "gcc" => todo' \in Seq(Jobs)
      /\ phase' = "sim" => todo' \in Seq(Sims \X Jobs)
      /\ phase' = "cmp" => todo' \in Seq(Jobs)
  BY <1>1, <1>2, CommandsIs, BatchesTyped, GccJobsOfType, SimsOfType, JobsOfType
<1>4. todo' # <<>> => phase' \in {"directed", "gen", "gcc", "sim", "cmp"}
  BY <1>1, CommandsIs
<1> QED BY <1>1, <1>2, <1>3, <1>4 DEF PhaseInv

LEMMA StopTyped ==
  ASSUME PhaseInv, NEW code, Stop(code), UNCHANGED opts
  PROVE  PhaseInv'
BY DEF PhaseInv, Stop, Steps, GenSteps, CmpSteps

LEMMA TailTyped ==
  ASSUME PhaseInv, todo # <<>>, todo' = Tail(todo), UNCHANGED <<opts, phase, exit>>
  PROVE  PhaseInv'
<1>1. \A S : todo \in Seq(S) => Tail(todo) \in Seq(S)
  BY HeadTailProperties
<1> QED BY <1>1 DEF PhaseInv

LEMMA RemoveAtType ==
  ASSUME NEW S, NEW s \in Seq(S), NEW n \in 1 .. Len(s)
  PROVE  RemoveAt(s, n) \in Seq(S)
<1>1. Len(s) \in Nat /\ \A i \in 1 .. Len(s) : s[i] \in S
  BY LenProperties, ElementOfSeq
<1>2. n - 1 \in Int /\ n + 1 \in Int /\ \A i \in 1 .. n - 1 : s[i] \in S
  BY <1>1
<1>3. \A i \in n + 1 .. Len(s) : s[i] \in S
  BY <1>1
<1>4. SubSeq(s, 1, n - 1) \in Seq(S) /\ SubSeq(s, n + 1, Len(s)) \in Seq(S)
  BY <1>1, <1>2, <1>3, SubSeqProperties
<1> QED BY <1>4, ConcatProperties DEF RemoveAt

\* In parallel mode commands end in any order.
LEMMA RemoveTyped ==
  ASSUME PhaseInv, phase = "gen", NEW n \in DOMAIN todo, todo' = RemoveAt(todo, n),
         UNCHANGED <<opts, phase, exit>>
  PROVE  PhaseInv'
<1>1. todo \in Seq(Range(BatchesOf(opts)))
  BY DEF PhaseInv
<1>2. n \in 1 .. Len(todo)
  BY <1>1, LenProperties
<1>3. todo' \in Seq(Range(BatchesOf(opts)))
  BY <1>1, <1>2, RemoveAtType
<1> QED BY <1>3 DEF PhaseInv

\* Every action keeps the step, its options and its commands together.
LEMMA PhaseStep ==
  ASSUME PhaseInv, [Next]_vars
  PROVE  PhaseInv'
<1>1. CASE Invoke
  BY <1>1 DEF PhaseInv, Invoke, Steps, GenSteps, CmpSteps
<1>2. CASE NextStep
  <2>1. phase \in {"start"} \cup Steps
    BY <1>2 DEF NextStep, Steps, GenSteps, CmpSteps
  <2> QED BY <1>2, <2>1, ProceedTyped DEF NextStep
<1>3. CASE RunDirected
  <2>1. (\E code : Stop(code)) \/ (todo # <<>> /\ todo' = Tail(todo) /\ UNCHANGED <<phase, exit>>)
    BY <1>3, Zenon DEF RunDirected
  <2>2. UNCHANGED opts
    BY <1>3 DEF RunDirected
  <2> QED BY <2>1, <2>2, StopTyped, TailTyped
<1>4. CASE Compile
  <2>1. phase \in {"start"} \cup Steps
    BY <1>4 DEF Compile, Steps, GenSteps
  <2>2. (Proceed /\ UNCHANGED exit) \/ Stop("failure")
    BY <1>4 DEF Compile
  <2>3. UNCHANGED opts
    BY <1>4 DEF Compile
  <2> QED BY <2>1, <2>2, <2>3, ProceedTyped, StopTyped
<1>5. CASE DrawSeeds
  <2>1. phase \in {"start"} \cup Steps
    BY <1>5 DEF DrawSeeds, Steps, GenSteps
  <2>2. (Proceed /\ UNCHANGED exit) \/ Stop("failure")
    BY <1>5, Zenon DEF DrawSeeds
  <2>3. UNCHANGED opts
    BY <1>5 DEF DrawSeeds
  <2> QED BY <2>1, <2>2, <2>3, ProceedTyped, StopTyped
<1>6. CASE GenerateBatch
  <2>1. PICK n \in DOMAIN todo :
          (todo' = RemoveAt(todo, n) /\ UNCHANGED <<phase, exit>>) \/ Stop("failure")
    BY <1>6, Zenon DEF GenerateBatch
  <2>2. phase = "gen" /\ UNCHANGED opts
    BY <1>6 DEF GenerateBatch
  <2> QED BY <2>1, <2>2, RemoveTyped, StopTyped
<1>7. CASE SaveSeeds
  <2>1. phase \in {"start"} \cup Steps
    BY <1>7 DEF SaveSeeds, Steps, GenSteps
  <2> QED BY <1>7, <2>1, ProceedTyped DEF SaveSeeds
<1>8. CASE GccCompile
  <2>1. (todo' = Tail(todo) /\ UNCHANGED <<phase, exit>>) \/ Stop("failure")
    BY <1>8, Zenon DEF GccCompile
  <2>2. todo # <<>> /\ UNCHANGED opts
    BY <1>8 DEF GccCompile
  <2> QED BY <2>1, <2>2, TailTyped, StopTyped
<1>9. CASE IssSim
  <2>1. (todo' = Tail(todo) /\ UNCHANGED <<phase, exit>>) \/ Stop("failure")
    BY <1>9, Zenon DEF IssSim
  <2>2. todo # <<>> /\ UNCHANGED opts
    BY <1>9 DEF IssSim
  <2> QED BY <2>1, <2>2, TailTyped, StopTyped
<1>10. CASE ClearReport
  <2>1. phase \in {"start"} \cup Steps
    BY <1>10 DEF ClearReport, Steps, CmpSteps
  <2> QED BY <1>10, <2>1, ProceedTyped DEF ClearReport
<1>11. CASE IssCmp
  <2>1. (todo' = Tail(todo) /\ UNCHANGED <<phase, exit>>) \/ Stop("failure")
    BY <1>11, Zenon DEF IssCmp
  <2>2. todo # <<>> /\ UNCHANGED opts
    BY <1>11 DEF IssCmp
  <2> QED BY <2>1, <2>2, TailTyped, StopTyped
<1>12. CASE Summarise
  <2>1. phase \in {"start"} \cup Steps
    BY <1>12 DEF Summarise, Steps, CmpSteps
  <2> QED BY <1>12, <2>1, ProceedTyped DEF Summarise
<1>13. CASE Finish
  BY <1>13, StopTyped DEF Finish
<1>14. CASE Interrupt
  BY <1>14, StopTyped DEF Interrupt
<1>15. CASE ChildGenerates \/ ChildSimulates \/ ChildEnds
  <2>1. UNCHANGED <<opts, phase, todo, exit>>
    BY <1>15 DEF ChildGenerates, ChildSimulates, ChildEnds
  <2> QED BY <2>1 DEF PhaseInv
<1>16. CASE UNCHANGED vars
  BY <1>16 DEF vars, PhaseInv
<1> QED BY <1>1, <1>2, <1>3, <1>4, <1>5, <1>6, <1>7, <1>8, <1>9, <1>10, <1>11, <1>12, <1>13,
           <1>14, <1>15, <1>16 DEF Next

-----------------------------------------------------------------------------
(* The report is complete.                                                    *)

Judgements(j) == {[kind |-> v, of |-> j] : v \in {"PASSED", "FAILED"}}
AllJudgements == UNION {Judgements(j) : j \in Jobs}

\* The report holds the verdicts on the first jobs, in their order.
JudgedInOrder ==
  /\ report \in Seq(AllJudgements)
  /\ Len(report) =< Len(JobsOf(opts))
  /\ \A k \in 1 .. Len(report) : report[k] \in Judgements(JobsOf(opts)[k])

(* While jobs are compared the commands left are those without a verdict;    *)
(* the summary is made of all verdicts.                                      *)
ReportInv ==
  /\ phase = "cmp" =>
       /\ JudgedInOrder
       /\ Len(report) + Len(todo) = Len(JobsOf(opts))
       /\ \A k \in 1 .. Len(todo) : todo[k] = JobsOf(opts)[Len(report) + k]
  /\ phase = "summary" => JudgedInOrder /\ Len(report) = Len(JobsOf(opts))
  /\ phase = "end" \/ exit = "success" => ("cmp" \in opts.steps /\ Comparing => FullReport)

LEMMA NotReporting ==
  ASSUME PhaseInv, phase' \notin {"cmp", "summary", "end"}, exit' # "success"
  PROVE  ReportInv'
BY DEF ReportInv

LEMMA ProceedNotReporting ==
  ASSUME PhaseInv, Proceed, phase \in {"start"} \cup Steps, phase \notin {"clear", "cmp", "summary"},
         UNCHANGED <<opts, exit>>
  PROVE  ReportInv'
<1>1. /\ phase' \notin {"cmp", "summary"}
      /\ phase' = "end" => ~("cmp" \in opts.steps /\ Comparing)
  BY Succession
<1>2. exit' # "success"
  BY DEF PhaseInv, Steps, GenSteps, CmpSteps
<1> QED BY <1>1, <1>2 DEF ReportInv

\* The comparison starts with an empty report and every job.
LEMMA ClearReporting ==
  ASSUME PhaseInv, ClearReport
  PROVE  ReportInv'
<1>1. phase = "clear" /\ Proceed /\ report' = <<>> /\ opts' = opts /\ exit' = exit
  BY DEF ClearReport
<1>2. opts \in Options /\ "cmp" \in opts.steps /\ Comparing /\ exit # "success"
  BY <1>1 DEF PhaseInv, CmpSteps
<1>3. phase \in {"start"} \cup Steps
  BY <1>1 DEF Steps, CmpSteps
<1>4. phase' \notin {"summary", "end"} /\ todo' = CommandsOf(phase')
  BY <1>1, <1>2, <1>3, Succession
<1>5. phase' = "cmp" => todo' = JobsOf(opts)
  BY <1>4, CommandsIs
<1>6. JobsOf(opts) \in Seq(Jobs)
  BY <1>2, JobsOfType
<1>7. Len(JobsOf(opts)) \in Nat
  BY <1>6, LenProperties
<1>8. <<>> \in Seq(AllJudgements) /\ Len(<<>>) = 0
  BY EmptySeq
<1>9. (JobsOf(opts))' = JobsOf(opts)
  BY <1>1
<1>10. JudgedInOrder'
  <2>1. Len(report') = 0 /\ report' \in Seq(AllJudgements)
    BY <1>1, <1>8
  <2>2. Len(report') =< Len(JobsOf(opts))
    BY <2>1, <1>7
  <2>3. \A k \in 1 .. Len(report') : report'[k] \in Judgements(JobsOf(opts)[k])
    BY <2>1
  <2> QED BY <1>9, <2>1, <2>2, <2>3 DEF JudgedInOrder
<1>11. phase' = "cmp" =>
         /\ Len(report') + Len(todo') = Len(JobsOf(opts))
         /\ \A k \in 1 .. Len(todo') : todo'[k] = JobsOf(opts)[Len(report') + k]
  <2> SUFFICES ASSUME phase' = "cmp"
               PROVE  /\ Len(report') + Len(todo') = Len(JobsOf(opts))
                      /\ \A k \in 1 .. Len(todo') : todo'[k] = JobsOf(opts)[Len(report') + k]
    OBVIOUS
  <2>1. Len(report') = 0 /\ todo' = JobsOf(opts)
    BY <1>1, <1>5, <1>8
  <2> HIDE DEF JobsOf
  <2> QED BY <2>1, <1>7
<1>12. exit' # "success"
  BY <1>1, <1>2
<1> QED BY <1>4, <1>9, <1>10, <1>11, <1>12 DEF ReportInv

LEMMA AppendJudged ==
  ASSUME NEW S, NEW r \in Seq(S), NEW x \in S
  PROVE  /\ Append(r, x) \in Seq(S) /\ Len(Append(r, x)) = Len(r) + 1 /\ Len(r) \in Nat
         /\ Append(r, x)[Len(r) + 1] = x
         /\ \A k \in 1 .. Len(r) : Append(r, x)[k] = r[k]
BY AppendProperties, LenProperties

\* A verdict goes behind those on the jobs before.
LEMMA CompareReporting ==
  ASSUME PhaseInv, ReportInv, IssCmp, ~Stop("failure")
  PROVE  ReportInv'
<1> DEFINE j == Head(todo)
           jobs == JobsOf(opts)
<1>0. PICK passed \in BOOLEAN :
        /\ phase = "cmp" /\ todo # <<>>
        /\ report' = Append(report, Verdict(j, passed))
        /\ todo' = Tail(todo)
        /\ phase' = phase /\ exit' = exit /\ opts' = opts
  BY Zenon DEF IssCmp
<1> DEFINE verdict == Verdict(j, passed)
<1>1. /\ phase = "cmp" /\ todo # <<>>
      /\ report' = Append(report, verdict)
      /\ todo' = Tail(todo)
      /\ phase' = phase /\ exit' = exit /\ opts' = opts
  BY <1>0
<1>2. exit # "success" /\ todo \in Seq(Jobs) /\ opts \in Options
  BY <1>1 DEF PhaseInv
<1>3. /\ report \in Seq(AllJudgements)
      /\ Len(report) =< Len(jobs)
      /\ \A k \in 1 .. Len(report) : report[k] \in Judgements(jobs[k])
      /\ Len(report) + Len(todo) = Len(jobs)
      /\ \A k \in 1 .. Len(todo) : todo[k] = jobs[Len(report) + k]
  BY <1>1 DEF ReportInv, JudgedInOrder
<1>4. jobs' = jobs
  BY <1>1
<1>5. verdict \in Judgements(j)
  BY DEF Verdict, Judgements
<1> HIDE DEF verdict, jobs
<1>6. /\ j \in Jobs /\ Tail(todo) \in Seq(Jobs) /\ Len(Tail(todo)) = Len(todo) - 1
      /\ \A k \in 1 .. Len(Tail(todo)) : Tail(todo)[k] = todo[k + 1]
  BY <1>1, <1>2, HeadTailProperties
<1>7. Len(todo) \in Nat \ {0} /\ Len(report) \in Nat /\ j = todo[1]
  BY <1>1, <1>2, <1>3, EmptySeq, LenProperties
<1>8. verdict \in AllJudgements
  BY <1>5, <1>6, Zenon DEF AllJudgements
<1>9. /\ report' \in Seq(AllJudgements) /\ Len(report') = Len(report) + 1
      /\ report'[Len(report) + 1] = verdict
      /\ \A k \in 1 .. Len(report) : report'[k] = report[k]
  BY <1>1, <1>3, <1>8, AppendJudged
<1>10. verdict \in Judgements(jobs[Len(report) + 1])
  BY <1>3, <1>5, <1>7
<1>11. \A k \in 1 .. Len(report') : report'[k] \in Judgements(jobs[k])
  <2> SUFFICES ASSUME NEW k \in 1 .. Len(report') PROVE report'[k] \in Judgements(jobs[k])
    OBVIOUS
  <2>1. k = Len(report) + 1 \/ k \in 1 .. Len(report)
    BY <1>7, <1>9
  <2>2. CASE k = Len(report) + 1
    BY <1>9, <1>10, <2>2
  <2>3. CASE k \in 1 .. Len(report)
    BY <1>3, <1>9, <2>3
  <2> QED BY <2>1, <2>2, <2>3
<1>12. Len(report') =< Len(jobs) /\ Len(report') + Len(todo') = Len(jobs)
  BY <1>1, <1>3, <1>6, <1>7, <1>9
<1>13. \A k \in 1 .. Len(todo') : todo'[k] = jobs[Len(report') + k]
  <2> SUFFICES ASSUME NEW k \in 1 .. Len(todo') PROVE todo'[k] = jobs[Len(report') + k]
    OBVIOUS
  <2>1. todo'[k] = todo[k + 1] /\ k + 1 \in 1 .. Len(todo)
    BY <1>1, <1>6, <1>7
  <2>2. Len(report') + k = Len(report) + (k + 1)
    BY <1>7, <1>9
  <2> QED BY <1>3, <2>1, <2>2
<1>14. JudgedInOrder'
  BY <1>4, <1>9, <1>11, <1>12 DEF JudgedInOrder, jobs
<1> QED BY <1>1, <1>2, <1>4, <1>12, <1>13, <1>14 DEF ReportInv, jobs

\* ... and the summary comes when every job has one.
LEMMA NextReporting ==
  ASSUME PhaseInv, ReportInv, NextStep
  PROVE  ReportInv'
<1>1. /\ phase \in {"start", "directed", "gen", "gcc", "sim", "cmp"} /\ todo = <<>> /\ Proceed
      /\ opts' = opts /\ exit' = exit /\ report' = report
  BY DEF NextStep, files
<1>2. phase \in {"start"} \cup Steps
  BY <1>1 DEF Steps, GenSteps, CmpSteps
<1>3. CASE phase # "cmp"
  BY <1>1, <1>2, <1>3, ProceedNotReporting
<1>4. CASE phase = "cmp"
  <2>1. "cmp" \in opts.steps /\ Comparing /\ exit # "success"
    BY <1>4 DEF PhaseInv, CmpSteps
  <2>2. phase' \notin {"cmp", "end"}
    BY <1>1, <1>2, <1>4, <2>1, Succession
  <2>3. JudgedInOrder /\ Len(report) + Len(todo) = Len(JobsOf(opts))
    BY <1>4 DEF ReportInv
  <2>4. Len(report) \in Nat /\ Len(todo) = 0
    BY <1>1, <2>3, LenProperties, EmptySeq DEF JudgedInOrder
  <2>5. Len(report) = Len(JobsOf(opts))
    BY <2>3, <2>4
  <2>6. JudgedInOrder' /\ Len(report)' = Len(JobsOf(opts))'
    BY <1>1, <2>3, <2>5 DEF JudgedInOrder
  <2> QED BY <1>1, <2>1, <2>2, <2>6 DEF ReportInv
<1> QED BY <1>3, <1>4

\* The summary counts the verdicts and no earlier summary.
LEMMA SummaryReporting ==
  ASSUME PhaseInv, ReportInv, Summarise
  PROVE  ReportInv'
<1> DEFINE jobs == JobsOf(opts)
           n == Len(jobs)
           Of(verdict) == {k \in 1 .. n : report[k] = [kind |-> verdict, of |-> jobs[k]]}
           line == [kind |-> "summary", passed |-> Lines(report, "PASSED"),
                    failed |-> Lines(report, "FAILED")]
<1>1. /\ phase = "summary" /\ Proceed /\ opts' = opts /\ exit' = exit
      /\ report' = Append(report, line)
  BY DEF Summarise, save_regr_report
<1>2. "cmp" \in opts.steps /\ Comparing /\ exit # "success"
  BY <1>1 DEF PhaseInv, CmpSteps
<1>3. phase' \notin {"cmp", "summary"}
  <2>1. phase \in {"start"} \cup Steps
    BY <1>1 DEF Steps, CmpSteps
  <2> QED BY <1>1, <2>1, Succession
<1>4. /\ report \in Seq(AllJudgements) /\ Len(report) = n
      /\ \A k \in 1 .. n : report[k] \in Judgements(jobs[k])
  BY <1>1 DEF ReportInv, JudgedInOrder
<1>5. jobs' = jobs
  BY <1>1
<1> HIDE DEF jobs
<1>6. n \in Nat /\ DOMAIN report = 1 .. n
  BY <1>4, LenProperties
<1>7. \A k \in 1 .. n : \/ report[k] = [kind |-> "PASSED", of |-> jobs[k]]
                         \/ report[k] = [kind |-> "FAILED", of |-> jobs[k]]
  BY <1>4 DEF Judgements
<1>8. Of("PASSED") \cup Of("FAILED") = 1 .. n
  BY <1>7
<1>9. /\ {k \in DOMAIN report : report[k].kind \in {"summary", "PASSED"}} = Of("PASSED")
      /\ {k \in DOMAIN report : report[k].kind \in {"summary", "FAILED"}} = Of("FAILED")
  BY <1>6, <1>7
<1>10. line = [kind |-> "summary", passed |-> Cardinality(Of("PASSED")),
               failed |-> Cardinality(Of("FAILED"))]
  BY <1>9, Zenon DEF Lines
<1> HIDE DEF line, n
<1>11. /\ Len(report') = n + 1 /\ report'[n + 1] = line
       /\ \A k \in 1 .. n : report'[k] = report[k]
  <2>1. report \in Seq(AllJudgements \cup {line}) /\ line \in AllJudgements \cup {line}
    BY <1>4, SeqMonotonic
  <2> QED BY <1>1, <1>4, <2>1, AppendJudged
<1> DEFINE OfNew(verdict) == {k \in 1 .. n : report'[k] = [kind |-> verdict, of |-> jobs[k]]}
<1>12. OfNew("PASSED") = Of("PASSED") /\ OfNew("FAILED") = Of("FAILED")
  BY <1>11
<1>13. /\ Len(report') = n + 1
       /\ OfNew("PASSED") \cup OfNew("FAILED") = 1 .. n
       /\ report'[n + 1] = [kind |-> "summary", passed |-> Cardinality(OfNew("PASSED")),
                            failed |-> Cardinality(OfNew("FAILED"))]
  <2> HIDE DEF Of, OfNew
  <2> QED BY <1>8, <1>10, <1>11, <1>12
<1>14. n' = n
  BY <1>5 DEF n
<1>15. FullReport'
  BY <1>5, <1>13, <1>14, Zenon DEF FullReport, jobs, n
<1> QED BY <1>1, <1>2, <1>3, <1>15 DEF ReportInv

\* Every action keeps the verdicts given so far.
LEMMA ReportStep ==
  ASSUME PhaseInv, ReportInv, [Next]_vars
  PROVE  ReportInv'
<1>1. CASE Invoke
  BY <1>1, NotReporting DEF Invoke
<1>2. CASE NextStep
  BY <1>2, NextReporting
<1>0. ASSUME NEW code, code # "success", Stop(code) PROVE ReportInv'
  BY <1>0, NotReporting DEF Stop
<1>3. CASE RunDirected
  <2>1. Stop("failure") \/ Stop("fatal") \/ UNCHANGED <<phase, exit>>
    BY <1>3, Zenon DEF RunDirected
  <2>2. phase = "directed" /\ exit # "success"
    BY <1>3 DEF RunDirected, PhaseInv
  <2> QED BY <2>1, <2>2, <1>0, NotReporting
<1>4. CASE Compile
  <2>1. phase = "compile" /\ UNCHANGED opts
    BY <1>4 DEF Compile
  <2>2. (Proceed /\ UNCHANGED exit) \/ Stop("failure")
    BY <1>4 DEF Compile
  <2>3. phase \in {"start"} \cup Steps
    BY <2>1 DEF Steps, GenSteps
  <2> QED BY <2>1, <2>2, <2>3, <1>0, ProceedNotReporting
<1>5. CASE DrawSeeds
  <2>1. phase = "seeds" /\ UNCHANGED opts
    BY <1>5 DEF DrawSeeds
  <2>2. (Proceed /\ UNCHANGED exit) \/ Stop("failure")
    BY <1>5, Zenon DEF DrawSeeds
  <2>3. phase \in {"start"} \cup Steps
    BY <2>1 DEF Steps, GenSteps
  <2> QED BY <2>1, <2>2, <2>3, <1>0, ProceedNotReporting
<1>6. CASE GenerateBatch
  <2>1. UNCHANGED <<phase, exit>> \/ Stop("failure")
    BY <1>6, Zenon DEF GenerateBatch
  <2>2. phase = "gen" /\ exit # "success"
    BY <1>6 DEF GenerateBatch, PhaseInv
  <2> QED BY <2>1, <2>2, <1>0, NotReporting
<1>7. CASE SaveSeeds
  <2>1. phase = "save" /\ Proceed /\ UNCHANGED <<opts, exit>>
    BY <1>7 DEF SaveSeeds
  <2>2. phase \in {"start"} \cup Steps
    BY <2>1 DEF Steps, GenSteps
  <2> QED BY <2>1, <2>2, ProceedNotReporting
<1>8. CASE GccCompile
  <2>1. UNCHANGED <<phase, exit>> \/ Stop("failure")
    BY <1>8, Zenon DEF GccCompile
  <2>2. phase = "gcc" /\ exit # "success"
    BY <1>8 DEF GccCompile, PhaseInv
  <2> QED BY <2>1, <2>2, <1>0, NotReporting DEF Stop
<1>9. CASE IssSim
  <2>1. UNCHANGED <<phase, exit>> \/ Stop("failure")
    BY <1>9, Zenon DEF IssSim
  <2>2. phase = "sim" /\ exit # "success"
    BY <1>9 DEF IssSim, PhaseInv
  <2> QED BY <2>1, <2>2, <1>0, NotReporting
<1>10. CASE ClearReport
  BY <1>10, ClearReporting
<1>11. CASE IssCmp
  BY <1>0, <1>11, CompareReporting
<1>12. CASE Summarise
  BY <1>12, SummaryReporting
<1>13. CASE Finish
  <2>1. /\ phase = "end" /\ phase' = "idle" /\ UNCHANGED <<opts, report>>
    BY <1>13 DEF Finish, Stop, Stop, files
  <2>2. "cmp" \in opts.steps /\ Comparing => FullReport
    BY <2>1 DEF ReportInv
  <2>3. FullReport => FullReport'
    BY <2>1, Zenon DEF FullReport
  <2>4. opts' = opts
    BY <2>1
  <2> QED BY <2>1, <2>2, <2>3, <2>4 DEF ReportInv
<1>14. CASE Interrupt
  BY <1>14, <1>0 DEF Interrupt
<1>15. CASE ChildGenerates \/ ChildSimulates \/ ChildEnds \/ UNCHANGED vars
  <2>1. opts' = opts /\ report' = report /\ phase' = phase /\ exit' = exit /\ todo' = todo
    BY <1>15 DEF ChildGenerates, ChildSimulates, ChildEnds, vars, files
  <2>2. JudgedInOrder => JudgedInOrder'
    BY <2>1 DEF JudgedInOrder
  <2>3. FullReport => FullReport'
    BY <2>1, Zenon DEF FullReport
  <2> QED BY <2>1, <2>2, <2>3 DEF ReportInv
<1> QED BY <1>1, <1>2, <1>3, <1>4, <1>5, <1>6, <1>7, <1>8, <1>9, <1>10, <1>11, <1>12, <1>13,
           <1>14, <1>15 DEF Next

LEMMA InitReport == Init => PhaseInv /\ ReportInv
BY DEF Init, PhaseInv, ReportInv, Steps, GenSteps, CmpSteps

(* A run that compared and ended well has reported every iteration of every   *)
(* test once and in order, and its summary counts the verdicts, whatever      *)
(* report earlier invocations left and whatever went wrong before.            *)
THEOREM ReportsComplete == Spec => []ReportComplete
<1>1. PhaseInv /\ ReportInv /\ [Next]_vars => (PhaseInv /\ ReportInv)'
  BY PhaseStep, ReportStep
<1>2. PhaseInv /\ ReportInv => ReportComplete
  <2> SUFFICES ASSUME ReportInv, exit = "success", Asked("cmp") PROVE FullReport
    BY DEF ReportComplete
  <2>1. "cmp" \in opts.steps /\ Comparing
    BY AskedIs DEF CmpSteps
  <2> QED BY <2>1 DEF ReportInv
<1> QED BY <1>1, <1>2, InitReport, PTL DEF Spec

-----------------------------------------------------------------------------
(* A verdict is about the program the seeds make.  What is newer than its      *)
(* source was made of it, whoever wrote it and in whichever invocation.        *)

FilesInv ==
  /\ DOMAIN elf = Jobs /\ DOMAIN log = Sims \X Jobs
  /\ sown \cup kept \cup built \subseteq Jobs /\ ran \subseteq Sims \X Jobs
  /\ \A j \in built : elf[j] = asm[j]
  /\ \A x \in ran : log[x].prog = elf[x[2]]
  /\ \A j \in sown : asm[j] = RecordedAs(sim_seed, j)
  /\ \A j \in kept : asm[j] = RecordedAs(seed_yaml, j)

\* Of the programs made the promised ones are those the seeds make again.
ByTheSeeds(made, seeds, promised) ==
  /\ DOMAIN made \subseteq Jobs
  /\ \A j \in promised \cap DOMAIN made : made[j] = RecordedAs(seeds, j)

\* Commands left running keep the seeds they were started with.
IsGenerator(c) ==
  /\ c = [step |-> "gen", made |-> c.made, seeds |-> c.seeds, promised |-> c.promised]
  /\ ByTheSeeds(c.made, c.seeds, c.promised)

IsSimulator(c) == c = [step |-> "sim", at |-> c.at, prog |-> c.prog, rows |-> c.rows]

ChildrenInv == \A c \in children : IsGenerator(c) \/ IsSimulator(c)

LEMMA KeepsFiles ==
  ASSUME FilesInv, UNCHANGED <<asm, elf, log, sim_seed, seed_yaml, sown, kept, built, ran>>
  PROVE  FilesInv'
BY DEF FilesInv, RecordedAs

\* A generator writes over programs; the promised ones are of its seeds, and
\* what was compiled of the others is not compiled of them.
LEMMA GeneratedFiles ==
  ASSUME FilesInv, NEW made, NEW jobs \in SUBSET DOMAIN made, NEW seeds, NEW promised,
         ByTheSeeds(made, seeds, promised), Generated(made, jobs, seeds, promised),
         UNCHANGED <<elf, log, sim_seed, seed_yaml, ran>>
  PROVE  FilesInv'
<1> DEFINE Since(old, y) == (old \ jobs) \cup (IF y = seeds THEN promised \cap jobs ELSE {})
<1>1. /\ asm' = [j \in Jobs |-> IF j \in jobs THEN made[j] ELSE asm[j]]
      /\ sown' = Since(sown, sim_seed) /\ kept' = Since(kept, seed_yaml) /\ built' = built \ jobs
  BY Zenon DEF Generated
<1>2. jobs \subseteq Jobs
  BY DEF ByTheSeeds
<1>3. sown' \cup kept' \cup built' \subseteq Jobs
  BY <1>1, <1>2 DEF FilesInv
<1>4. \A j \in built' : elf'[j] = asm'[j]
  BY <1>1 DEF FilesInv
<1>5. ASSUME NEW y, NEW old \in SUBSET Jobs, \A j \in old : asm[j] = RecordedAs(y, j),
             NEW j \in Since(old, y)
      PROVE  asm'[j] = RecordedAs(y, j)
  <2>1. CASE j \in jobs
    <3>1. y = seeds /\ j \in promised \cap jobs
      BY <2>1
    <3> QED BY <1>1, <1>2, <2>1, <3>1 DEF ByTheSeeds
  <2>2. CASE j \notin jobs
    <3>1. j \in old
      BY <2>2
    <3> QED BY <1>1, <1>5, <2>2, <3>1
  <2> QED BY <2>1, <2>2
<1>6. \A j \in sown' : asm'[j] = RecordedAs(sim_seed', j)
  BY <1>1, <1>5 DEF FilesInv
<1>7. \A j \in kept' : asm'[j] = RecordedAs(seed_yaml', j)
  BY <1>1, <1>5 DEF FilesInv
<1> QED BY <1>3, <1>4, <1>6, <1>7 DEF FilesInv, RecordedAs

(* What the generation makes of a job whose seed is recorded.                 *)
LEMMA ProgramRecorded ==
  ASSUME opts \in Options, NEW e \in Range(BatchesOf(opts)), NEW j \in Jobs, j \in Batch(e), Promised(j)
  PROVE  /\ Program(e[1], e[2], j[2] - start_idx(e[2])) = RecordedAs(sim_seed, j)
         /\ Maker(j[1]) # None /\ Seeded # {}
<1>1. e \in BatchSet(opts) /\ ~IsCsr(j[1])
  BY BatchesTyped DEF Promised
<1>2. /\ e[2] = BatchOf(j) /\ j[1] = e[1] /\ j[2] \in Nat
      /\ j[2] - start_idx(e[2]) \in Nat
      /\ BatchSize # 0 => j[2] - e[2] * BatchSize \in 0 .. BatchSize - 1
  BY <1>1, BatchOfJob
<1>3. \A d \in BatchSet(opts) : d = <<d[1], d[2]>> /\ d[1] \in DOMAIN Tests /\ d[2] \in Nat
  <2> SUFFICES ASSUME NEW d \in BatchSet(opts)
               PROVE  d = <<d[1], d[2]>> /\ d[1] \in DOMAIN Tests /\ d[2] \in Nat
    OBVIOUS
  <2>1. PICK t \in Range(opts.tests) : \E b \in 0 .. batch_cnt(opts, t) - 1 : d = <<t, b>>
    BY Zenon DEF BatchSet
  <2>2. PICK b \in 0 .. batch_cnt(opts, t) - 1 : d = <<t, b>>
    BY <2>1
  <2>3. batch_cnt(opts, t) \in Nat /\ t \in DOMAIN Tests
    BY batch_cntType, TestsListed
  <2> QED BY <2>2, <2>3
<1>4. e = <<e[1], e[2]>> /\ e[2] \in Nat /\ e[1] \in DOMAIN Tests
  BY <1>1, <1>3
<1>5. e \in Seeded
  BY <1>1, <1>2 DEF Seeded
<1>6. Maker(j[1]) = Tests[j[1]].gen_test /\ Tests[j[1]].gen_test # None
  BY <1>2, <1>4, TestsAssumption DEF Promised, Maker
<1>7. opts.simulator = "pyflow" => j[2] - start_idx(e[2]) = 0
  <2> SUFFICES ASSUME opts.simulator = "pyflow" PROVE j[2] - start_idx(e[2]) = 0
    OBVIOUS
  <2>1. PICK d \in Seeded : j[2] = start_idx(d[2])
    BY Zenon DEF Promised
  <2>2. d[2] \in Nat /\ BatchSize \in Nat
    <3>1. d \in BatchSet(opts)
      BY BatchesTyped DEF Seeded
    <3> QED BY <3>1, <1>3, OptionsAssumption
  <2>3. j[2] = d[2] * BatchSize
    BY <2>1 DEF start_idx
  <2>4. CASE BatchSize = 0
    BY <1>4, <2>2, <2>3, <2>4 DEF start_idx
  <2>5. CASE BatchSize # 0
    <3>1. j[2] - d[2] * BatchSize \in 0 .. BatchSize - 1
      BY <2>2, <2>3, <2>5
    <3>2. j[2] \div BatchSize = d[2]
      BY <1>2, <2>2, <2>5, <3>1, BatchNumber
    <3>3. j[2] \div BatchSize = e[2]
      BY <1>2, <1>4, <2>2, <2>5, BatchNumber
    <3>4. d[2] = e[2]
      BY <3>2, <3>3
    <3> QED BY <1>2, <2>3, <3>4 DEF start_idx
  <2> QED BY <2>4, <2>5
<1>8. Program(e[1], e[2], j[2] - start_idx(e[2])) =
        [test |-> e[1], gen |-> Maker(e[1]), index |-> j[2] - start_idx(e[2]), seed |-> sim_seed[e]]
  BY <1>4, <1>5, <1>7, Zenon DEF Program
<1>9. RecordedAs(sim_seed, j) =
        [test |-> j[1], gen |-> Tests[j[1]].gen_test, seed |-> sim_seed[<<j[1], BatchOf(j)>>],
         index |-> j[2] - start_idx(BatchOf(j))]
  BY DEF RecordedAs
<1>10. sim_seed[<<j[1], BatchOf(j)>>] = sim_seed[e]
  BY <1>2, <1>4
<1> QED BY <1>2, <1>5, <1>6, <1>8, <1>9, <1>10

\* A command of the generation and the generator left of it.
LEMMA MakingSeeds ==
  ASSUME opts \in Options, NEW e \in Range(BatchesOf(opts))
  PROVE  ByTheSeeds(Making(e), sim_seed, PromisedJobs)
<1>1. DOMAIN Making(e) \subseteq Batch(e) /\ Batch(e) \subseteq Jobs
  BY DEF Making, Batch
<1>2. ASSUME NEW j \in PromisedJobs \cap DOMAIN Making(e)
      PROVE  Making(e)[j] = RecordedAs(sim_seed, j)
  <2>1. Making(e)[j] = Program(e[1], e[2], j[2] - start_idx(e[2]))
    BY Zenon DEF Making
  <2>2. j \in Jobs /\ Promised(j) /\ j \in Batch(e)
    BY <1>1 DEF PromisedJobs
  <2> QED BY <2>1, <2>2, ProgramRecorded
<1> QED BY <1>1, <1>2 DEF ByTheSeeds

\* A command left running is one of those of the step.
LEMMA CommandLeft ==
  ASSUME PhaseInv, phase = "gen", NEW n \in DOMAIN todo
  PROVE  todo[n] \in Range(BatchesOf(opts)) /\ opts \in Options
<1>1. todo \in Seq(Range(BatchesOf(opts)))
  BY DEF PhaseInv
<1> QED BY <1>1, LenProperties, ElementOfSeq DEF PhaseInv

LEMMA GenerateFiles ==
  ASSUME PhaseInv, FilesInv, GenerateBatch
  PROVE  FilesInv'
<1>1. phase = "gen" /\ UNCHANGED <<elf, log, sim_seed, seed_yaml, ran>>
  BY DEF GenerateBatch
<1>2. PICK n \in DOMAIN todo :
        \E jobs \in SUBSET DOMAIN Making(todo[n]) :
          Generated(Making(todo[n]), jobs, sim_seed, PromisedJobs)
  BY Zenon DEF GenerateBatch
<1>3. ByTheSeeds(Making(todo[n]), sim_seed, PromisedJobs)
  BY <1>1, CommandLeft, MakingSeeds
<1> QED BY <1>1, <1>2, <1>3, GeneratedFiles

\* New seeds have made nothing yet; the saved ones made what the drawn did.
LEMMA SeedsFiles ==
  ASSUME FilesInv, DrawSeeds \/ SaveSeeds
  PROVE  FilesInv'
<1>1. CASE DrawSeeds
  <2>1. /\ UNCHANGED <<asm, elf, log, built, ran>>
        /\ UNCHANGED <<sim_seed, sown>> \/ sown' = {}
        /\ UNCHANGED <<seed_yaml, kept>> \/ kept' = {}
    BY <1>1, Zenon DEF DrawSeeds
  <2> QED BY <2>1 DEF FilesInv, RecordedAs
<1>2. CASE SaveSeeds
  <2>1. /\ UNCHANGED <<asm, elf, log, sim_seed, sown, built, ran>>
        /\ UNCHANGED <<seed_yaml, kept>> \/ (seed_yaml' = sim_seed /\ kept' = sown)
    BY <1>2, Zenon DEF SaveSeeds
  <2> QED BY <2>1 DEF FilesInv, RecordedAs
<1> QED BY <1>1, <1>2

\* A new binary outdates the logs of its job, ...
LEMMA BinaryFiles ==
  ASSUME FilesInv, NEW j \in Jobs, NEW prog, Binary(j, prog),
         (built' = built \cup {j} /\ prog = asm[j]) \/ built' = built \ {j},
         UNCHANGED <<asm, log, sim_seed, seed_yaml, sown, kept>>
  PROVE  FilesInv'
<1>1. elf' = [elf EXCEPT ![j] = prog] /\ ran' = ran \ (Sims \X {j})
  BY DEF Binary
<1>2. DOMAIN elf' = Jobs /\ elf'[j] = prog /\ \A i \in Jobs \ {j} : elf'[i] = elf[i]
  BY <1>1 DEF FilesInv
<1>3. \A i \in built' : elf'[i] = asm'[i]
  BY <1>2 DEF FilesInv
<1>4. \A x \in ran' : x \in ran /\ x[2] \in Jobs \ {j}
  BY <1>1 DEF FilesInv
<1>5. \A x \in ran' : log'[x].prog = elf'[x[2]]
  BY <1>2, <1>4 DEF FilesInv
<1> QED BY <1>1, <1>2, <1>3, <1>5 DEF FilesInv, RecordedAs

\* ... and a new log is of the binary.
LEMMA LoggedFiles ==
  ASSUME FilesInv, NEW x \in Sims \X Jobs, NEW n, Logged(x, n),
         UNCHANGED <<asm, elf, sim_seed, seed_yaml, sown, kept, built>>
  PROVE  FilesInv'
<1>1. log' = [log EXCEPT ![x] = Log(elf[x[2]], n)] /\ ran' = ran \cup {x}
  BY DEF Logged
<1>2. DOMAIN log' = Sims \X Jobs /\ log'[x].prog = elf[x[2]]
      /\ \A y \in Sims \X Jobs : y # x => log'[y] = log[y]
  BY <1>1 DEF FilesInv, Log
<1> QED BY <1>1, <1>2 DEF FilesInv, RecordedAs

LEMMA HeadTyped ==
  ASSUME PhaseInv, todo # <<>>
  PROVE  /\ phase \in {"gcc", "cmp"} => Head(todo) \in Jobs
         /\ phase = "sim" => Head(todo) \in Sims \X Jobs
BY HeadTailProperties DEF PhaseInv

LEMMA GccFiles ==
  ASSUME PhaseInv, FilesInv, GccCompile
  PROVE  FilesInv'
<1> DEFINE j == Head(todo)
<1>1. phase = "gcc" /\ todo # <<>> /\ UNCHANGED <<asm, log, sim_seed, seed_yaml, sown, kept>>
  BY DEF GccCompile
<1>2. j \in Jobs
  BY <1>1, HeadTyped
<1>3. \/ Binary(j, asm[j]) /\ built' = built \cup {j}
      \/ UNCHANGED <<elf, built, ran>>
      \/ GccStopped(j)
  BY Zenon DEF GccCompile
<1> HIDE DEF j
<1>4. CASE Binary(j, asm[j]) /\ built' = built \cup {j}
  BY <1>1, <1>2, <1>4, BinaryFiles
<1>5. CASE UNCHANGED <<elf, built, ran>>
  BY <1>1, <1>5, KeepsFiles
<1>6. CASE GccStopped(j)
  BY <1>1, <1>2, <1>6, BinaryFiles DEF GccStopped
<1> QED BY <1>3, <1>4, <1>5, <1>6

LEMMA SimFiles ==
  ASSUME PhaseInv, FilesInv, IssSim
  PROVE  FilesInv'
<1>1. phase = "sim" /\ todo # <<>> /\ UNCHANGED <<asm, elf, sim_seed, seed_yaml, sown, kept, built>>
  BY DEF IssSim
<1>2. \E n : Logged(Head(todo), n)
  BY Zenon DEF IssSim
<1> QED BY <1>1, <1>2, HeadTyped, LoggedFiles

\* What an interrupt leaves half done is not said to be new.
LEMMA InterruptFiles ==
  ASSUME PhaseInv, FilesInv, Interrupt
  PROVE  FilesInv'
<1>1. UNCHANGED <<asm, sim_seed, seed_yaml, sown, kept>>
  BY DEF Interrupt
<1>2. \/ UNCHANGED <<elf, log, built, ran>>
      \/ phase = "gcc" /\ todo # <<>> /\ GccStopped(Head(todo)) /\ UNCHANGED log
      \/ phase = "sim" /\ todo # <<>> /\ Logged(Head(todo), 0) /\ UNCHANGED <<elf, built>>
  BY Zenon DEF Interrupt
<1>3. CASE UNCHANGED <<elf, log, built, ran>>
  BY <1>1, <1>3, KeepsFiles
<1>4. CASE phase = "gcc" /\ todo # <<>> /\ GccStopped(Head(todo)) /\ UNCHANGED log
  BY <1>1, <1>4, HeadTyped, BinaryFiles DEF GccStopped
<1>5. CASE phase = "sim" /\ todo # <<>> /\ Logged(Head(todo), 0) /\ UNCHANGED <<elf, built>>
  BY <1>1, <1>5, HeadTyped, LoggedFiles
<1> QED BY <1>2, <1>3, <1>4, <1>5

\* A generator left running writes one program of its own seeds.
LEMMA ChildGeneratesFiles ==
  ASSUME FilesInv, ChildrenInv, ChildGenerates
  PROVE  FilesInv' /\ ChildrenInv'
<1>1. PICK c \in children : c.step = "gen" /\ \E j \in DOMAIN c.made :
            /\ Generated(c.made, {j}, c.seeds, c.promised)
            /\ children' = (children \ {c}) \cup
                 {[c EXCEPT !.made = [i \in DOMAIN c.made \ {j} |-> c.made[i]]]}
  BY Zenon DEF ChildGenerates
<1>2. PICK j \in DOMAIN c.made :
            /\ Generated(c.made, {j}, c.seeds, c.promised)
            /\ children' = (children \ {c}) \cup
                 {[c EXCEPT !.made = [i \in DOMAIN c.made \ {j} |-> c.made[i]]]}
  BY <1>1
<1>3. IsGenerator(c)
  BY <1>1 DEF ChildrenInv, IsSimulator
<1>4. FilesInv'
  <2>1. UNCHANGED <<elf, log, sim_seed, seed_yaml, ran>>
    BY DEF ChildGenerates
  <2> QED BY <1>2, <1>3, <2>1, GeneratedFiles DEF IsGenerator
<1> DEFINE left == [i \in DOMAIN c.made \ {j} |-> c.made[i]]
           d == [c EXCEPT !.made = left]
<1>5. IsGenerator(d)
  <2>1. ByTheSeeds(left, c.seeds, c.promised)
    BY <1>3 DEF IsGenerator, ByTheSeeds
  <2> HIDE DEF left
  <2>2. d = [step |-> "gen", made |-> left, seeds |-> c.seeds, promised |-> c.promised]
    BY <1>3 DEF IsGenerator
  <2> HIDE DEF d
  <2>3. d.made = left /\ d.seeds = c.seeds /\ d.promised = c.promised
    BY <2>2
  <2> QED BY <2>1, <2>2, <2>3 DEF IsGenerator
<1> HIDE DEF d
<1>6. \A b \in children' : b \in children \/ b = d
  BY <1>2 DEF d
<1>7. ASSUME NEW b \in children' PROVE IsGenerator(b) \/ IsSimulator(b)
  BY <1>5, <1>6 DEF ChildrenInv
<1> QED BY <1>4, <1>7 DEF ChildrenInv, IsGenerator, IsSimulator, ByTheSeeds, RecordedAs

\* A simulator left running spoils a log, or makes it longer.
LEMMA ChildSimulatesFiles ==
  ASSUME FilesInv, ChildrenInv, ChildSimulates
  PROVE  FilesInv' /\ ChildrenInv'
<1> DEFINE same(c) == ~log[c.at].mixed /\ log[c.at].prog = c.prog /\ c.rows =< log[c.at].rows
           longer(c) == Log(c.prog, Max({log[c.at].rows, c.rows + 1}))
<1>1. PICK c \in children :
         /\ c.step = "sim"
         /\ log' = [log EXCEPT ![c.at] = IF same(c) THEN longer(c) ELSE Mixed]
         /\ ran' = IF same(c) THEN ran ELSE ran \ {c.at}
         /\ children' = (children \ {c}) \cup {[c EXCEPT !.rows = @ + 1]}
  BY Zenon DEF ChildSimulates
<1>2. UNCHANGED <<asm, elf, sim_seed, seed_yaml, sown, kept, built>>
  BY DEF ChildSimulates
<1>3. same(c) => longer(c).prog = log[c.at].prog
  BY DEF Log
<1> HIDE DEF same, longer
<1>4. \A x \in ran' : x \in ran /\ log'[x].prog = log[x].prog
  BY <1>1, <1>3 DEF FilesInv
<1>5. DOMAIN log' = Sims \X Jobs
  BY <1>1 DEF FilesInv
<1>6. FilesInv'
  BY <1>2, <1>4, <1>5 DEF FilesInv, RecordedAs
<1> DEFINE d == [c EXCEPT !.rows = @ + 1]
<1>7. IsSimulator(d)
  <2>1. c = [step |-> "sim", at |-> c.at, prog |-> c.prog, rows |-> c.rows]
    BY <1>1 DEF ChildrenInv, IsGenerator, IsSimulator
  <2>2. d = [step |-> "sim", at |-> c.at, prog |-> c.prog, rows |-> c.rows + 1]
    BY <2>1
  <2> HIDE DEF d
  <2> QED BY <2>2 DEF IsSimulator
<1> HIDE DEF d
<1>8. \A b \in children' : b \in children \/ b = d
  BY <1>1 DEF d
<1>9. ASSUME NEW b \in children' PROVE IsGenerator(b) \/ IsSimulator(b)
  BY <1>7, <1>8 DEF ChildrenInv
<1> QED BY <1>6, <1>9 DEF ChildrenInv, IsGenerator, IsSimulator, ByTheSeeds, RecordedAs

\* A command left running by an interrupt is as its step started it.
LEMMA InterruptChildren ==
  ASSUME PhaseInv, ChildrenInv, Interrupt
  PROVE  ChildrenInv'
<1>1. \A c \in children' :
        \/ c \in children
        \/ phase = "gen" /\ \E n \in DOMAIN todo : c = Generator(todo[n])
        \/ c = Simulator(Head(todo))
  BY Zenon DEF Interrupt
<1>2. ASSUME phase = "gen", NEW n \in DOMAIN todo
      PROVE  IsGenerator(Generator(todo[n]))
  <2> DEFINE c == Generator(todo[n])
  <2>1. ByTheSeeds(Making(todo[n]), sim_seed, PromisedJobs)
    BY <1>2, CommandLeft, MakingSeeds
  <2>2. c = [step |-> "gen", made |-> Making(todo[n]), seeds |-> sim_seed, promised |-> PromisedJobs]
    BY DEF Generator
  <2> HIDE DEF c
  <2>3. c.made = Making(todo[n]) /\ c.seeds = sim_seed /\ c.promised = PromisedJobs
    BY <2>2
  <2>4. IsGenerator(c)
    BY <2>1, <2>2, <2>3 DEF IsGenerator
  <2> QED BY <2>4 DEF c
<1>3. IsSimulator(Simulator(Head(todo)))
  BY DEF IsSimulator, Simulator
<1>4. ASSUME NEW c \in children' PROVE IsGenerator(c) \/ IsSimulator(c)
  BY <1>1, <1>2, <1>3 DEF ChildrenInv
<1> QED BY <1>4 DEF ChildrenInv, IsGenerator, IsSimulator, ByTheSeeds, RecordedAs

LEMMA KeepsChildren ==
  ASSUME ChildrenInv, children' \subseteq children
  PROVE  ChildrenInv'
BY DEF ChildrenInv, IsGenerator, IsSimulator, ByTheSeeds, RecordedAs

\* Every action keeps the files together with what made them.
LEMMA FilesStep ==
  ASSUME PhaseInv, FilesInv, ChildrenInv, [Next]_vars
  PROVE  FilesInv' /\ ChildrenInv'
<1>1. CASE Invoke \/ NextStep \/ Finish \/ Compile \/ ChildEnds \/ UNCHANGED vars
  <2>1. /\ UNCHANGED <<asm, elf, log, sim_seed, seed_yaml, sown, kept, built, ran>>
        /\ children' \subseteq children
    BY <1>1 DEF Invoke, NextStep, Finish, Compile, ChildEnds, vars, files, hist
  <2> QED BY <2>1, KeepsFiles, KeepsChildren
<1>2. CASE RunDirected \/ ClearReport \/ IssCmp \/ Summarise
  <2>1. /\ UNCHANGED <<asm, elf, log, sim_seed, seed_yaml, sown, kept, built, ran>>
        /\ children' \subseteq children
    BY <1>2 DEF RunDirected, ClearReport, IssCmp, Summarise, hist
  <2> QED BY <2>1, KeepsFiles, KeepsChildren
<1>3. CASE DrawSeeds \/ SaveSeeds \/ GenerateBatch \/ GccCompile \/ IssSim
  <2>1. children' \subseteq children
    BY <1>3 DEF DrawSeeds, SaveSeeds, GenerateBatch, GccCompile, IssSim
  <2> QED BY <1>3, <2>1, KeepsChildren, SeedsFiles, GenerateFiles, GccFiles, SimFiles
<1>4. CASE Interrupt
  BY <1>4, InterruptFiles, InterruptChildren
<1>5. CASE ChildGenerates
  BY <1>5, ChildGeneratesFiles
<1>6. CASE ChildSimulates
  BY <1>6, ChildSimulatesFiles
<1> QED BY <1>1, <1>2, <1>3, <1>4, <1>5, <1>6 DEF Next

LEMMA InitFiles == Init => FilesInv /\ ChildrenInv
BY DEF Init, FilesInv, ChildrenInv

-----------------------------------------------------------------------------
(* A whole, clean run makes everything its verdicts are about: no command     *)
(* list leaves a job out, and no step that was asked for is passed over.      *)

LEMMA ConcatRange ==
  ASSUME NEW S, NEW s \in Seq(S), NEW t \in Seq(S)
  PROVE  Range(s) \cup Range(t) \subseteq Range(s \o t)
<1>1. /\ s \o t \in Seq(S) /\ Len(s \o t) = Len(s) + Len(t)
      /\ \A i \in 1 .. Len(s) + Len(t) :
           (s \o t)[i] = IF i <= Len(s) THEN s[i] ELSE t[i - Len(s)]
  BY ConcatProperties
<1>2. Len(s) \in Nat /\ Len(t) \in Nat /\ DOMAIN s = 1 .. Len(s) /\ DOMAIN t = 1 .. Len(t)
      /\ DOMAIN (s \o t) = 1 .. Len(s) + Len(t)
  BY <1>1, LenProperties
<1>3. ASSUME NEW i \in DOMAIN s PROVE s[i] \in Range(s \o t)
  <2>1. i \in DOMAIN (s \o t) /\ (s \o t)[i] = s[i]
    BY <1>1, <1>2
  <2> QED BY <2>1 DEF Range
<1>4. ASSUME NEW i \in DOMAIN t PROVE t[i] \in Range(s \o t)
  <2>1. /\ Len(s) + i \in DOMAIN (s \o t) /\ (Len(s) + i) - Len(s) = i
        /\ ~(Len(s) + i <= Len(s))
    BY <1>2
  <2>2. (s \o t)[Len(s) + i] = t[i]
    BY <1>1, <1>2, <2>1
  <2> QED BY <2>1, <2>2 DEF Range
<1> QED BY <1>3, <1>4 DEF Range

\* Flattening loses nothing.
LEMMA FlattenHas ==
  ASSUME NEW S, NEW seqs \in Seq(Seq(S)), NEW k \in 1 .. Len(seqs), NEW x \in Range(seqs[k])
  PROVE  x \in Range(FlattenSeq(seqs))
<1> DEFINE n == Len(seqs)
           g == Concat(seqs)
           X == {i \in 0 .. n : (i # 0 => g[i] \in Seq(S)) /\ (i >= k => x \in Range(g[i]))}
<1>0. n \in Nat /\ \A i \in 1 .. n : seqs[i] \in Seq(S)
  BY LenProperties, ElementOfSeq
<1>1. g = [i \in 1 .. n |-> IF i = 1 THEN seqs[i] ELSE g[i - 1] \o seqs[i]]
  BY ConcatExists, Zenon DEF Concat
<1>2. \A i \in 1 .. n : g[i] = IF i = 1 THEN seqs[i] ELSE g[i - 1] \o seqs[i]
  <2> HIDE DEF n, g
  <2> QED BY <1>1
<1>00. k \in 1 .. n
  OBVIOUS
<1> HIDE DEF n, g
<1>3. 0 \in X
  BY <1>0, <1>00
<1>4. ASSUME NEW i \in 0 .. n, i + 1 <= n, i \in X
      PROVE  i + 1 \in X
  <2>1. i + 1 \in 1 .. n /\ i + 1 \in 0 .. n /\ (i + 1) - 1 = i /\ (i + 1 = 1 <=> i = 0)
    BY <1>4, <1>0
  <2>2. seqs[i + 1] \in Seq(S)
    BY <1>0, <2>1
  <2>3. CASE i = 0
    <3>1. g[i + 1] = seqs[i + 1] /\ (i + 1 >= k => k = i + 1)
      BY <1>2, <1>00, <2>1, <2>3
    <3> QED BY <2>1, <2>2, <3>1
  <2>4. CASE i # 0
    <3>1. g[i + 1] = g[i] \o seqs[i + 1]
      BY <1>2, <2>1, <2>4
    <3>2. g[i] \in Seq(S) /\ (i >= k => x \in Range(g[i]))
      BY <1>4, <2>4
    <3>3. g[i + 1] \in Seq(S) /\ Range(g[i]) \cup Range(seqs[i + 1]) \subseteq Range(g[i + 1])
      BY <2>2, <3>1, <3>2, ConcatProperties, ConcatRange
    <3>4. i + 1 >= k => i >= k \/ k = i + 1
      BY <1>00, <2>1
    <3>5. i + 1 >= k => x \in Range(g[i + 1])
      BY <3>2, <3>3, <3>4
    <3> QED BY <2>1, <3>3, <3>5
  <2> QED BY <2>3, <2>4
<1> HIDE DEF X
<1>5. n \in X
  <2>1. \A i \in 0 .. n : i \in X
    BY <1>0, <1>3, <1>4, Inductive
  <2> QED BY <2>1, <1>0
<1>6. n >= k /\ n # 0
  BY <1>0, <1>00
<1>7. x \in Range(g[n])
  BY <1>5, <1>6 DEF X
<1> QED BY <1>6, <1>7, FlattenIsConcat DEF n, g

\* Every number of every test is listed.
LEMMA ListingHas ==
  ASSUME NEW o \in Options, NEW S, NEW n,
         \A t \in Range(o.tests) : n[t] \in Nat /\ \A m \in 1 .. n[t] : <<t, m - 1>> \in S,
         NEW t \in Range(o.tests), NEW i \in 0 .. n[t] - 1
  PROVE  <<t, i>> \in Range(Listing(o, n))
<1> DEFINE part(u) == [m \in 1 .. n[u] |-> <<u, m - 1>>]
           parts == [k \in DOMAIN o.tests |-> part(o.tests[k])]
<1>1. ASSUME NEW u \in Range(o.tests) PROVE part(u) \in Seq(S)
  BY IsASeq
<1>2. o.tests \in Seq(DOMAIN Tests)
  BY OptionsAssumption
<1>3. Len(o.tests) \in Nat /\ DOMAIN o.tests = 1 .. Len(o.tests)
      /\ \A k \in 1 .. Len(o.tests) : o.tests[k] \in Range(o.tests)
  BY <1>2, LenProperties DEF Range
<1>4. parts = [k \in 1 .. Len(o.tests) |-> part(o.tests[k])]
  BY <1>3
<1>5. parts \in Seq(Seq(S)) /\ Len(parts) = Len(o.tests)
  <2> HIDE DEF part
  <2>1. \A k \in 1 .. Len(o.tests) : part(o.tests[k]) \in Seq(S)
    BY <1>1, <1>3
  <2> HIDE DEF parts
  <2>2. parts \in Seq(Seq(S))
    BY <1>3, <1>4, <2>1, IsASeq
  <2>3. DOMAIN parts = 1 .. Len(parts) /\ Len(parts) \in Nat /\ DOMAIN parts = 1 .. Len(o.tests)
    BY <2>2, <1>4, LenProperties
  <2>4. Len(parts) = Len(o.tests)
    BY <1>3, <2>3
  <2> QED BY <2>2, <2>4
<1>6. <<t, i>> \in Range(part(t))
  <2>1. n[t] \in Nat /\ i + 1 \in 1 .. n[t] /\ (i + 1) - 1 = i
    OBVIOUS
  <2>2. part(t)[i + 1] = <<t, i>> /\ i + 1 \in DOMAIN part(t)
    BY <2>1
  <2> HIDE DEF part
  <2> QED BY <2>2 DEF Range
<1>7. PICK k \in 1 .. Len(o.tests) : o.tests[k] = t
  BY <1>3 DEF Range
<1>8. parts[k] = part(t)
  <2> HIDE DEF part
  <2> QED BY <1>3, <1>7
<1>9. Listing(o, n) = FlattenSeq(parts)
  BY DEF Listing
<1> HIDE DEF parts, part
<1> QED BY <1>5, <1>6, <1>7, <1>8, <1>9, FlattenHas

\* The jobs of an invocation.
JobSet(o) == UNION {{<<t, i>> : i \in 0 .. Iterations(o, t) - 1} : t \in Range(o.tests)}

LEMMA JobSetIs ==
  ASSUME NEW o \in Options, NEW j \in JobSet(o)
  PROVE  /\ j = <<j[1], j[2]>> /\ j[1] \in Range(o.tests) /\ j[1] \in DOMAIN Tests
         /\ j[2] \in 0 .. Iterations(o, j[1]) - 1 /\ j \in Jobs
<1>1. PICK t \in Range(o.tests) : \E i \in 0 .. Iterations(o, t) - 1 : j = <<t, i>>
  BY Zenon DEF JobSet
<1>2. PICK i \in 0 .. Iterations(o, t) - 1 : j = <<t, i>>
  BY <1>1
<1>3. t \in DOMAIN Tests
  BY TestsListed
<1>4. i \in 0 .. Tests[t].iterations - 1
  BY <1>2, <1>3, IterationsType
<1> QED BY <1>2, <1>3, <1>4, JobIs

LEMMA JobsOfSet ==
  ASSUME NEW o \in Options
  PROVE  JobsOf(o) \in Seq(JobSet(o))
<1> DEFINE n == [t \in DOMAIN Tests |-> Iterations(o, t)]
<1>1. ASSUME NEW t \in Range(o.tests)
      PROVE  n[t] \in Nat /\ \A m \in 1 .. n[t] : <<t, m - 1>> \in JobSet(o)
  <2>1. n[t] = Iterations(o, t) /\ n[t] \in Nat
    BY IterationsType, TestsListed
  <2> HIDE DEF n
  <2>2. ASSUME NEW m \in 1 .. n[t]
        PROVE  <<t, m - 1>> \in JobSet(o)
    <3> DEFINE of == {<<t, b>> : b \in 0 .. Iterations(o, t) - 1}
    <3>1. <<t, m - 1>> \in of
      BY <2>1
    <3> QED BY <3>1, Zenon DEF JobSet
  <2> QED BY <2>1, <2>2
<1>2. JobsOf(o) = Listing(o, n)
  BY DEF JobsOf
<1> HIDE DEF n
<1> QED BY <1>1, <1>2, ListingType

LEMMA GccJobsHave ==
  ASSUME NEW o \in Options, NEW j \in JobSet(o), ~Tests[j[1]].no_gcc
  PROVE  j \in Range(GccJobsOf(o))
<1> DEFINE n == [t \in DOMAIN Tests |-> IF Tests[t].no_gcc THEN 0 ELSE Iterations(o, t)]
<1>1. ASSUME NEW t \in DOMAIN Tests
      PROVE  n[t] \in Nat /\ \A m \in 1 .. n[t] : <<t, m - 1>> \in Jobs
  <2>1. n[t] = 0 \/ n[t] = Iterations(o, t)
    BY Zenon
  <2> HIDE DEF n
  <2> QED BY <2>1, IterationsType, JobIs
<1>2. GccJobsOf(o) = Listing(o, n)
  BY Zenon DEF GccJobsOf
<1>3. j = <<j[1], j[2]>> /\ j[1] \in Range(o.tests) /\ j[1] \in DOMAIN Tests
      /\ j[2] \in 0 .. Iterations(o, j[1]) - 1
  BY JobSetIs
<1>4. j[2] \in 0 .. n[j[1]] - 1
  BY <1>3
<1> HIDE DEF n
<1>5. <<j[1], j[2]>> \in Range(Listing(o, n))
  BY <1>1, <1>3, <1>4, TestsListed, ListingHas
<1> QED BY <1>2, <1>3, <1>5

LEMMA SimsHave ==
  ASSUME NEW o \in Options, NEW j \in JobSet(o), ~Tests[j[1]].no_iss, NEW iss \in Sims
  PROVE  <<iss, j>> \in Range(SimsOf(o))
<1> DEFINE n == [t \in DOMAIN Tests |-> IF Tests[t].no_iss THEN 0 ELSE Iterations(o, t)]
           jobs == Listing(o, n)
           part(s) == [m \in DOMAIN jobs |-> <<s, jobs[m]>>]
           parts == [k \in DOMAIN IssList |-> part(IssList[k])]
<1>1. ASSUME NEW t \in DOMAIN Tests
      PROVE  n[t] \in Nat /\ \A m \in 1 .. n[t] : <<t, m - 1>> \in Jobs
  <2>1. n[t] = 0 \/ n[t] = Iterations(o, t)
    BY Zenon
  <2> HIDE DEF n
  <2> QED BY <2>1, IterationsType, JobIs
<1>2. SimsOf(o) = FlattenSeq(parts)
  BY Zenon DEF SimsOf
<1>3. j = <<j[1], j[2]>> /\ j[1] \in Range(o.tests) /\ j[1] \in DOMAIN Tests
      /\ j[2] \in 0 .. Iterations(o, j[1]) - 1
  BY JobSetIs
<1>4. j[2] \in 0 .. n[j[1]] - 1
  BY <1>3
<1> HIDE DEF n
<1>5. <<j[1], j[2]>> \in Range(jobs)
  BY <1>1, <1>3, <1>4, TestsListed, ListingHas
<1>6. jobs \in Seq(Jobs)
  BY <1>1, ListingType, TestsListed
<1> HIDE DEF jobs
<1>7. DOMAIN jobs = 1 .. Len(jobs) /\ Len(jobs) \in Nat /\ \A m \in 1 .. Len(jobs) : jobs[m] \in Jobs
  BY <1>6, LenProperties, ElementOfSeq
<1>8. PICK m \in DOMAIN jobs : jobs[m] = j
  BY <1>3, <1>5 DEF Range
<1>9. DOMAIN IssList = 1 .. Len(IssList) /\ Len(IssList) \in Nat
      /\ \A k \in 1 .. Len(IssList) : IssList[k] \in Sims
  BY OptionsAssumption, LenProperties, Zenon DEF Sims, Range
<1>10. PICK k \in DOMAIN IssList : IssList[k] = iss
  BY DEF Sims, Range
<1>11. <<iss, j>> \in Range(part(iss))
  <2>1. part(iss)[m] = <<iss, j>> /\ m \in DOMAIN part(iss)
    BY <1>8
  <2> HIDE DEF part
  <2> QED BY <2>1 DEF Range
<1>12. ASSUME NEW s \in Sims PROVE part(s) \in Seq(Sims \X Jobs)
  <2>1. part(s) = [i \in 1 .. Len(jobs) |-> <<s, jobs[i]>>]
    BY <1>7
  <2>2. \A i \in 1 .. Len(jobs) : <<s, jobs[i]>> \in Sims \X Jobs
    BY <1>7
  <2> HIDE DEF part
  <2> QED BY <1>7, <2>1, <2>2, IsASeq
<1> HIDE DEF part
<1>13. parts = [i \in 1 .. Len(IssList) |-> part(IssList[i])] /\ parts[k] = part(iss)
  BY <1>9, <1>10
<1>14. parts \in Seq(Seq(Sims \X Jobs)) /\ k \in 1 .. Len(parts)
  <2>1. \A i \in 1 .. Len(IssList) : part(IssList[i]) \in Seq(Sims \X Jobs)
    BY <1>9, <1>12
  <2> HIDE DEF parts
  <2>2. parts \in Seq(Seq(Sims \X Jobs))
    BY <1>9, <1>13, <2>1, IsASeq
  <2>3. DOMAIN parts = 1 .. Len(parts) /\ DOMAIN parts = 1 .. Len(IssList)
    BY <2>2, <1>13, LenProperties
  <2> QED BY <2>2, <2>3, <1>9, <1>10
<1> HIDE DEF parts
<1> QED BY <1>2, <1>11, <1>13, <1>14, FlattenHas

\* The batches leave no iteration out.
LEMMA BatchesCover ==
  ASSUME opts \in Options, NEW j \in JobSet(opts), ~IsCsr(j[1])
  PROVE  \E e \in Range(BatchesOf(opts)) : j \in Batch(e)
<1> DEFINE t == j[1]
           i == j[2]
           b == BatchOf(j)
           n == [u \in DOMAIN Tests |-> batch_cnt(opts, u)]
<1>1. j = <<t, i>> /\ t \in Range(opts.tests) /\ t \in DOMAIN Tests
      /\ i \in 0 .. Iterations(opts, t) - 1 /\ j \in Jobs
  BY JobSetIs
<1>2. BatchSize \in Nat /\ Iterations(opts, t) \in Nat \ {0} /\ i \in Nat
  BY <1>1, OptionsAssumption, IterationsType
<1>3. /\ b \in 0 .. batch_cnt(opts, t) - 1
      /\ i - start_idx(b) \in 0 .. test_cnt(opts, t, b) - 1
  <2>1. CASE BatchSize = 0
    <3>1. b = 0 /\ batch_cnt(opts, t) = 1 /\ start_idx(b) = 0
      BY <2>1 DEF BatchOf, batch_cnt, start_idx
    <3>2. test_cnt(opts, t, b) = Iterations(opts, t)
      BY <1>2, <2>1, <3>1 DEF test_cnt
    <3> QED BY <1>1, <1>2, <3>1, <3>2
  <2>2. CASE BatchSize # 0
    <3> DEFINE s == BatchSize
               I == Iterations(opts, t)
               q == batch_cnt(opts, t)
    <3>1. b = i \div s /\ q = (I + s - 1) \div s /\ start_idx(b) = b * s
      BY <2>2 DEF BatchOf, batch_cnt, start_idx
    <3>2. test_cnt(opts, t, b) = IF b < q - 1 THEN s ELSE I - b * s
      BY DEF test_cnt
    <3>3. s \in Nat \ {0} /\ I \in Nat \ {0} /\ i \in Nat /\ i < I /\ I + s - 1 \in Nat
      BY <1>1, <1>2, <2>2
    <3> HIDE DEF s, I, q, b, i
    <3>4. b \in Nat /\ i - b * s \in 0 .. s - 1
      BY <3>1, <3>3
    <3>5. q \in Nat /\ (I + s - 1) - q * s \in 0 .. s - 1
      BY <3>1, <3>3
    <3>6. b * s \in Nat /\ q * s \in Nat
      BY <3>3, <3>4, <3>5
    <3>7. b * s < q * s
      BY <3>3, <3>4, <3>5, <3>6
    <3>8. b < q
      <4> SUFFICES ASSUME ~(b < q) PROVE FALSE
        OBVIOUS
      <4>1. PICK d \in Nat : b = q + d
        <5>1. b - q \in Nat /\ b = q + (b - q)
          BY <3>4, <3>5
        <5> QED BY <5>1
      <4>2. (q + d) * s = q * s + d * s
        BY <3>3, <3>5, <4>1
      <4>3. b * s = q * s + d * s
        BY <4>1, <4>2
      <4>4. d * s \in Nat
        BY <3>3
      <4> QED BY <3>6, <3>7, <4>3, <4>4
    <3>9. b \in 0 .. q - 1
      BY <3>4, <3>5, <3>8
    <3>10. i - b * s \in 0 .. test_cnt(opts, t, b) - 1
      BY <3>2, <3>3, <3>4, <3>6
    <3> QED BY <3>1, <3>9, <3>10 DEF q
  <2> QED BY <2>1, <2>2
<1> HIDE DEF b
<1>4. <<t, b>> \in Range(BatchesOf(opts))
  <2>1. ASSUME NEW u \in Range(opts.tests)
        PROVE  n[u] \in Nat /\ \A m \in 1 .. n[u] : <<u, m - 1>> \in Range(opts.tests) \X Int
    <3>1. n[u] \in Nat
      BY batch_cntType, TestsListed
    <3> HIDE DEF n
    <3> QED BY <3>1
  <2>2. b \in 0 .. n[t] - 1
    BY <1>1, <1>3
  <2>3. BatchesOf(opts) = Listing(opts, n)
    BY DEF BatchesOf
  <2> HIDE DEF n, t
  <2> QED BY <1>1, <2>1, <2>2, <2>3, ListingHas
<1>5. j \in Batch(<<t, b>>)
  BY <1>1, <1>3 DEF Batch
<1> QED BY <1>4, <1>5

\* Taking a command from a list leaves the others.
LEMMA TailRange ==
  ASSUME NEW S, NEW s \in Seq(S), s # <<>>
  PROVE  Range(s) \subseteq Range(Tail(s)) \cup {Head(s)}
<1>1. Tail(s) \in Seq(S) /\ Len(Tail(s)) = Len(s) - 1 /\ Head(s) = s[1]
      /\ \A i \in 1 .. Len(Tail(s)) : Tail(s)[i] = s[i + 1]
  BY HeadTailProperties
<1>2. Len(s) \in Nat /\ DOMAIN s = 1 .. Len(s) /\ DOMAIN Tail(s) = 1 .. Len(Tail(s))
  BY <1>1, LenProperties
<1>3. ASSUME NEW i \in DOMAIN s, i # 1 PROVE s[i] \in Range(Tail(s))
  <2>1. i - 1 \in DOMAIN Tail(s) /\ (i - 1) + 1 = i
    BY <1>1, <1>2, <1>3
  <2>2. Tail(s)[i - 1] = s[i]
    BY <1>1, <1>2, <2>1
  <2> QED BY <2>1, <2>2 DEF Range
<1> QED BY <1>1, <1>3 DEF Range

LEMMA RemoveAtRange ==
  ASSUME NEW S, NEW s \in Seq(S), NEW n \in 1 .. Len(s)
  PROVE  Range(s) \subseteq Range(RemoveAt(s, n)) \cup {s[n]}
<1> DEFINE u == SubSeq(s, 1, n - 1)
           v == SubSeq(s, n + 1, Len(s))
<1>1. Len(s) \in Nat /\ DOMAIN s = 1 .. Len(s) /\ \A i \in 1 .. Len(s) : s[i] \in S
  BY LenProperties, ElementOfSeq
<1>2. /\ u \in Seq(S) /\ Len(u) = n - 1 /\ \A i \in 1 .. n - 1 : u[i] = s[i]
  <2>1. n - 1 \in Int /\ \A i \in 1 .. n - 1 : s[i] \in S
    BY <1>1
  <2>2. /\ u \in Seq(S) /\ Len(u) = (IF 1 <= n - 1 THEN (n - 1) - 1 + 1 ELSE 0)
        /\ \A i \in 1 .. (n - 1) - 1 + 1 : u[i] = s[1 + i - 1]
    BY <1>1, <2>1, SubSeqProperties
  <2> QED BY <1>1, <2>2
<1>3. /\ v \in Seq(S) /\ Len(v) = Len(s) - n /\ \A i \in 1 .. Len(s) - n : v[i] = s[n + i]
  <2>1. n + 1 \in Int /\ \A i \in n + 1 .. Len(s) : s[i] \in S
    BY <1>1
  <2>2. /\ v \in Seq(S) /\ Len(v) = (IF n + 1 <= Len(s) THEN Len(s) - (n + 1) + 1 ELSE 0)
        /\ \A i \in 1 .. Len(s) - (n + 1) + 1 : v[i] = s[(n + 1) + i - 1]
    BY <1>1, <2>1, SubSeqProperties
  <2> HIDE DEF v
  <2>3. Len(v) = Len(s) - n /\ Len(s) - (n + 1) + 1 = Len(s) - n
    <3>1. Len(s) \in Nat /\ n \in 1 .. Len(s)
      BY <1>1
    <3>2. n + 1 <= Len(s) \/ Len(s) = n
      BY <3>1
    <3>3. CASE n + 1 <= Len(s)
      BY <2>2, <3>1, <3>3
    <3>4. CASE Len(s) = n
      <4>1. ~(n + 1 <= Len(s)) /\ Len(s) - n = 0 /\ Len(s) - (n + 1) + 1 = 0
        BY <3>1, <3>4
      <4> QED BY <2>2, <4>1
    <3> QED BY <3>2, <3>3, <3>4
  <2>4. \A i \in 1 .. Len(s) - n : (n + 1) + i - 1 = n + i
    BY <1>1
  <2> QED BY <2>2, <2>3, <2>4
<1>4. RemoveAt(s, n) = u \o v
  BY DEF RemoveAt
<1> HIDE DEF u, v
<1>5. Range(u) \cup Range(v) \subseteq Range(RemoveAt(s, n))
  BY <1>2, <1>3, <1>4, ConcatRange
<1>6. DOMAIN u = 1 .. n - 1 /\ DOMAIN v = 1 .. Len(s) - n
  BY <1>2, <1>3, LenProperties
<1>7. ASSUME NEW i \in 1 .. Len(s), i # n PROVE s[i] \in Range(u) \cup Range(v)
  <2>1. CASE i < n
    <3>1. i \in DOMAIN u /\ u[i] = s[i]
      BY <1>1, <1>2, <1>6, <2>1
    <3> QED BY <3>1 DEF Range
  <2>2. CASE ~(i < n)
    <3>1. i - n \in DOMAIN v /\ n + (i - n) = i
      BY <1>1, <1>6, <1>7, <2>2
    <3>2. v[i - n] = s[i]
      BY <1>3, <1>6, <3>1
    <3> QED BY <3>1, <3>2 DEF Range
  <2> QED BY <2>1, <2>2
<1> QED BY <1>1, <1>5, <1>7 DEF Range

PastSave == {"gcc", "sim", "clear", "cmp", "summary", "end"}
PastGcc == {"sim", "clear", "cmp", "summary", "end"}
PastSim == {"clear", "cmp", "summary", "end"}

LEMMA Passed ==
  ASSUME Proceed, phase \in {"start"} \cup Steps
  PROVE  /\ phase' \in PastSave /\ "gen" \in opts.steps => phase = "save" \/ phase \in PastSave
         /\ phase' \in PastGcc /\ "gcc" \in opts.steps => phase = "gcc" \/ phase \in PastGcc
         /\ phase' \in PastSim /\ "sim" \in opts.steps => phase = "sim" \/ phase \in PastSim
<1>1. PICK n \in 1 .. 11 :
           /\ phase' = Order[n] /\ todo' = CommandsOf(Order[n])
           /\ Place(phase) < n /\ Asked(Order[n])
           /\ \A m \in 1 .. 11 : Place(phase) < m /\ m < n => ~Asked(Order[m])
  BY ProceedTo
<1>2. n = 1 \/ n = 2 \/ n = 3 \/ n = 4 \/ n = 5 \/ n = 6 \/ n = 7
      \/ n = 8 \/ n = 9 \/ n = 10 \/ n = 11
  OBVIOUS
<1>3. /\ phase' \in PastSave => n >= 6
      /\ phase' \in PastGcc => n >= 7
      /\ phase' \in PastSim => n >= 8
  BY <1>1, <1>2, OrderIs DEF PastSave, PastGcc, PastSim
<1>4. /\ Place(phase) >= 5 => phase = "save" \/ phase \in PastSave
      /\ Place(phase) >= 6 => phase = "gcc" \/ phase \in PastGcc
      /\ Place(phase) >= 7 => phase = "sim" \/ phase \in PastSim
  BY PlaceIs DEF Steps, GenSteps, CmpSteps, PastSave, PastGcc, PastSim
<1>5. Place(phase) \in 0 .. 10
  BY PlaceIs DEF Steps, GenSteps, CmpSteps
<1>6. /\ "gen" \in opts.steps => Asked(Order[5])
      /\ "gcc" \in opts.steps => Asked(Order[6])
      /\ "sim" \in opts.steps => Asked(Order[7])
  BY AskedIs, OrderIs DEF GenSteps
<1>7. /\ n >= 6 /\ "gen" \in opts.steps => Place(phase) >= 5
      /\ n >= 7 /\ "gcc" \in opts.steps => Place(phase) >= 6
      /\ n >= 8 /\ "sim" \in opts.steps => Place(phase) >= 7
  BY <1>1, <1>5, <1>6
<1> QED BY <1>3, <1>4, <1>7

\* The jobs whose programs the seeds of this invocation promise.
Mine == PromisedJobs \cap JobSet(opts)

GenDone ==
  /\ phase = "gen" =>
       \A e \in Range(BatchesOf(opts)) : e \in Range(todo) \/ Batch(e) \cap PromisedJobs \subseteq sown
  /\ phase = "save" => Mine \subseteq sown
  /\ phase \in PastSave /\ "gen" \in opts.steps => Mine \subseteq sown \cap kept

GccDone ==
  /\ phase = "gcc" => Range(GccJobsOf(opts)) \subseteq Range(todo) \cup built
  /\ phase \in PastGcc /\ "gcc" \in opts.steps => Range(GccJobsOf(opts)) \subseteq built

SimDone ==
  /\ phase = "sim" => Range(SimsOf(opts)) \subseteq Range(todo) \cup ran
  /\ phase \in PastSim /\ "sim" \in opts.steps => Range(SimsOf(opts)) \subseteq ran

Done == GenDone /\ GccDone /\ SimDone

(* A clean run has made what its steps so far should, and nobody else writes. *)
WholeInv == clean /\ phase # "idle" => children = {} /\ Done

\* When the last command of a step has ended, the step is done.
LEMMA ProceedDone ==
  ASSUME PhaseInv, Done, Proceed, phase \in {"start"} \cup Steps,
         phase \in {"gen", "gcc", "sim"} => todo = <<>>,
         UNCHANGED <<opts, built, ran>>,
         \/ phase' = "gen"
         \/ phase # "save" /\ UNCHANGED <<sown, kept>>
         \/ phase = "save" /\ Mine \subseteq sown' \cap kept'
  PROVE  Done'
<1>1. /\ phase' \in Steps \cup {"end"} /\ todo' = CommandsOf(phase')
      /\ phase' = "save" => phase = "gen"
  BY Succession
<1>2. Mine' = Mine
  BY DEF Mine, PromisedJobs, Promised, Maker, Seeded
<1>3. Range(<<>>) = {}
  BY DEF Range
<1>4. GenDone'
  <2>1. phase' = "gen" => Range(todo') = Range(BatchesOf(opts'))
    BY <1>1, CommandsIs
  <2>2. phase' = "save" => Mine \subseteq sown'
    <3> SUFFICES ASSUME phase' = "save" PROVE Mine \subseteq sown'
      OBVIOUS
    <3>1. phase = "gen" /\ todo = <<>> /\ sown' = sown /\ opts \in Options
      BY <1>1 DEF PhaseInv
    <3>2. \A e \in Range(BatchesOf(opts)) : Batch(e) \cap PromisedJobs \subseteq sown
      BY <1>3, <3>1 DEF Done, GenDone
    <3>3. ASSUME NEW j \in Mine PROVE j \in sown
      <4>1. j \in PromisedJobs /\ j \in JobSet(opts) /\ ~IsCsr(j[1])
        BY DEF Mine, PromisedJobs, Promised
      <4>2. PICK e \in Range(BatchesOf(opts)) : j \in Batch(e)
        BY <3>1, <4>1, BatchesCover
      <4> QED BY <3>2, <4>1, <4>2
    <3> QED BY <3>1, <3>3
  <2>3. phase' \in PastSave /\ "gen" \in opts.steps => Mine \subseteq sown' \cap kept'
    <3> SUFFICES ASSUME phase' \in PastSave, "gen" \in opts.steps PROVE Mine \subseteq sown' \cap kept'
      OBVIOUS
    <3>1. phase = "save" \/ phase \in PastSave
      BY Passed
    <3>2. phase' # "gen"
      BY DEF PastSave
    <3>3. CASE phase = "save" /\ Mine \subseteq sown' \cap kept'
      BY <3>3
    <3>4. CASE UNCHANGED <<sown, kept>> /\ phase \in PastSave
      BY <3>4 DEF Done, GenDone
    <3> QED BY <3>1, <3>2, <3>3, <3>4
  <2> QED BY <1>2, <2>1, <2>2, <2>3 DEF GenDone
<1>5. GccDone'
  <2>1. phase' = "gcc" => Range(todo') = Range(GccJobsOf(opts'))
    BY <1>1, CommandsIs
  <2>2. phase' \in PastGcc /\ "gcc" \in opts.steps => Range(GccJobsOf(opts)) \subseteq built
    <3> SUFFICES ASSUME phase' \in PastGcc, "gcc" \in opts.steps
                 PROVE  Range(GccJobsOf(opts)) \subseteq built
      OBVIOUS
    <3>1. phase = "gcc" \/ phase \in PastGcc
      BY Passed
    <3> QED BY <1>3, <3>1 DEF Done, GccDone
  <2> QED BY <2>1, <2>2 DEF GccDone
<1>6. SimDone'
  <2>1. phase' = "sim" => Range(todo') = Range(SimsOf(opts'))
    BY <1>1, CommandsIs
  <2>2. phase' \in PastSim /\ "sim" \in opts.steps => Range(SimsOf(opts)) \subseteq ran
    <3> SUFFICES ASSUME phase' \in PastSim, "sim" \in opts.steps
                 PROVE  Range(SimsOf(opts)) \subseteq ran
      OBVIOUS
    <3>1. phase = "sim" \/ phase \in PastSim
      BY Passed
    <3> QED BY <1>3, <3>1 DEF Done, SimDone
  <2> QED BY <2>1, <2>2 DEF SimDone
<1> QED BY <1>4, <1>5, <1>6 DEF Done

\* Before the last command of a step has ended nothing is claimed of the next.
LEMMA StaysDone ==
  ASSUME Done, phase \in {"directed", "cmp"}, UNCHANGED <<opts, phase, sown, kept, built, ran>>
  PROVE  Done'
BY DEF Done, GenDone, GccDone, SimDone, Mine, PromisedJobs, Promised, Maker, Seeded,
       PastSave, PastGcc, PastSim

\* A command that ends well wrote the programs the seeds promise.
LEMMA GenerateDone ==
  ASSUME PhaseInv, Done, phase = "gen", NEW n \in DOMAIN todo,
         Generated(Making(todo[n]), DOMAIN Making(todo[n]), sim_seed, PromisedJobs),
         todo' = RemoveAt(todo, n), UNCHANGED <<opts, phase>>
  PROVE  Done'
<1> DEFINE e == todo[n]
<1>1. e \in Range(BatchesOf(opts)) /\ opts \in Options
  BY CommandLeft
<1>2. todo \in Seq(Range(BatchesOf(opts))) /\ n \in 1 .. Len(todo)
  BY LenProperties DEF PhaseInv
<1>3. Range(todo) \subseteq Range(todo') \cup {e}
  BY <1>2, RemoveAtRange
<1>4. sown' = (sown \ DOMAIN Making(e)) \cup (PromisedJobs \cap DOMAIN Making(e))
  BY Zenon DEF Generated
<1> HIDE DEF e
<1>5. Batch(e) \cap PromisedJobs \subseteq DOMAIN Making(e)
  <2> SUFFICES ASSUME NEW j \in Batch(e), j \in PromisedJobs PROVE j \in DOMAIN Making(e)
    OBVIOUS
  <2>1. j \in Jobs /\ Promised(j)
    BY DEF PromisedJobs
  <2>2. Maker(j[1]) # None
    BY <1>1, <2>1, ProgramRecorded
  <2> QED BY <2>2 DEF Making
<1>6. (sown \cap PromisedJobs) \cup (Batch(e) \cap PromisedJobs) \subseteq sown'
  BY <1>4, <1>5
<1>7. \A d \in Range(BatchesOf(opts)) : d \in Range(todo') \/ Batch(d) \cap PromisedJobs \subseteq sown'
  <2> SUFFICES ASSUME NEW d \in Range(BatchesOf(opts)), d \notin Range(todo')
               PROVE  Batch(d) \cap PromisedJobs \subseteq sown'
    OBVIOUS
  <2>1. d = e \/ Batch(d) \cap PromisedJobs \subseteq sown
    BY <1>3 DEF Done, GenDone
  <2> QED BY <1>6, <2>1
<1>8. PromisedJobs' = PromisedJobs /\ \A d : Batch(d)' = Batch(d)
  BY DEF PromisedJobs, Promised, Maker, Seeded, Batch
<1>9. GenDone'
  BY <1>7, <1>8 DEF GenDone, PastSave
<1> QED BY <1>9 DEF Done, GccDone, SimDone, PastGcc, PastSim

\* Saving the seeds keeps the promise in the seed file.
LEMMA SaveDone ==
  ASSUME PhaseInv, Done, SaveSeeds
  PROVE  Done'
<1>1. /\ phase = "save" /\ Proceed /\ UNCHANGED <<opts, sown, built, ran>>
      /\ (Seeded # {} /\ kept' = sown) \/ (Seeded = {} /\ kept' = kept)
  BY Zenon DEF SaveSeeds
<1>2. phase \in {"start"} \cup Steps /\ opts \in Options
  BY <1>1 DEF Steps, GenSteps, PhaseInv
<1>3. Mine \subseteq sown
  BY <1>1 DEF Done, GenDone
<1>4. Seeded = {} => Mine = {}
  <2> SUFFICES ASSUME NEW j \in Mine PROVE Seeded # {}
    OBVIOUS
  <2>1. j \in PromisedJobs /\ j \in JobSet(opts) /\ Promised(j) /\ j \in Jobs
    BY DEF Mine, PromisedJobs
  <2>2. PICK e \in Range(BatchesOf(opts)) : j \in Batch(e)
    BY <1>2, <2>1, BatchesCover DEF Promised
  <2> QED BY <1>2, <2>1, <2>2, ProgramRecorded
<1>5. Mine \subseteq sown' \cap kept'
  BY <1>1, <1>3, <1>4
<1> QED BY <1>1, <1>2, <1>5, ProceedDone

\* A compilation that ends well leaves a new binary, a simulation a new log.
LEMMA CompileDone ==
  ASSUME PhaseInv, Done, GccCompile, phase' # "idle", clean'
  PROVE  Done'
<1> DEFINE j == Head(todo)
<1>1. /\ phase = "gcc" /\ todo # <<>> /\ opts' = opts /\ phase' = phase
      /\ todo' = Tail(todo) /\ built' = built \cup {j} /\ UNCHANGED <<sown, kept>>
  BY Zenon DEF GccCompile, Stop
<1>2. todo \in Seq(Jobs)
  BY <1>1 DEF PhaseInv
<1>3. Range(todo) \subseteq Range(todo') \cup {j}
  BY <1>1, <1>2, TailRange
<1>4. Range(GccJobsOf(opts)) \subseteq Range(todo) \cup built
  BY <1>1 DEF Done, GccDone
<1>5. Mine' = Mine
  BY <1>1 DEF Mine, PromisedJobs, Promised, Maker, Seeded
<1>6. GenDone'
  BY <1>1, <1>5 DEF Done, GenDone
<1>7. GccDone'
  BY <1>1, <1>3, <1>4 DEF GccDone, PastGcc
<1> QED BY <1>1, <1>6, <1>7 DEF Done, SimDone, PastSim

LEMMA SimulateDone ==
  ASSUME PhaseInv, Done, IssSim, phase' # "idle", clean'
  PROVE  Done'
<1> DEFINE x == Head(todo)
<1>1. /\ phase = "sim" /\ todo # <<>> /\ opts' = opts /\ phase' = phase
      /\ todo' = Tail(todo) /\ ran' = ran \cup {x} /\ UNCHANGED <<sown, kept, built>>
  BY Zenon DEF IssSim, Stop, Fault, Logged
<1>2. todo \in Seq(Sims \X Jobs)
  BY <1>1 DEF PhaseInv
<1>3. Range(todo) \subseteq Range(todo') \cup {x}
  BY <1>1, <1>2, TailRange
<1>4. Range(SimsOf(opts)) \subseteq Range(todo) \cup ran
  BY <1>1 DEF Done, SimDone
<1>5. Mine' = Mine
  BY <1>1 DEF Mine, PromisedJobs, Promised, Maker, Seeded
<1>6. GenDone' /\ GccDone'
  BY <1>1, <1>5 DEF Done, GenDone, GccDone
<1>7. SimDone'
  BY <1>1, <1>3, <1>4 DEF SimDone, PastSim
<1> QED BY <1>6, <1>7 DEF Done

\* Every action keeps a clean run whole; whatever fails ends it.
LEMMA WholeStep ==
  ASSUME PhaseInv, WholeInv, [Next]_vars
  PROVE  WholeInv'
<1> SUFFICES ASSUME clean', phase' # "idle" PROVE children' = {} /\ Done'
  BY DEF WholeInv
<1>1. CASE Invoke
  <2>1. phase' = "start" /\ children' = {}
    BY <1>1 DEF Invoke
  <2> QED BY <2>1 DEF Done, GenDone, GccDone, SimDone, PastSave, PastGcc, PastSim
<1>2. ASSUME ~Invoke, clean, phase # "idle", UNCHANGED children PROVE children' = {} /\ Done
  BY <1>2 DEF WholeInv
<1>3. CASE NextStep
  <2>1. /\ Proceed /\ phase \in {"start"} \cup Steps /\ todo = <<>>
        /\ UNCHANGED <<opts, sown, kept, built, ran, clean, children>>
        /\ phase \notin {"idle", "save"}
    BY <1>3 DEF NextStep, hist, tally, Steps, GenSteps, CmpSteps
  <2> QED BY <1>2, <2>1, ProceedDone DEF WholeInv
<1>4. CASE RunDirected
  <2>1. phase = "directed" /\ UNCHANGED <<opts, sown, kept, built, ran, children>>
    BY <1>4 DEF RunDirected, hist
  <2>2. UNCHANGED <<phase, clean>>
    BY <1>4, Zenon DEF RunDirected, Fault, Stop, tally
  <2> QED BY <2>1, <2>2, StaysDone DEF WholeInv
<1>5. CASE Compile
  <2>1. /\ phase = "compile" /\ UNCHANGED <<opts, sown, kept, built, ran, children>>
    BY <1>5 DEF Compile, hist
  <2>2. Proceed /\ UNCHANGED clean
    BY <1>5 DEF Compile, Stop, tally
  <2>3. phase \in {"start"} \cup Steps
    BY <2>1 DEF Steps, GenSteps
  <2> QED BY <2>1, <2>2, <2>3, ProceedDone DEF WholeInv
<1>6. CASE DrawSeeds
  <2>1. /\ phase = "seeds" /\ UNCHANGED <<opts, built, ran, clean, children>>
    BY <1>6 DEF DrawSeeds, tally
  <2>2. Proceed
    BY <1>6, Zenon DEF DrawSeeds, Stop
  <2>3. phase \in {"start"} \cup Steps /\ "gen" \in opts.steps
    BY <2>1 DEF Steps, GenSteps, PhaseInv
  <2>4. phase' = "gen"
    BY <2>1, <2>2, <2>3, Succession
  <2> QED BY <2>1, <2>2, <2>3, <2>4, ProceedDone DEF WholeInv
<1>7. CASE GenerateBatch
  <2>1. phase = "gen" /\ UNCHANGED <<opts, children>>
    BY <1>7 DEF GenerateBatch
  <2>2. PICK n \in DOMAIN todo :
          /\ Generated(Making(todo[n]), DOMAIN Making(todo[n]), sim_seed, PromisedJobs)
          /\ todo' = RemoveAt(todo, n) /\ UNCHANGED <<phase, clean>>
    BY <1>7, Zenon DEF GenerateBatch, Fault, tally
  <2> QED BY <2>1, <2>2, GenerateDone DEF WholeInv
<1>8. CASE SaveSeeds
  <2>1. phase = "save" /\ UNCHANGED <<children, clean>>
    BY <1>8 DEF SaveSeeds, tally
  <2> QED BY <1>8, <2>1, SaveDone DEF WholeInv
<1>9. CASE GccCompile
  <2>1. phase = "gcc" /\ UNCHANGED children
    BY <1>9 DEF GccCompile
  <2>2. UNCHANGED clean
    BY <1>9, Zenon DEF GccCompile, Stop, Fault, tally
  <2> QED BY <1>9, <2>1, <2>2, CompileDone DEF WholeInv
<1>10. CASE IssSim
  <2>1. phase = "sim" /\ UNCHANGED children
    BY <1>10 DEF IssSim
  <2>2. UNCHANGED clean
    BY <1>10, Zenon DEF IssSim, Stop, Fault, tally
  <2> QED BY <1>10, <2>1, <2>2, SimulateDone DEF WholeInv
<1>11. CASE ClearReport \/ Summarise
  <2>1. /\ phase \in {"clear", "summary"} /\ Proceed
        /\ UNCHANGED <<opts, sown, kept, built, ran, clean, children>>
    BY <1>11 DEF ClearReport, Summarise, hist, tally
  <2>2. phase \in {"start"} \cup Steps
    BY <2>1 DEF Steps, CmpSteps
  <2> QED BY <2>1, <2>2, ProceedDone DEF WholeInv
<1>12. CASE IssCmp
  <2>1. phase = "cmp" /\ UNCHANGED <<opts, sown, kept, built, ran, clean, children>>
    BY <1>12 DEF IssCmp, hist, tally
  <2>2. UNCHANGED phase
    BY <1>12, Zenon DEF IssCmp, Stop
  <2> QED BY <2>1, <2>2, StaysDone DEF WholeInv
<1>13. CASE Finish \/ Interrupt
  <2>1. phase' = "idle"
    BY <1>13 DEF Finish, Interrupt, Stop
  <2> QED BY <2>1
<1>14. CASE ChildGenerates \/ ChildSimulates \/ ChildEnds
  <2>1. UNCHANGED <<phase, clean>> /\ children # {}
    BY <1>14 DEF ChildGenerates, ChildSimulates, ChildEnds, tally
  <2> QED BY <2>1 DEF WholeInv
<1>15. CASE UNCHANGED vars
  <2>1. UNCHANGED <<opts, phase, todo, sown, kept, built, ran, clean, children>>
    BY <1>15 DEF vars, hist, tally
  <2>2. Mine' = Mine /\ PromisedJobs' = PromisedJobs /\ \A e : Batch(e)' = Batch(e)
    BY <2>1 DEF Mine, PromisedJobs, Promised, Maker, Seeded, Batch
  <2>3. (GenDone => GenDone') /\ (GccDone => GccDone') /\ (SimDone => SimDone')
    BY <2>1, <2>2 DEF GenDone, GccDone, SimDone
  <2> QED BY <2>1, <2>3 DEF WholeInv, Done
<1> QED BY <1>1, <1>3, <1>4, <1>5, <1>6, <1>7, <1>8, <1>9, <1>10, <1>11, <1>12, <1>13, <1>14,
           <1>15 DEF Next

LEMMA InitWhole == Init => WholeInv
BY DEF Init, WholeInv

\* The job compared is one of the invocation's.
LEMMA JudgedListed ==
  ASSUME PhaseInv, ReportInv, NEW j, Judged(j)
  PROVE  j \in JobSet(opts) /\ opts \in Options /\ Comparing /\ phase = "cmp"
<1>1. phase = "cmp" /\ todo # <<>> /\ j = Head(todo)
  BY DEF Judged
<1>2. /\ opts \in Options /\ Comparing /\ todo \in Seq(Jobs)
      /\ report \in Seq(AllJudgements) /\ Len(report) + Len(todo) = Len(JobsOf(opts))
      /\ \A k \in 1 .. Len(todo) : todo[k] = JobsOf(opts)[Len(report) + k]
  BY <1>1 DEF PhaseInv, ReportInv, JudgedInOrder, CmpSteps
<1>3. Len(todo) \in Nat \ {0} /\ Len(report) \in Nat /\ j = todo[1]
  BY <1>1, <1>2, EmptySeq, LenProperties, HeadTailProperties
<1>4. j = JobsOf(opts)[Len(report) + 1] /\ Len(report) + 1 \in 1 .. Len(JobsOf(opts))
  BY <1>2, <1>3
<1>5. JobsOf(opts) \in Seq(JobSet(opts))
  BY <1>2, JobsOfSet
<1>6. j \in JobSet(opts)
  BY <1>4, <1>5, ElementOfSeq
<1> QED BY <1>1, <1>2, <1>6

LEMMA JudgedReproducible ==
  ASSUME PhaseInv, ReportInv, FilesInv, WholeInv, NEW j \in Jobs, Judged(j),
         Whole(j) \/ \A s \in Sims : <<s, j>> \in ran, NEW n \in 1 .. 2
  PROVE  LET p == LogsOf(j)[n].prog
         IN  /\ p = elf[j]
             /\ Whole(j) \/ j \in built => p = asm[j]
             /\ Whole(j) \/ j \in built \cap sown => p = RecordedAs(sim_seed, j)
             /\ Whole(j) \/ j \in built \cap kept => p = RecordedAs(seed_yaml, j)
<1>1. j \in JobSet(opts) /\ opts \in Options /\ Comparing /\ phase = "cmp"
  BY JudgedListed
<1>2. Whole(j) => j \in built \cap sown \cap kept /\ \A s \in Sims : <<s, j>> \in ran
  <2> SUFFICES ASSUME Whole(j)
               PROVE  j \in built \cap sown \cap kept /\ \A s \in Sims : <<s, j>> \in ran
    OBVIOUS
  <2>1. /\ clean /\ "gen" \in opts.steps /\ "gcc" \in opts.steps /\ "sim" \in opts.steps
        /\ ~Tests[j[1]].no_gcc /\ ~Tests[j[1]].no_iss /\ Promised(j)
    BY DEF Whole
  <2>2. Done
    BY <1>1, <2>1 DEF WholeInv
  <2>3. j \in sown \cap kept
    BY <1>1, <2>1, <2>2 DEF Done, GenDone, PastSave, Mine, PromisedJobs
  <2>4. j \in built
    BY <1>1, <2>1, <2>2, GccJobsHave DEF Done, GccDone, PastGcc
  <2>5. \A s \in Sims : <<s, j>> \in ran
    BY <1>1, <2>1, <2>2, SimsHave DEF Done, SimDone, PastSim
  <2> QED BY <2>3, <2>4, <2>5
<1>3. \A s \in Sims : log[<<s, j>>].prog = elf[j]
  <2> SUFFICES ASSUME NEW s \in Sims PROVE log[<<s, j>>].prog = elf[j]
    OBVIOUS
  <2>1. <<s, j>> \in ran
    BY <1>2
  <2> QED BY <2>1 DEF FilesInv
<1>4. IssList[1] \in Sims /\ IssList[2] \in Sims
  BY <1>1, OptionsAssumption, LenProperties DEF Comparing, Sims, Range
<1>5. LogsOf(j)[n].prog = elf[j]
  <2>1. n = 1 \/ n = 2
    OBVIOUS
  <2> QED BY <1>3, <1>4, <2>1 DEF LogsOf
<1>6. /\ j \in built => elf[j] = asm[j]
      /\ j \in sown => asm[j] = RecordedAs(sim_seed, j)
      /\ j \in kept => asm[j] = RecordedAs(seed_yaml, j)
  BY DEF FilesInv
<1> QED BY <1>2, <1>5, <1>6

(* A verdict of a clean run that did every step of the job is about the       *)
(* program the seed file makes again, whatever interrupted and failed runs    *)
(* and the commands they left running wrote before; and any other verdict is  *)
(* about the newest binary, program and seeds that the steps before it used,  *)
(* for every testlist and every sequence of invocations.                      *)
THEOREM VerdictsReproduce == Spec => VerdictsReproducible
<1> DEFINE Inv == PhaseInv /\ ReportInv /\ FilesInv /\ ChildrenInv /\ WholeInv
<1>1. Init => Inv
  BY InitReport, InitFiles, InitWhole
<1>2. Inv /\ [Next]_vars => Inv'
  BY PhaseStep, ReportStep, FilesStep, WholeStep
<1>3. Inv => [\A j \in Jobs :
       Judged(j) /\ (Whole(j) \/ \A s \in Sims : <<s, j>> \in ran) =>
         \A n \in 1..2 :
           LET p == LogsOf(j)[n].prog
           IN  /\ p = elf[j]
               /\ Whole(j) \/ j \in built => p = asm[j]
               /\ Whole(j) \/ j \in built \cap sown => p = RecordedAs(sim_seed, j)
               /\ Whole(j) \/ j \in built \cap kept => p = RecordedAs(seed_yaml, j)]_vars
  BY JudgedReproducible
<1> HIDE DEF Inv
<1> QED BY <1>1, <1>2, <1>3, PTL DEF Spec, VerdictsReproducible

-----------------------------------------------------------------------------
(* The values in the files.                                                   *)

\* The seeds are drawn and the seed file is still to be written.
Saving == phase \in {"gen", "save"}

SeedsOf(y) == \A e \in DOMAIN y : y[e] \in Nat

\* What a program file or a log holds, if it is there.
FileOf(p, j) == p # None => IsProgram(p, j)

IsLog(l, x) == FileOf(l.prog, x[2]) /\ l.rows \in 0 .. Complete(x[1], l.prog)

Bounded == inv \in 0 .. MaxInvocations /\ faults \in 0 .. MaxFaults

SeedsTyped ==
  /\ Saving => DOMAIN sim_seed = Seeded /\ SeedsOf(sim_seed)
  /\ seed_yaml # None => SeedsOf(seed_yaml)

FilesTyped ==
  /\ \A j \in Jobs : FileOf(asm[j], j) /\ FileOf(elf[j], j)
  /\ \A x \in Sims \X Jobs : log[x] # None => IsLog(log[x], x)

\* What a command left running is going to write.
Writes(c) ==
  \/ c.step = "gen" /\ \A j \in DOMAIN c.made : IsProgram(c.made[j], j)
  \/ /\ c.step = "sim" /\ c.at \in Sims \X Jobs /\ IsLog(log[c.at], c.at)
     /\ IsProgram(c.prog, c.at[2]) /\ c.rows \in 0 .. Complete(c.at[1], c.prog)

ChildrenTyped == \A c \in children : Writes(c)

(* Bounds of the counters, seeds that are numbers, programs of their own jobs *)
(* and logs no longer than the executions.                                    *)
ValuesInv == Bounded /\ SeedsTyped /\ FilesTyped /\ ChildrenTyped

\* A program ends, with an ecall, and its execution is a trace.
Ends ==
  \A iss \in Sims, p \in Programs :
    LET e == Execution(iss, p)
    IN  e \in Seq(Rows) /\ e # <<>> /\ e[Len(e)] = <<>>

LEMMA CompleteType ==
  ASSUME Ends, NEW iss \in Sims, NEW p, p = None \/ p \in Programs
  PROVE  Complete(iss, p) \in Nat
<1>1. CASE p = None
  BY <1>1, EmptySeq DEF Complete, Executed
<1>2. CASE p # None
  <2>1. Executed(iss, p) = Execution(iss, p)
    BY <1>2 DEF Executed
  <2>2. Execution(iss, p) \in Seq(Rows)
    BY <1>2 DEF Ends
  <2> QED BY <2>1, <2>2, LenProperties DEF Complete
<1> QED BY <1>1, <1>2

LEMMA BatchIs ==
  ASSUME opts \in Options, NEW e \in BatchSet(opts)
  PROVE  /\ e = <<e[1], e[2]>> /\ e[1] \in Range(opts.tests) /\ e[1] \in DOMAIN Tests
         /\ e[2] \in Nat
<1>1. PICK t \in Range(opts.tests) : \E b \in 0 .. batch_cnt(opts, t) - 1 : e = <<t, b>>
  BY Zenon DEF BatchSet
<1>2. PICK b \in 0 .. batch_cnt(opts, t) - 1 : e = <<t, b>>
  BY <1>1
<1>3. batch_cnt(opts, t) \in Nat /\ t \in DOMAIN Tests
  BY batch_cntType, TestsListed
<1> QED BY <1>2, <1>3

\* The seeds are numbers.
LEMMA DrawnType ==
  ASSUME opts \in Options, inv \in Nat, NEW t \in Range(opts.tests), NEW b \in Nat, NEW k \in Nat
  PROVE  Drawn(t, b, k) \in Nat
<1> DEFINE c == CHOOSE n \in DOMAIN opts.tests : opts.tests[n] = t
<1>1. opts.tests \in Seq(DOMAIN Tests)
  BY OptionsAssumption
<1>2. DOMAIN opts.tests = 1 .. Len(opts.tests)
  BY <1>1, LenProperties
<1>3. c \in DOMAIN opts.tests
  BY DEF Range
<1>4. c \in Nat
  BY <1>2, <1>3
<1>5. Drawn(t, b, k) = 1000 * inv + 100 * c + 10 * b + k
  BY DEF Drawn
<1> HIDE DEF c
<1> QED BY <1>4, <1>5

LEMMA SeedForType ==
  ASSUME opts \in Options, inv \in Nat, NEW t \in Range(opts.tests), NEW b \in Nat,
         opts.seeds = "yaml" => SeedsOf(seed_yaml)
  PROVE  SeedFor(t, b) \in Nat
<1>1. CASE opts.seeds = "yaml" /\ <<t, b>> \in DOMAIN seed_yaml
  BY <1>1 DEF SeedFor, SeedsOf
<1>2. CASE ~(opts.seeds = "yaml" /\ <<t, b>> \in DOMAIN seed_yaml)
  <2>1. \/ SeedFor(t, b) = StartSeed
        \/ SeedFor(t, b) = StartSeed + b * batch_cnt(opts, t)
        \/ SeedFor(t, b) = Drawn(t, b, 0)
    BY <1>2, Zenon DEF SeedFor
  <2>2. StartSeed \in Nat /\ batch_cnt(opts, t) \in Nat
    BY OptionsAssumption, batch_cntType, TestsListed
  <2>3. StartSeed + b * batch_cnt(opts, t) \in Nat
    BY <2>2
  <2>4. Drawn(t, b, 0) \in Nat
    BY DrawnType
  <2> QED BY <2>1, <2>2, <2>3, <2>4
<1> QED BY <1>1, <1>2

LEMMA SeedsType ==
  ASSUME opts \in Options, inv \in Nat, opts.seeds = "yaml" => SeedsOf(seed_yaml)
  PROVE  DOMAIN Seeds = Seeded /\ SeedsOf(Seeds)
<1>1. ASSUME NEW e \in Seeded PROVE SeedFor(e[1], e[2]) \in Nat
  <2>1. e \in BatchSet(opts)
    BY BatchesTyped DEF Seeded
  <2>2. e[1] \in Range(opts.tests) /\ e[2] \in Nat
    BY <2>1, BatchIs
  <2> QED BY <2>2, SeedForType
<1> QED BY <1>1 DEF Seeds, SeedsOf

Scripts == {Tests[t].gen_test : t \in DOMAIN Tests}

\* A program is made by a script of the testlist.
LEMMA MakerType ==
  ASSUME opts \in Options, NEW t \in Range(opts.tests)
  PROVE  Maker(t) \in Scripts \cup {None}
<1> DEFINE others == {n \in DOMAIN opts.tests : ~IsCsr(opts.tests[n])}
           first == Min(others)
<1>1. t \in DOMAIN Tests
  BY TestsListed
<1>2. Maker(t) = None \/ Maker(t) = Tests[t].gen_test
      \/ (~IsCsr(t) /\ Maker(t) = Tests[opts.tests[first]].gen_test)
  BY Zenon DEF Maker
<1>3. ASSUME ~IsCsr(t)
      PROVE  opts.tests[first] \in DOMAIN Tests
  <2>1. opts.tests \in Seq(DOMAIN Tests)
    BY OptionsAssumption
  <2>2. DOMAIN opts.tests \subseteq Nat /\ \A n \in DOMAIN opts.tests : opts.tests[n] \in DOMAIN Tests
    BY <2>1, LenProperties, ElementOfSeq
  <2>3. others \subseteq Nat /\ others # {}
    BY <1>3, <2>2 DEF Range
  <2>4. first \in others
    <3> HIDE DEF others
    <3> QED BY <2>3, MinOf
  <2> QED BY <2>2, <2>4
<1> HIDE DEF first
<1>4. Tests[t].gen_test \in Scripts /\ (~IsCsr(t) => Tests[opts.tests[first]].gen_test \in Scripts)
  BY <1>1, <1>3 DEF Scripts
<1> QED BY <1>2, <1>4

LEMMA ProgramType ==
  ASSUME opts \in Options, inv \in Nat, NEW e \in BatchSet(opts), NEW k \in Nat,
         DOMAIN sim_seed = Seeded, SeedsOf(sim_seed), Maker(e[1]) # None
  PROVE  Program(e[1], e[2], k) \in Programs /\ Program(e[1], e[2], k).test = e[1]
<1>1. /\ e = <<e[1], e[2]>> /\ e[1] \in Range(opts.tests) /\ e[1] \in DOMAIN Tests
      /\ e[2] \in Nat
  BY BatchIs
<1> DEFINE seed == IF <<e[1], e[2]>> \in Seeded /\ (opts.simulator = "pyflow" => k = 0)
                   THEN sim_seed[<<e[1], e[2]>>] ELSE Drawn(e[1], e[2], k)
<1>2. seed \in Nat
  <2>1. Drawn(e[1], e[2], k) \in Nat
    BY <1>1, DrawnType
  <2>2. <<e[1], e[2]>> \in Seeded => sim_seed[<<e[1], e[2]>>] \in Nat
    BY DEF SeedsOf
  <2> QED BY <2>1, <2>2
<1>3. Program(e[1], e[2], k) = [test |-> e[1], gen |-> Maker(e[1]), index |-> k, seed |-> seed]
  BY Zenon DEF Program
<1> HIDE DEF seed
<1>4. Maker(e[1]) \in Scripts
  BY <1>1, MakerType
<1> QED BY <1>1, <1>2, <1>3, <1>4 DEF Programs, Scripts

LEMMA FaultType ==
  ASSUME faults \in 0 .. MaxFaults, Fault
  PROVE  faults' \in 0 .. MaxFaults
BY BoundsAssumption DEF Fault

\* Every command makes programs of its own jobs.
LEMMA MakingType ==
  ASSUME PhaseInv, ValuesInv, phase = "gen", NEW n \in DOMAIN todo, NEW j \in DOMAIN Making(todo[n])
  PROVE  j \in Jobs /\ IsProgram(Making(todo[n])[j], j)
<1> DEFINE e == todo[n]
<1>1. e \in BatchSet(opts) /\ opts \in Options
  BY CommandLeft, BatchesTyped
<1>2. inv \in Nat /\ DOMAIN sim_seed = Seeded /\ SeedsOf(sim_seed)
  BY BoundsAssumption DEF ValuesInv, Bounded, SeedsTyped, Saving
<1>3. j \in Batch(e) /\ Maker(j[1]) # None
      /\ Making(e)[j] = Program(e[1], e[2], j[2] - start_idx(e[2]))
  BY Zenon DEF Making
<1> HIDE DEF e
<1>4. j \in Jobs /\ j[1] = e[1] /\ j[2] - start_idx(e[2]) \in Nat
  BY <1>3 DEF Batch
<1>5. /\ Program(e[1], e[2], j[2] - start_idx(e[2])) \in Programs
      /\ Program(e[1], e[2], j[2] - start_idx(e[2])).test = e[1]
  BY <1>1, <1>2, <1>3, <1>4, ProgramType
<1> QED BY <1>3, <1>4, <1>5 DEF IsProgram, e

LEMMA BoundedStep ==
  ASSUME Bounded, [Next]_vars
  PROVE  Bounded'
<1>1. faults' = faults \/ Fault
  BY Zenon DEF Next, vars, tally, Invoke, NextStep, RunDirected, Compile, DrawSeeds, GenerateBatch,
               SaveSeeds, GccCompile, IssSim, ClearReport, IssCmp, Summarise, Finish, Interrupt,
               ChildGenerates, ChildSimulates, ChildEnds
<1>2. faults' \in 0 .. MaxFaults
  BY <1>1, FaultType DEF Bounded
<1>3. inv' = inv \/ (inv < MaxInvocations /\ inv' = inv + 1)
  BY Zenon DEF Next, vars, tally, Invoke, NextStep, RunDirected, Compile, DrawSeeds, GenerateBatch,
               SaveSeeds, GccCompile, IssSim, ClearReport, IssCmp, Summarise, Finish, Interrupt,
               ChildGenerates, ChildSimulates, ChildEnds
<1>4. inv' \in 0 .. MaxInvocations
  BY <1>3, BoundsAssumption DEF Bounded
<1> QED BY <1>2, <1>4 DEF Bounded

LEMMA KeepsSeeds ==
  ASSUME SeedsTyped, UNCHANGED seed_yaml, Saving' => Saving /\ UNCHANGED <<opts, sim_seed>>
  PROVE  SeedsTyped'
BY DEF SeedsTyped, Seeded

LEMMA SeedsStep ==
  ASSUME PhaseInv, ValuesInv, [Next]_vars
  PROVE  SeedsTyped'
<1>0. SeedsTyped /\ inv \in Nat /\ opts \in Options
  BY BoundsAssumption DEF ValuesInv, Bounded, PhaseInv
<1>1. CASE DrawSeeds
  <2>1. CASE opts.seeds = "yaml" /\ seed_yaml = None
    <3>1. Stop("failure") /\ UNCHANGED seed_yaml
      BY <1>1, <2>1, Zenon DEF DrawSeeds
    <3> QED BY <1>0, <3>1, KeepsSeeds DEF Stop, Saving
  <2>2. CASE ~(opts.seeds = "yaml" /\ seed_yaml = None)
    <3>1. /\ sim_seed' = Seeds /\ UNCHANGED opts
          /\ seed_yaml' = Seeds \/ seed_yaml' = seed_yaml
      BY <1>1, <2>2, Zenon DEF DrawSeeds
    <3>2. DOMAIN Seeds = Seeded /\ SeedsOf(Seeds)
      BY <1>0, <2>2, SeedsType DEF SeedsTyped
    <3>3. Seeded' = Seeded
      BY <3>1 DEF Seeded
    <3> QED BY <1>0, <3>1, <3>2, <3>3 DEF SeedsTyped
  <2> QED BY <2>1, <2>2
<1>2. CASE SaveSeeds
  <2>1. /\ phase = "save" /\ Proceed
        /\ seed_yaml' = sim_seed \/ seed_yaml' = seed_yaml
    BY <1>2, Zenon DEF SaveSeeds
  <2>2. phase \in {"start"} \cup Steps
    BY <2>1 DEF Steps, GenSteps
  <2>3. ~Saving'
    BY <2>1, <2>2, Succession DEF Saving
  <2>4. SeedsOf(sim_seed)
    BY <1>0, <2>1 DEF SeedsTyped, Saving
  <2> QED BY <1>0, <2>1, <2>3, <2>4 DEF SeedsTyped
<1>3. CASE Invoke
  BY <1>0, <1>3, KeepsSeeds DEF Invoke, files, Saving
<1>4. CASE NextStep
  <2>1. /\ phase \in {"start", "directed", "gen", "gcc", "sim", "cmp"} /\ Proceed
        /\ UNCHANGED <<opts, sim_seed, seed_yaml>>
    BY <1>4 DEF NextStep, files
  <2>2. phase \in {"start"} \cup Steps
    BY <2>1 DEF Steps, GenSteps, CmpSteps
  <2>3. Saving' => Saving
    BY <2>1, <2>2, Succession DEF Saving
  <2> QED BY <1>0, <2>1, <2>3, KeepsSeeds
<1>5. CASE Compile \/ ClearReport \/ Summarise
  <2>1. /\ phase \in {"compile", "clear", "summary"} /\ (Proceed \/ Stop("failure"))
        /\ UNCHANGED <<opts, sim_seed, seed_yaml>>
    BY <1>5 DEF Compile, ClearReport, Summarise, files
  <2>2. phase \in {"compile", "clear", "summary"} => phase \in {"start"} \cup Steps
    BY DEF Steps, GenSteps, CmpSteps
  <2>3. ~Saving'
    BY <2>1, <2>2, Succession DEF Saving, Stop
  <2> QED BY <1>0, <2>1, <2>3, KeepsSeeds
<1>6. CASE RunDirected \/ GenerateBatch \/ GccCompile \/ IssSim \/ IssCmp \/ Finish \/ Interrupt
  <2>1. UNCHANGED phase \/ phase' = "idle"
    BY <1>6, Zenon DEF RunDirected, GenerateBatch, GccCompile, IssSim, IssCmp, Finish, Interrupt, Stop
  <2>2. UNCHANGED <<opts, sim_seed, seed_yaml>>
    BY <1>6 DEF RunDirected, GenerateBatch, GccCompile, IssSim, IssCmp, Finish, Interrupt, files
  <2>3. Saving' => Saving
    BY <2>1 DEF Saving
  <2> QED BY <1>0, <2>2, <2>3, KeepsSeeds
<1>7. CASE ChildGenerates \/ ChildSimulates \/ ChildEnds \/ UNCHANGED vars
  <2>1. UNCHANGED <<opts, phase, sim_seed, seed_yaml>>
    BY <1>7 DEF ChildGenerates, ChildSimulates, ChildEnds, vars, files
  <2> QED BY <1>0, <2>1, KeepsSeeds DEF Saving
<1> QED BY <1>1, <1>2, <1>3, <1>4, <1>5, <1>6, <1>7 DEF Next

\* A log that is there stays one.
LogsStay == \A x \in Sims \X Jobs : IsLog(log[x], x) => IsLog(log[x], x)'

LEMMA KeepsTyped ==
  ASSUME FilesTyped, UNCHANGED <<asm, elf, log>>
  PROVE  FilesTyped' /\ LogsStay
BY DEF FilesTyped, LogsStay, FileOf, IsProgram, IsLog, Complete, Executed

LEMMA GeneratedTyped ==
  ASSUME FilesTyped, NEW made, NEW jobs, NEW seeds, NEW promised,
         \A j \in jobs : IsProgram(made[j], j),
         Generated(made, jobs, seeds, promised), UNCHANGED <<elf, log>>
  PROVE  FilesTyped' /\ LogsStay
<1>1. asm' = [j \in Jobs |-> IF j \in jobs THEN made[j] ELSE asm[j]]
  BY DEF Generated
<1>2. \A j \in Jobs : FileOf(asm'[j], j)
  BY <1>1 DEF FilesTyped, FileOf
<1> QED BY <1>2 DEF FilesTyped, LogsStay, FileOf, IsProgram, IsLog, Complete, Executed

LEMMA BinaryTyped ==
  ASSUME FilesInv, FilesTyped, NEW j \in Jobs, NEW prog \in {elf[j], asm[j], None},
         Binary(j, prog), UNCHANGED <<asm, log>>
  PROVE  FilesTyped' /\ LogsStay
<1>1. elf' = [elf EXCEPT ![j] = prog] /\ DOMAIN elf = Jobs
  BY DEF Binary, FilesInv
<1>2. FileOf(prog, j)
  BY DEF FilesTyped, FileOf
<1>3. \A i \in Jobs : FileOf(elf'[i], i)
  BY <1>1, <1>2 DEF FilesTyped
<1> QED BY <1>3 DEF FilesTyped, LogsStay, FileOf, IsProgram, IsLog, Complete, Executed

\* One log is written.
LEMMA LogTyped ==
  ASSUME FilesInv, FilesTyped, NEW x \in Sims \X Jobs, NEW l, log' = [log EXCEPT ![x] = l],
         IsLog(l, x), UNCHANGED <<asm, elf>>
  PROVE  FilesTyped' /\ LogsStay
<1>1. DOMAIN log = Sims \X Jobs
  BY DEF FilesInv
<1>2. /\ \A y \in Sims \X Jobs : log'[y] # None => IsLog(log'[y], y)
      /\ \A y \in Sims \X Jobs : IsLog(log[y], y) => IsLog(log'[y], y)
  <2> HIDE DEF IsLog
  <2> QED BY <1>1 DEF FilesTyped
<1> QED BY <1>2 DEF FilesTyped, LogsStay, FileOf, IsProgram, IsLog, Complete, Executed

LEMMA LoggedTyped ==
  ASSUME FilesInv, FilesTyped, NEW x \in Sims \X Jobs, NEW n \in 0 .. Complete(x[1], elf[x[2]]),
         Logged(x, n), UNCHANGED <<asm, elf>>
  PROVE  FilesTyped' /\ LogsStay
<1> DEFINE l == Log(elf[x[2]], n)
<1>1. log' = [log EXCEPT ![x] = l]
  BY DEF Logged
<1>2. l.prog = elf[x[2]] /\ l.rows = n
  BY DEF Log
<1>3. x[2] \in Jobs
  OBVIOUS
<1> HIDE DEF l
<1>4. IsLog(l, x)
  BY <1>2, <1>3 DEF IsLog, FilesTyped
<1> QED BY <1>1, <1>4, LogTyped

LEMMA CompleteOf ==
  ASSUME Ends, FilesTyped, NEW x \in Sims \X Jobs
  PROVE  Complete(x[1], elf[x[2]]) \in Nat
<1>1. elf[x[2]] = None \/ elf[x[2]] \in Programs
  BY DEF FilesTyped, FileOf, IsProgram
<1> QED BY <1>1, CompleteType

LEMMA KeepsWriting ==
  ASSUME ChildrenTyped, LogsStay, NEW c \in children
  PROVE  Writes(c)'
<1>1. CASE c.step = "gen" /\ \A j \in DOMAIN c.made : IsProgram(c.made[j], j)
  BY <1>1 DEF Writes, IsProgram
<1>2. CASE /\ c.step = "sim" /\ c.at \in Sims \X Jobs /\ IsLog(log[c.at], c.at)
           /\ IsProgram(c.prog, c.at[2]) /\ c.rows \in 0 .. Complete(c.at[1], c.prog)
  <2>1. IsLog(log[c.at], c.at)'
    BY <1>2 DEF LogsStay
  <2> QED BY <1>2, <2>1 DEF Writes, IsProgram, Complete, Executed
<1> QED BY <1>1, <1>2 DEF ChildrenTyped, Writes

\* A simulator left running makes a log longer, or spoils it.
LEMMA ChildSimulatesTyped ==
  ASSUME Ends, FilesInv, ChildrenInv, FilesTyped, ChildrenTyped, ChildSimulates
  PROVE  FilesTyped' /\ ChildrenTyped'
<1> DEFINE same(c) == ~log[c.at].mixed /\ log[c.at].prog = c.prog /\ c.rows =< log[c.at].rows
           most(c) == Max({log[c.at].rows, c.rows + 1})
           new(c) == IF same(c) THEN Log(c.prog, most(c)) ELSE Mixed
           one(c) == [c EXCEPT !.rows = @ + 1]
<1>1. PICK c \in children :
         /\ c.step = "sim" /\ c.rows < Complete(c.at[1], c.prog)
         /\ log' = [log EXCEPT ![c.at] = new(c)]
         /\ children' = (children \ {c}) \cup {one(c)}
         /\ UNCHANGED <<asm, elf>>
  BY Zenon DEF ChildSimulates
<1> DEFINE x == c.at
           all == Complete(x[1], c.prog)
<1>2. /\ x \in Sims \X Jobs /\ IsLog(log[x], x) /\ IsProgram(c.prog, x[2]) /\ c.rows \in 0 .. all
  BY <1>1 DEF ChildrenTyped, Writes
<1>3. all \in Nat
  BY <1>2, CompleteType DEF IsProgram
<1>4. same(c) => IsLog(Log(c.prog, most(c)), x)
  <2> SUFFICES ASSUME same(c) PROVE IsLog(Log(c.prog, most(c)), x)
    OBVIOUS
  <2>1. log[x].rows \in 0 .. all
    BY <1>2 DEF IsLog
  <2>2. c.rows + 1 \in 0 .. all
    BY <1>1, <1>2, <1>3
  <2>3. most(c) \in 0 .. all
    <3> DEFINE S == {log[x].rows, c.rows + 1}
    <3> HIDE DEF all
    <3>1. \E m \in S : \A k \in S : k =< m
      BY <1>3, <2>1, <2>2
    <3>2. most(c) = CHOOSE m \in S : \A k \in S : k =< m
      BY DEF Max
    <3>3. most(c) \in S
      BY <3>1, <3>2
    <3> QED BY <2>1, <2>2, <3>3
  <2>4. Log(c.prog, most(c)).prog = c.prog /\ Log(c.prog, most(c)).rows = most(c)
    BY DEF Log
  <2> HIDE DEF most, all
  <2> QED BY <1>2, <2>3, <2>4 DEF IsLog, FileOf, all
<1>5. IsLog(Mixed, x)
  <2>1. Complete(x[1], None) = 0
    BY EmptySeq DEF Complete, Executed
  <2> QED BY <2>1 DEF IsLog, Mixed, FileOf
<1>6. IsLog(new(c), x)
  <2> HIDE DEF same, most, x
  <2> QED BY <1>4, <1>5, Zenon
<1> HIDE DEF new
<1>7. FilesTyped' /\ LogsStay
  BY <1>1, <1>2, <1>6, LogTyped
<1> DEFINE d == one(c)
<1>8. Writes(d)'
  <2>1. c = [step |-> "sim", at |-> c.at, prog |-> c.prog, rows |-> c.rows]
    BY <1>1 DEF ChildrenInv, IsGenerator, IsSimulator
  <2>2. d = [step |-> "sim", at |-> c.at, prog |-> c.prog, rows |-> c.rows + 1]
    BY <2>1
  <2> HIDE DEF d
  <2>3. d.step = "sim" /\ d.at = x /\ d.prog = c.prog /\ d.rows = c.rows + 1
    BY <2>2
  <2>4. IsLog(log[x], x)'
    BY <1>2, <1>7 DEF LogsStay
  <2>5. d.rows \in 0 .. Complete(d.at[1], d.prog)
    BY <1>1, <1>2, <1>3, <2>3
  <2> HIDE DEF x
  <2> QED BY <1>2, <2>3, <2>4, <2>5 DEF Writes, IsProgram, Complete, Executed
<1> HIDE DEF d
<1>9. \A b \in children' : b \in children \/ b = d
  BY <1>1 DEF d
<1>10. ASSUME NEW b \in children' PROVE Writes(b)'
  BY <1>7, <1>8, <1>9, KeepsWriting
<1> QED BY <1>7, <1>10 DEF ChildrenTyped

\* A generator left running writes what it made.
LEMMA ChildGeneratesTyped ==
  ASSUME FilesInv, ChildrenInv, FilesTyped, ChildrenTyped, ChildGenerates
  PROVE  FilesTyped' /\ ChildrenTyped'
<1> DEFINE rest(c, j) == [i \in DOMAIN c.made \ {j} |-> c.made[i]]
<1>1. PICK c \in children : c.step = "gen" /\ \E j \in DOMAIN c.made :
            /\ Generated(c.made, {j}, c.seeds, c.promised)
            /\ children' = (children \ {c}) \cup {[c EXCEPT !.made = rest(c, j)]}
  BY Zenon DEF ChildGenerates
<1>2. PICK j \in DOMAIN c.made :
            /\ Generated(c.made, {j}, c.seeds, c.promised)
            /\ children' = (children \ {c}) \cup {[c EXCEPT !.made = rest(c, j)]}
  BY <1>1
<1>3. \A i \in DOMAIN c.made : IsProgram(c.made[i], i)
  BY <1>1 DEF ChildrenTyped, Writes
<1>4. UNCHANGED <<elf, log>>
  BY DEF ChildGenerates
<1>5. FilesTyped' /\ LogsStay
  BY <1>2, <1>3, <1>4, GeneratedTyped
<1> DEFINE d == [c EXCEPT !.made = rest(c, j)]
<1>6. Writes(d)'
  <2>1. c = [step |-> "gen", made |-> c.made, seeds |-> c.seeds, promised |-> c.promised]
    BY <1>1 DEF ChildrenInv, IsGenerator, IsSimulator
  <2> DEFINE left == rest(c, j)
  <2>2. \A i \in DOMAIN left : IsProgram(left[i], i)
    BY <1>3
  <2> HIDE DEF left
  <2>3. d = [step |-> "gen", made |-> left, seeds |-> c.seeds, promised |-> c.promised]
    BY <2>1 DEF left
  <2> HIDE DEF d
  <2>4. d.step = "gen" /\ d.made = left
    BY <2>3
  <2> QED BY <2>2, <2>4 DEF Writes, IsProgram
<1> HIDE DEF d
<1>7. \A b \in children' : b \in children \/ b = d
  BY <1>2 DEF d
<1>8. ASSUME NEW b \in children' PROVE Writes(b)'
  BY <1>5, <1>6, <1>7, KeepsWriting
<1> QED BY <1>5, <1>8 DEF ChildrenTyped

LEMMA GccTyped ==
  ASSUME PhaseInv, FilesInv, FilesTyped, GccCompile
  PROVE  FilesTyped' /\ LogsStay
<1> DEFINE j == Head(todo)
<1>1. phase = "gcc" /\ todo # <<>> /\ UNCHANGED <<asm, log>>
  BY DEF GccCompile
<1>2. j \in Jobs
  BY <1>1, HeadTyped
<1>3. UNCHANGED elf \/ \E prog \in {elf[j], asm[j], None} : Binary(j, prog)
  BY Zenon DEF GccCompile, GccStopped
<1> HIDE DEF j
<1>4. CASE UNCHANGED elf
  BY <1>1, <1>4, KeepsTyped
<1>5. CASE \E prog \in {elf[j], asm[j], None} : Binary(j, prog)
  BY <1>1, <1>2, <1>5, BinaryTyped
<1> QED BY <1>3, <1>4, <1>5

LEMMA SimTyped ==
  ASSUME Ends, PhaseInv, FilesInv, FilesTyped, IssSim
  PROVE  FilesTyped' /\ LogsStay
<1> DEFINE x == Head(todo)
           all == Complete(x[1], elf[x[2]])
<1>1. phase = "sim" /\ todo # <<>> /\ UNCHANGED <<asm, elf>>
  BY DEF IssSim
<1>2. x \in Sims \X Jobs
  BY <1>1, HeadTyped
<1>3. all \in Nat
  BY <1>2, CompleteOf
<1>4. \/ Logged(x, all)
      \/ \E n \in 0 .. all - 1 : Logged(x, n)
      \/ Logged(x, 0)
  BY Zenon DEF IssSim
<1> HIDE DEF all, x
<1>5. \E n \in 0 .. all : Logged(x, n)
  BY <1>3, <1>4
<1> QED BY <1>1, <1>2, <1>5, LoggedTyped DEF all

\* What an interrupt leaves behind, half made or still running.
LEMMA InterruptTyped ==
  ASSUME Ends, PhaseInv, FilesInv, ValuesInv, Interrupt
  PROVE  FilesTyped' /\ ChildrenTyped'
<1>0. FilesTyped /\ ChildrenTyped /\ UNCHANGED asm
  BY DEF ValuesInv, Interrupt
<1>1. \/ UNCHANGED <<elf, log, children>>
      \/ /\ phase = "gen" /\ UNCHANGED <<elf, log>>
         /\ \A c \in children' : c \in children \/ \E n \in DOMAIN todo : c = Generator(todo[n])
      \/ phase = "gcc" /\ todo # <<>> /\ GccStopped(Head(todo)) /\ UNCHANGED <<log, children>>
      \/ /\ phase = "sim" /\ todo # <<>> /\ elf[Head(todo)[2]] # None
         /\ Logged(Head(todo), 0) /\ children' = children \cup {Simulator(Head(todo))}
         /\ UNCHANGED elf
  <2>1. phase = "gen" /\ children' = children \cup {Generator(todo[n]) : n \in {m \in DOMAIN todo : opts.lsf \/ m = 1}}
        => \A c \in children' : c \in children \/ \E n \in DOMAIN todo : c = Generator(todo[n])
    OBVIOUS
  <2> QED BY <2>1, Zenon DEF Interrupt
<1>2. CASE UNCHANGED <<elf, log, children>>
  <2>1. FilesTyped' /\ LogsStay
    BY <1>0, <1>2, KeepsTyped
  <2> QED BY <1>0, <1>2, <2>1, KeepsWriting DEF ChildrenTyped
<1>3. CASE /\ phase = "gen" /\ UNCHANGED <<elf, log>>
           /\ \A c \in children' : c \in children \/ \E n \in DOMAIN todo : c = Generator(todo[n])
  <2>1. FilesTyped' /\ LogsStay
    BY <1>0, <1>3, KeepsTyped
  <2>2. ASSUME NEW c, NEW n \in DOMAIN todo, c = Generator(todo[n]) PROVE Writes(c)'
    <3>1. c.step = "gen" /\ c.made = Making(todo[n])
      BY <2>2 DEF Generator
    <3>2. \A j \in DOMAIN c.made : IsProgram(c.made[j], j)
      BY <1>3, <3>1, MakingType
    <3> QED BY <3>1, <3>2 DEF Writes, IsProgram
  <2>3. ASSUME NEW c \in children' PROVE Writes(c)'
    <3>1. CASE c \in children
      BY <1>0, <2>1, <3>1, KeepsWriting
    <3>2. CASE \E n \in DOMAIN todo : c = Generator(todo[n])
      BY <2>2, <3>2
    <3> QED BY <1>3, <3>1, <3>2
  <2> QED BY <2>1, <2>3 DEF ChildrenTyped
<1>4. CASE phase = "gcc" /\ todo # <<>> /\ GccStopped(Head(todo)) /\ UNCHANGED <<log, children>>
  <2>1. FilesTyped' /\ LogsStay
    BY <1>0, <1>4, HeadTyped, BinaryTyped DEF GccStopped
  <2> QED BY <1>0, <1>4, <2>1, KeepsWriting DEF ChildrenTyped
<1>5. CASE /\ phase = "sim" /\ todo # <<>> /\ elf[Head(todo)[2]] # None
           /\ Logged(Head(todo), 0) /\ children' = children \cup {Simulator(Head(todo))}
           /\ UNCHANGED elf
  <2>1. PICK x \in Sims \X Jobs : x = Head(todo)
    BY <1>5, HeadTyped
  <2>2. Complete(x[1], elf[x[2]]) \in Nat /\ Logged(x, 0)
    BY <1>0, <1>5, <2>1, CompleteOf
  <2>3. FilesTyped' /\ LogsStay
    BY <1>0, <1>5, <2>2, LoggedTyped
  <2>4. PICK c : c = Simulator(x)
    OBVIOUS
  <2>5. Writes(c)'
    <3>1. c.step = "sim" /\ c.at = x /\ c.prog = elf[x[2]] /\ c.rows = 0
      BY <2>4 DEF Simulator
    <3>2. FileOf(elf[x[2]], x[2]) /\ elf[x[2]] # None
      BY <1>0, <1>5, <2>1 DEF FilesTyped
    <3>3. IsLog(log[x], x)'
      <4>1. log'[x] = Log(elf[x[2]], 0)
        BY <2>2 DEF Logged, FilesInv
      <4>2. log'[x].prog = elf[x[2]] /\ log'[x].rows = 0
        BY <4>1 DEF Log
      <4> QED BY <2>2, <3>2, <4>2 DEF IsLog, FileOf, IsProgram, Complete, Executed
    <3>4. IsProgram(c.prog, x[2]) /\ c.rows \in 0 .. Complete(x[1], c.prog)
      BY <2>2, <3>1, <3>2 DEF FileOf
    <3>5. (c.rows \in 0 .. Complete(x[1], c.prog))' /\ IsProgram(c.prog, x[2])'
      BY <3>4 DEF IsProgram, Complete, Executed
    <3> QED BY <3>1, <3>3, <3>5 DEF Writes
  <2>6. \A b \in children' : b \in children \/ b = c
    BY <1>5, <2>1, <2>4
  <2> QED BY <1>0, <2>3, <2>5, <2>6, KeepsWriting DEF ChildrenTyped
<1> QED BY <1>1, <1>2, <1>3, <1>4, <1>5

\* Every action writes programs of the testlist and logs of their executions.
LEMMA FilesTypedStep ==
  ASSUME Ends, PhaseInv, FilesInv, ChildrenInv, ValuesInv, [Next]_vars
  PROVE  FilesTyped' /\ ChildrenTyped'
<1>0. FilesTyped /\ ChildrenTyped
  BY DEF ValuesInv
<1>1. ASSUME FilesTyped', LogsStay, children' \subseteq children PROVE ChildrenTyped'
  BY <1>0, <1>1, KeepsWriting DEF ChildrenTyped
<1>2. CASE Invoke \/ NextStep \/ Finish \/ Compile \/ ChildEnds \/ UNCHANGED vars
  <2>1. UNCHANGED <<asm, elf, log>> /\ children' \subseteq children
    BY <1>2 DEF Invoke, NextStep, Finish, Compile, ChildEnds, vars, files
  <2> QED BY <1>0, <1>1, <2>1, KeepsTyped
<1>3. CASE RunDirected \/ DrawSeeds \/ SaveSeeds \/ ClearReport \/ IssCmp \/ Summarise
  <2>1. UNCHANGED <<asm, elf, log>> /\ children' \subseteq children
    BY <1>3 DEF RunDirected, DrawSeeds, SaveSeeds, ClearReport, IssCmp, Summarise
  <2> QED BY <1>0, <1>1, <2>1, KeepsTyped
<1>4. CASE GenerateBatch
  <2>1. phase = "gen" /\ UNCHANGED <<elf, log, children>>
    BY <1>4 DEF GenerateBatch
  <2>2. PICK n \in DOMAIN todo :
          \E jobs \in SUBSET DOMAIN Making(todo[n]) :
            Generated(Making(todo[n]), jobs, sim_seed, PromisedJobs)
    BY <1>4, Zenon DEF GenerateBatch
  <2>3. \A j \in DOMAIN Making(todo[n]) : IsProgram(Making(todo[n])[j], j)
    BY <2>1, MakingType
  <2> QED BY <1>0, <1>1, <2>1, <2>2, <2>3, GeneratedTyped
<1>5. CASE GccCompile
  <2>1. UNCHANGED children
    BY <1>5 DEF GccCompile
  <2> QED BY <1>0, <1>1, <1>5, <2>1, GccTyped
<1>6. CASE IssSim
  <2>1. UNCHANGED children
    BY <1>6 DEF IssSim
  <2> QED BY <1>0, <1>1, <1>6, <2>1, SimTyped
<1>7. CASE Interrupt
  BY <1>7, InterruptTyped
<1>8. CASE ChildGenerates
  BY <1>0, <1>8, ChildGeneratesTyped
<1>9. CASE ChildSimulates
  BY <1>0, <1>9, ChildSimulatesTyped
<1> QED BY <1>2, <1>3, <1>4, <1>5, <1>6, <1>7, <1>8, <1>9 DEF Next

LEMMA ValuesStep ==
  ASSUME Ends, PhaseInv, FilesInv, ChildrenInv, ValuesInv, [Next]_vars
  PROVE  ValuesInv'
BY BoundedStep, SeedsStep, FilesTypedStep DEF ValuesInv

LEMMA InitValues == Init => ValuesInv
BY BoundsAssumption DEF Init, ValuesInv, Bounded, SeedsTyped, FilesTyped, ChildrenTyped, Saving, FileOf

LEMMA TypesFollow ==
  ASSUME PhaseInv, FilesInv, ChildrenInv, ValuesInv
  PROVE  TypeOK
<1>1. phase \in {"idle", "start"} \cup Range(Order)
  <2>1. phase \in {"idle", "start", "end"} \cup Steps
    BY DEF PhaseInv
  <2>2. Steps \cup {"end"} \subseteq Range(Order)
    <3>1. \A n \in 1 .. 11 : Order[n] \in Range(Order)
      BY OrderIs DEF Range
    <3>2. {Order[1], Order[2], Order[3], Order[4], Order[5], Order[6], Order[7], Order[8],
           Order[9], Order[10], Order[11]} \subseteq Range(Order)
      BY <3>1
    <3> QED BY <3>2, OrderIs DEF Steps, GenSteps, CmpSteps
  <2> QED BY <2>1, <2>2
<1>2. \A j \in Jobs : \A p \in {asm[j], elf[j]} : p # None => IsProgram(p, j)
  BY DEF ValuesInv, FilesTyped, FileOf
<1>3. \A x \in Sims \X Jobs : log[x] # None => log[x].rows \in 0..Complete(x[1], log[x].prog)
  BY DEF ValuesInv, FilesTyped, IsLog
<1>4. \A c \in children :
        \/ c.step = "gen" /\ \A j \in DOMAIN c.made : j \in Jobs /\ IsProgram(c.made[j], j)
        \/ c.step = "sim" /\ c.at \in Sims \X Jobs /\ c.rows \in 0..Complete(c.at[1], c.prog)
  <2> SUFFICES ASSUME NEW c \in children
               PROVE  \/ c.step = "gen" /\ \A j \in DOMAIN c.made : j \in Jobs /\ IsProgram(c.made[j], j)
                      \/ c.step = "sim" /\ c.at \in Sims \X Jobs /\ c.rows \in 0..Complete(c.at[1], c.prog)
    OBVIOUS
  <2>1. Writes(c) /\ (IsGenerator(c) \/ IsSimulator(c))
    BY DEF ValuesInv, ChildrenTyped, ChildrenInv
  <2>2. CASE c.step = "gen"
    <3>1. DOMAIN c.made \subseteq Jobs
      BY <2>1, <2>2 DEF IsGenerator, IsSimulator, ByTheSeeds
    <3> QED BY <2>1, <2>2, <3>1 DEF Writes
  <2>3. CASE c.step # "gen"
    BY <2>1, <2>3 DEF Writes
  <2> QED BY <2>2, <2>3
<1>5. /\ inv \in 0..MaxInvocations /\ opts \in Options /\ faults \in 0..MaxFaults
      /\ todo # <<>> => phase \in {"directed", "gen", "gcc", "sim", "cmp"}
  BY DEF PhaseInv, ValuesInv, Bounded
<1>6. sown \cup kept \cup built \subseteq Jobs /\ ran \subseteq Sims \X Jobs
  BY DEF FilesInv
<1> QED BY <1>1, <1>2, <1>3, <1>4, <1>5, <1>6, Zenon DEF TypeOK

(* Every file holds a program of its own job, made by a script of the         *)
(* testlist, or as much of a log as its program's execution has rows; and so  *)
(* do the commands left running write.                                        *)
THEOREM TypeCorrect ==
  ASSUME Ends
  PROVE  Spec => []TypeOK
<1> DEFINE I == PhaseInv /\ FilesInv /\ ChildrenInv /\ ValuesInv
<1>1. Init => I
  BY InitReport, InitFiles, InitValues
<1>2. I /\ [Next]_vars => I'
  BY PhaseStep, FilesStep, ValuesStep
<1>3. I => TypeOK
  BY TypesFollow
<1> HIDE DEF I
<1> QED BY <1>1, <1>2, <1>3, PTL DEF Spec

-----------------------------------------------------------------------------
(* A verdict on complete logs is about the executions.  The converters drop   *)
(* rows that write nothing, so a converted log and its execution are Alike.   *)

\* Change by change the same rows, and the same registers in the end.
Alike(s, t) ==
  /\ SameChanges(s, t)
  /\ Rank(s, Len(s)) = Rank(t, Len(t))
  /\ Before(s, Len(s) + 1) = Before(t, Len(t) + 1)

LEMMA WritersType ==
  ASSUME NEW t \in Seq(Rows), NEW k \in Nat, NEW r
  PROVE  Writers(t, k, r) \in SUBSET (1 .. k - 1)
BY DEF Writers

\* One more row changes nothing of what the rows before it do.
LEMMA AppendRow ==
  ASSUME NEW t \in Seq(Rows), NEW entry \in Rows
  PROVE  /\ Append(t, entry) \in Seq(Rows) /\ Len(Append(t, entry)) = Len(t) + 1 /\ Len(t) \in Nat
         /\ \A k \in 1 .. Len(t) + 1 : Before(Append(t, entry), k) = Before(t, k)
         /\ ChangedRows(Append(t, entry)) =
              ChangedRows(t) \cup (IF Changes(entry, Before(t, Len(t) + 1)) THEN {Len(t) + 1} ELSE {})
         /\ \A k \in 1 .. Len(t) : Append(t, entry)[k] = t[k] /\ Rank(Append(t, entry), k) = Rank(t, k)
         /\ Before(Append(t, entry), Len(t) + 2) = Updated(entry, Before(t, Len(t) + 1))
         /\ Rank(Append(t, entry), Len(t) + 1) =
              Rank(t, Len(t)) + (IF Changes(entry, Before(t, Len(t) + 1)) THEN 1 ELSE 0)
<1> DEFINE n == Len(t)
           u == Append(t, entry)
<1>1. /\ u \in Seq(Rows) /\ Len(u) = n + 1 /\ n \in Nat
      /\ \A k \in 1 .. n : u[k] = t[k]
      /\ u[n + 1] = entry /\ DOMAIN u = 1 .. n + 1 /\ DOMAIN t = 1 .. n
  BY AppendProperties, LenProperties
<1> HIDE DEF u, n
<1>2. ASSUME NEW k \in 1 .. n + 1 PROVE Before(u, k) = Before(t, k)
  <2>1. \A m \in 1 .. k - 1 : m \in 1 .. n
    BY <1>1
  <2>2. \A r : Writers(u, k, r) = Writers(t, k, r)
    BY <1>1, <2>1 DEF Writers
  <2>3. ASSUME NEW r \in Regs, Writers(t, k, r) # {}
        PROVE  u[Latest(Writers(t, k, r))] = t[Latest(Writers(t, k, r))]
    <3>1. k - 1 \in Nat /\ Writers(t, k, r) \in SUBSET (1 .. k - 1)
      BY <1>1, WritersType
    <3>2. Latest(Writers(t, k, r)) \in 1 .. k - 1
      BY <2>3, <3>1, LastType
    <3> QED BY <1>1, <2>1, <3>2
  <2>4. ASSUME NEW r \in Regs PROVE Before(u, k)[r] = Before(t, k)[r]
    <3>1. CASE Writers(t, k, r) = {}
      BY <2>2, <3>1 DEF Before
    <3>2. CASE Writers(t, k, r) # {}
      BY <2>2, <2>3, <3>2 DEF Before
    <3> QED BY <3>1, <3>2
  <2> QED BY <2>4 DEF Before
<1>3. n + 1 \in 1 .. n + 1 /\ n + 1 \notin 1 .. n /\ 1 .. n + 1 = 1 .. n \cup {n + 1}
  BY <1>1
<1>4. \A k \in 1 .. n : k \in ChangedRows(u) <=> k \in ChangedRows(t)
  BY <1>1, <1>2 DEF ChangedRows
<1>5. n + 1 \in ChangedRows(u) <=> Changes(entry, Before(t, n + 1))
  BY <1>1, <1>2, <1>3 DEF ChangedRows
<1>6. ChangedRows(u) \subseteq 1 .. n + 1 /\ ChangedRows(t) \subseteq 1 .. n
  BY <1>1 DEF ChangedRows
<1>7. ChangedRows(u) =
        ChangedRows(t) \cup (IF Changes(entry, Before(t, n + 1)) THEN {n + 1} ELSE {})
  BY <1>3, <1>4, <1>5, <1>6
<1>8. ASSUME NEW k \in 0 .. n PROVE Rank(u, k) = Rank(t, k)
  <2>1. 1 .. k \subseteq 1 .. n
    BY <1>1
  <2>2. ChangedRows(u) \cap 1 .. k = ChangedRows(t) \cap 1 .. k
    BY <1>4, <2>1
  <2> QED BY <2>2 DEF Rank
<1>9. Before(u, n + 2) = Updated(entry, Before(t, n + 1))
  <2>1. n + 1 \in DOMAIN u /\ (n + 1) + 1 = n + 2
    BY <1>1
  <2>2. Before(u, n + 2) = Updated(u[n + 1], Before(u, n + 1))
    BY <1>1, <2>1, BeforeStep
  <2> QED BY <1>1, <1>2, <1>3, <2>2
<1>10. Rank(u, n + 1) = Rank(t, n) + (IF Changes(entry, Before(t, n + 1)) THEN 1 ELSE 0)
  <2>1. Rank(u, n + 1) = IF n + 1 \in ChangedRows(u) THEN Rank(u, n) + 1 ELSE Rank(u, n)
    BY <1>1, RankStep
  <2>2. n \in 0 .. n /\ Rank(t, n) \in Nat
    <3>1. Rank(t, n) \in Nat
      BY <1>1, RankType
    <3> QED BY <1>1, <3>1
  <2>3. Rank(u, n) = Rank(t, n)
    BY <1>8, <2>2
  <2> QED BY <1>5, <2>1, <2>2, <2>3
<1>11. \A k \in 1 .. n : u[k] = t[k] /\ Rank(u, k) = Rank(t, k)
  BY <1>1, <1>8
<1> QED BY <1>1, <1>2, <1>7, <1>9, <1>10, <1>11 DEF u, n

LEMMA AlikeSymmetric ==
  ASSUME NEW s, NEW t, Alike(s, t)
  PROVE  Alike(t, s)
BY DEF Alike, SameChanges

LEMMA RankOfChange ==
  ASSUME NEW t \in Seq(Rows), NEW n \in ChangedRows(t)
  PROVE  Rank(t, n) \in 1 .. Rank(t, Len(t))
<1>1. n \in Nat /\ n >= 1 /\ n =< Len(t) /\ n \in DOMAIN t /\ Rank(t, n) \in Nat /\ Len(t) \in Nat
  BY ChangedType, LenProperties
<1>2. Rank(t, 0) = 0 /\ Rank(t, 0) < Rank(t, n)
  BY <1>1, RankZero, RankStrict
<1>3. Rank(t, n) =< Rank(t, Len(t)) /\ Rank(t, Len(t)) \in Nat
  BY <1>1, RankMonotone, RankType
<1> QED BY <1>1, <1>2, <1>3

LEMMA AlikeItself ==
  ASSUME NEW t \in Seq(Rows)
  PROVE  Alike(t, t)
<1>1. ASSUME NEW m \in ChangedRows(t), NEW n \in ChangedRows(t), Rank(t, m) = Rank(t, n)
      PROVE  m = n
  <2>1. m \in Nat /\ n \in Nat /\ Rank(t, m) \in Nat /\ Rank(t, n) \in Nat
    BY ChangedType
  <2>2. ~(m < n) /\ ~(n < m)
    BY <1>1, <2>1, RankStrict
  <2> QED BY <2>1, <2>2
<1> QED BY <1>1 DEF Alike, SameChanges

\* A row without a write may be left out.
LEMMA AlikeAppendEmpty ==
  ASSUME NEW s \in Seq(Rows), NEW t, Alike(s, t)
  PROVE  Alike(Append(s, <<>>), t) /\ Append(s, <<>>) \in Seq(Rows)
<1> DEFINE u == Append(s, <<>>)
           n == Len(s)
<1>1. <<>> \in Rows
  BY DEF Rows
<1>2. \A g : ~Changes(<<>>, g)
  BY DEF Changes
<1>3. Updated(<<>>, Before(s, n + 1)) = Before(s, n + 1)
  <2>1. Len(<<>>) = 0 /\ 1 .. 0 = {}
    OBVIOUS
  <2>2. \A g : Updated(<<>>, g) = [r \in Regs |-> g[r]]
    BY <2>1 DEF Updated, AfterWrites
  <2> QED BY <2>2, Zenon DEF Before
<1>4. /\ u \in Seq(Rows) /\ Len(u) = n + 1 /\ n \in Nat
      /\ ChangedRows(u) = ChangedRows(s)
      /\ \A k \in 1 .. n : u[k] = s[k] /\ Rank(u, k) = Rank(s, k)
      /\ Before(u, n + 2) = Before(s, n + 1)
      /\ Rank(u, n + 1) = Rank(s, n) + 0
  <2> HIDE DEF u, n
  <2> QED BY <1>1, <1>2, <1>3, AppendRow DEF u, n
<1>5. \A k \in ChangedRows(s) : k \in 1 .. n
  BY <1>4 DEF ChangedRows
<1>6. Rank(s, n) \in Nat
  BY <1>4, RankType
<1> HIDE DEF u, n
<1>7. SameChanges(u, t)
  BY <1>4, <1>5 DEF Alike, SameChanges
<1>8. Rank(u, Len(u)) = Rank(t, Len(t))
  BY <1>4, <1>6 DEF Alike, n
<1>9. Before(u, Len(u) + 1) = Before(t, Len(t) + 1)
  <2>1. Len(u) + 1 = n + 2
    BY <1>4
  <2> QED BY <1>4, <2>1 DEF Alike, n
<1> QED BY <1>4, <1>7, <1>8, <1>9 DEF Alike, u

\* The same row goes on like traces alike.
LEMMA AlikeAppend ==
  ASSUME NEW s \in Seq(Rows), NEW t \in Seq(Rows), Alike(s, t), NEW entry \in Rows
  PROVE  Alike(Append(s, entry), Append(t, entry))
<1> DEFINE u == Append(s, entry)
           v == Append(t, entry)
           m == Len(s)
           n == Len(t)
           g == Before(t, n + 1)
<1>1. Before(s, m + 1) = g /\ Rank(s, m) = Rank(t, n) /\ SameChanges(s, t)
  BY DEF Alike
<1>2. /\ u \in Seq(Rows) /\ Len(u) = m + 1 /\ m \in Nat
      /\ ChangedRows(u) = ChangedRows(s) \cup (IF Changes(entry, g) THEN {m + 1} ELSE {})
      /\ \A k \in 1 .. m : u[k] = s[k] /\ Rank(u, k) = Rank(s, k)
      /\ Before(u, m + 2) = Updated(entry, g)
      /\ Rank(u, m + 1) = Rank(s, m) + (IF Changes(entry, g) THEN 1 ELSE 0)
  <2> HIDE DEF u, m, g
  <2> QED BY <1>1, AppendRow DEF u, m
<1>3. /\ v \in Seq(Rows) /\ Len(v) = n + 1 /\ n \in Nat
      /\ ChangedRows(v) = ChangedRows(t) \cup (IF Changes(entry, g) THEN {n + 1} ELSE {})
      /\ \A k \in 1 .. n : v[k] = t[k] /\ Rank(v, k) = Rank(t, k)
      /\ Before(v, n + 2) = Updated(entry, g)
      /\ Rank(v, n + 1) = Rank(t, n) + (IF Changes(entry, g) THEN 1 ELSE 0)
  <2> HIDE DEF v, n
  <2> QED BY AppendRow DEF v, n, g
<1>4. u[m + 1] = entry /\ v[n + 1] = entry
  BY AppendProperties
<1>5. /\ \A k \in ChangedRows(s) : k \in 1 .. m /\ Rank(s, k) \in 1 .. Rank(s, m)
      /\ \A k \in ChangedRows(t) : k \in 1 .. n /\ Rank(t, k) \in 1 .. Rank(t, n)
  BY <1>2, <1>3, RankOfChange, ChangedType
<1>6. Rank(t, n) \in Nat
  BY <1>3, RankType
<1> HIDE DEF u, v, m, n, g
<1>7. ASSUME NEW k1 \in ChangedRows(u), NEW k2 \in ChangedRows(v), Rank(u, k1) = Rank(v, k2)
      PROVE  u[k1] = v[k2]
  <2>1. CASE k1 \in ChangedRows(s) /\ k2 \in ChangedRows(t)
    BY <1>1, <1>2, <1>3, <1>5, <1>7, <2>1 DEF SameChanges
  <2>2. CASE k1 = m + 1 /\ k2 = n + 1
    BY <1>4, <2>2
  <2>3. CASE k1 \in ChangedRows(s) /\ k2 = n + 1 /\ Changes(entry, g)
    <3>1. Rank(u, k1) = Rank(s, k1) /\ Rank(s, k1) =< Rank(t, n) /\ Rank(s, k1) \in Nat
      BY <1>1, <1>2, <1>5, <1>6, <2>3
    <3>2. Rank(v, k2) = Rank(t, n) + 1
      BY <1>3, <2>3
    <3>3. Rank(s, k1) = Rank(t, n) + 1
      BY <1>7, <3>1, <3>2
    <3>4. ~(Rank(t, n) + 1 =< Rank(t, n))
      BY <1>6
    <3> QED BY <3>1, <3>3, <3>4
  <2>4. CASE k1 = m + 1 /\ k2 \in ChangedRows(t) /\ Changes(entry, g)
    <3>1. Rank(v, k2) = Rank(t, k2) /\ Rank(t, k2) =< Rank(t, n) /\ Rank(t, k2) \in Nat
      BY <1>3, <1>5, <1>6, <2>4
    <3>2. Rank(u, k1) = Rank(t, n) + 1
      BY <1>1, <1>2, <2>4
    <3>3. Rank(t, k2) = Rank(t, n) + 1
      BY <1>7, <3>1, <3>2
    <3>4. ~(Rank(t, n) + 1 =< Rank(t, n))
      BY <1>6
    <3> QED BY <3>1, <3>3, <3>4
  <2> QED BY <1>2, <1>3, <2>1, <2>2, <2>3, <2>4
<1>8. Rank(u, Len(u)) = Rank(v, Len(v))
  BY <1>1, <1>2, <1>3
<1>9. Before(u, Len(u) + 1) = Before(v, Len(v) + 1)
  <2>1. Len(u) + 1 = m + 2 /\ Len(v) + 1 = n + 2
    BY <1>2, <1>3
  <2> QED BY <1>2, <1>3, <2>1
<1> QED BY <1>7, <1>8, <1>9 DEF Alike, SameChanges, u, v

\* Every number up to the number of changes is that of a change.
LEMMA ChangeOfRank ==
  ASSUME NEW t \in Seq(Rows), NEW k \in 1 .. Rank(t, Len(t))
  PROVE  \E n \in ChangedRows(t) : Rank(t, n) = k
<1> DEFINE A == {n \in 1 .. Len(t) : Rank(t, n) >= k}
<1>1. Len(t) \in Nat /\ Rank(t, 0) = 0 /\ Rank(t, Len(t)) \in Nat
  BY LenProperties, RankZero, RankType
<1>2. Len(t) \in A
  BY <1>1
<1>3. PICK n \in A : \A m \in A : ~(m < n)
  <2>1. A \subseteq Nat /\ A # {}
    BY <1>2
  <2> HIDE DEF A
  <2> QED BY <2>1, Least
<1>4. n \in 1 .. Len(t) /\ Rank(t, n) >= k /\ n - 1 \in Nat /\ (n - 1) + 1 = n
  BY <1>1
<1>5. Rank(t, n - 1) \in Nat /\ Rank(t, n - 1) < k
  <2>1. Rank(t, n - 1) \in Nat
    BY <1>4, RankType
  <2>2. CASE n = 1
    BY <1>1, <2>2
  <2>3. CASE n # 1
    <3>1. n - 1 \in 1 .. Len(t) /\ n - 1 < n
      BY <1>1, <1>4, <2>3
    <3>2. n - 1 \notin A
      <4> HIDE DEF A
      <4> QED BY <1>3, <3>1
    <3> QED BY <2>1, <3>1, <3>2
  <2> QED BY <2>1, <2>2, <2>3
<1>6. Rank(t, n) = IF n \in ChangedRows(t) THEN Rank(t, n - 1) + 1 ELSE Rank(t, n - 1)
  BY <1>4, RankStep
<1> HIDE DEF A
<1> QED BY <1>4, <1>5, <1>6

\* Traces have the same changes when traces alike them do.
LEMMA AlikeTransfers ==
  ASSUME NEW s1 \in Seq(Rows), NEW s2 \in Seq(Rows), NEW v1 \in Seq(Rows), NEW v2 \in Seq(Rows),
         Alike(s1, v1), Alike(s2, v2), SameChanges(s1, s2)
  PROVE  SameChanges(v1, v2)
<1> SUFFICES ASSUME NEW n1 \in ChangedRows(v1), NEW n2 \in ChangedRows(v2),
                    Rank(v1, n1) = Rank(v2, n2)
             PROVE  v1[n1] = v2[n2]
  BY DEF SameChanges
<1>1. Rank(v1, n1) \in 1 .. Rank(s1, Len(s1)) /\ Rank(v2, n2) \in 1 .. Rank(s2, Len(s2))
  BY RankOfChange DEF Alike
<1>2. PICK m1 \in ChangedRows(s1) : Rank(s1, m1) = Rank(v1, n1)
  BY <1>1, ChangeOfRank
<1>3. PICK m2 \in ChangedRows(s2) : Rank(s2, m2) = Rank(v2, n2)
  BY <1>1, ChangeOfRank
<1>4. s1[m1] = v1[n1] /\ s2[m2] = v2[n2]
  BY <1>2, <1>3 DEF Alike, SameChanges
<1>5. s1[m1] = s2[m2]
  BY <1>2, <1>3 DEF SameChanges
<1> QED BY <1>4, <1>5

\* Leaving out the rows that write nothing keeps the changes.
LEMMA WrittenAlike ==
  ASSUME NEW e \in Seq(Rows)
  PROVE  Written(e) \in Seq(Rows) /\ Alike(Written(e), e)
<1> DEFINE n == Len(e)
           parts == [k \in DOMAIN e |-> IF e[k] = <<>> THEN <<>> ELSE <<e[k]>>]
           G == Concat(parts)
           F(k) == IF k = 0 THEN <<>> ELSE G[k]
           P(k) == SubSeq(e, 1, k)
           X == {k \in 0 .. n : F(k) \in Seq(Rows) /\ Alike(F(k), P(k))}
<1>1. n \in Nat /\ DOMAIN e = 1 .. n /\ \A k \in 1 .. n : e[k] \in Rows
  BY LenProperties
<1>2. parts \in Seq(Seq(Rows)) /\ Len(parts) = n
  <2>1. \A k \in 1 .. n : (IF e[k] = <<>> THEN <<>> ELSE <<e[k]>>) \in Seq(Rows)
    BY <1>1
  <2>2. parts \in [1 .. n -> Seq(Rows)]
    BY <1>1, <2>1
  <2> HIDE DEF parts, n
  <2> QED BY <1>1, <2>2, IsASeq, LenProperties
<1>3. G = [i \in 1 .. n |-> IF i = 1 THEN parts[i] ELSE G[i - 1] \o parts[i]]
  <2> HIDE DEF parts, n
  <2> QED BY <1>2, ConcatExists DEF Concat
<1>4. \A i \in 1 .. n : F(i) = F(i - 1) \o parts[i]
  <2> SUFFICES ASSUME NEW i \in 1 .. n PROVE F(i) = F(i - 1) \o parts[i]
    OBVIOUS
  <2>1. i \in Nat /\ i # 0 /\ (i - 1 = 0 <=> i = 1)
    BY <1>1
  <2>2. parts[i] \in Seq(Rows)
    BY <1>1, <1>2
  <2>3. G[i] = IF i = 1 THEN parts[i] ELSE G[i - 1] \o parts[i]
    <3> HIDE DEF G, parts
    <3> QED BY <1>3
  <2>4. <<>> \o parts[i] = parts[i]
    BY <2>2, ConcatEmptySeq
  <2> HIDE DEF G, parts
  <2> QED BY <2>1, <2>3, <2>4
<1>5. P(0) = <<>> /\ \A k \in 1 .. n : P(k) = Append(P(k - 1), e[k]) /\ P(k - 1) \in Seq(Rows)
  BY <1>1, SubSeqProperties, SubSeqRecursiveSecond, SubSeqEmpty
<1>6. 0 \in X
  <2>1. F(0) = <<>> /\ <<>> \in Seq(Rows) /\ P(0) = <<>> /\ 0 \in 0 .. n
    BY <1>1, <1>5
  <2>2. Alike(<<>>, <<>>)
    BY <2>1, AlikeItself
  <2> HIDE DEF F, P
  <2> QED BY <2>1, <2>2
<1>7. ASSUME NEW k \in 0 .. n, k + 1 <= n, k \in X
      PROVE  k + 1 \in X
  <2>1. k + 1 \in 1 .. n /\ (k + 1) - 1 = k /\ k + 1 \in 0 .. n
    BY <1>1, <1>7
  <2>2. F(k + 1) = F(k) \o parts[k + 1] /\ P(k + 1) = Append(P(k), e[k + 1])
    <3> HIDE DEF F, P, parts
    <3> QED BY <1>4, <1>5, <2>1
  <2>3. F(k) \in Seq(Rows) /\ Alike(F(k), P(k)) /\ P(k) \in Seq(Rows) /\ e[k + 1] \in Rows
    <3>1. F(k) \in Seq(Rows) /\ Alike(F(k), P(k))
      <4> HIDE DEF F, P
      <4> QED BY <1>7
    <3>2. P(k) \in Seq(Rows)
      <4> HIDE DEF P
      <4> QED BY <1>5, <2>1
    <3> QED BY <1>1, <2>1, <3>1, <3>2
  <2>4. parts[k + 1] = IF e[k + 1] = <<>> THEN <<>> ELSE <<e[k + 1]>>
    BY <1>1, <2>1
  <2> HIDE DEF F, P, parts, n
  <2>5. CASE e[k + 1] = <<>>
    <3>1. F(k + 1) = F(k)
      BY <2>2, <2>3, <2>4, <2>5, ConcatEmptySeq
    <3>2. Alike(P(k), F(k))
      BY <2>3, AlikeSymmetric
    <3>3. Alike(Append(P(k), <<>>), F(k))
      BY <2>3, <3>2, AlikeAppendEmpty
    <3>4. Alike(F(k + 1), P(k + 1))
      BY <2>2, <2>5, <3>1, <3>3, AlikeSymmetric
    <3> QED BY <2>1, <2>3, <3>1, <3>4
  <2>6. CASE e[k + 1] # <<>>
    <3>1. F(k + 1) = Append(F(k), e[k + 1])
      BY <2>2, <2>3, <2>4, <2>6, AppendIsConcat
    <3>2. F(k + 1) \in Seq(Rows)
      <4>1. F(k) \in Seq(Rows) /\ e[k + 1] \in Rows
        BY <2>3
      <4>2. Append(F(k), e[k + 1]) \in Seq(Rows)
        BY <4>1, AppendProperties, Zenon
      <4> QED BY <3>1, <4>2, Zenon
    <3>3. Alike(F(k + 1), P(k + 1))
      BY <2>2, <2>3, <3>1, AlikeAppend
    <3> QED BY <2>1, <3>2, <3>3
  <2> QED BY <2>5, <2>6
<1>8. n \in X
  <2> HIDE DEF X, n
  <2>1. \A k \in 0 .. n : k \in X
    BY <1>1, <1>6, <1>7, Inductive
  <2> QED BY <1>1, <2>1
<1>9. P(n) = e
  BY <1>1, SubSeqFull
<1>10. Written(e) = F(n)
  <2>1. Written(e) = FlattenSeq(parts)
    BY DEF Written
  <2>2. FlattenSeq(parts) = IF n = 0 THEN parts ELSE G[n]
    <3> HIDE DEF parts, n
    <3> QED BY <1>2, FlattenIsConcat DEF G
  <2>3. n = 0 => parts = <<>>
    BY <1>1
  <2> HIDE DEF parts, n, G
  <2> QED BY <2>1, <2>2, <2>3
<1> HIDE DEF F, P
<1> QED BY <1>8, <1>9, <1>10

\* On a complete log that can be read, a converter keeps the changes.
LEMMA ConvertedAlike ==
  ASSUME Ends, NEW iss \in Sims, NEW l, l.prog = None \/ l.prog \in Programs,
         l.rows = Len(Executed(iss, l.prog)), ~Unusable(iss, l)
  PROVE  /\ Converted(iss, l) \in Seq(Rows) /\ Executed(iss, l.prog) \in Seq(Rows)
         /\ Alike(Converted(iss, l), Executed(iss, l.prog))
<1> DEFINE e == Executed(iss, l.prog)
           n == Len(e)
<1>1. e \in Seq(Rows) /\ (e # <<>> => e[n] = <<>>)
  BY DEF Executed, Ends
<1>2. n \in Nat /\ (n > 0 <=> e # <<>>) /\ (n = 0 => e = <<>>)
  BY <1>1, LenProperties, EmptySeq
<1>3. Converted(iss, l) = IF iss = "ovpsim" THEN SubSeq(SubSeq(e, 1, n), 1, n - 1)
                          ELSE Written(SubSeq(e, 1, n)) \o IF n > 0 THEN <<<<>>>> ELSE <<>>
  <2>1. l.rows = Complete(iss, l.prog)
    BY DEF Complete
  <2> QED BY <2>1 DEF Converted
<1>4. iss = "ovpsim" => n >= 2
  BY <1>2 DEF Unusable
<1> HIDE DEF e, n
<1>5. SubSeq(e, 1, n) = e
  BY <1>1, SubSeqFull DEF n
<1>6. CASE iss = "ovpsim"
  <2>1. n \in 1 .. n /\ n - 1 \in Nat
    BY <1>2, <1>4, <1>6
  <2> DEFINE front == SubSeq(e, 1, n - 1)
  <2>2. front \in Seq(Rows) /\ e = Append(front, <<>>)
    <3>1. e = Append(front, e[n])
      BY <1>1, <1>5, <2>1, SubSeqRecursiveSecond DEF n
    <3>2. front \in Seq(Rows)
      BY <1>1, <2>1, SubSeqProperties DEF n
    <3> QED BY <1>1, <1>2, <2>1, <3>1, <3>2
  <2>3. Converted(iss, l) = front
    BY <1>3, <1>5, <1>6
  <2> HIDE DEF front
  <2>4. Alike(Append(front, <<>>), front)
    BY <2>2, AlikeItself, AlikeAppendEmpty
  <2> QED BY <1>1, <2>2, <2>3, <2>4, AlikeSymmetric DEF e
<1>7. CASE iss # "ovpsim"
  <2>1. Written(e) \in Seq(Rows) /\ Alike(Written(e), e)
    BY <1>1, WrittenAlike
  <2>2. Converted(iss, l) = Written(e) \o IF n > 0 THEN <<<<>>>> ELSE <<>>
    BY <1>3, <1>5, <1>7
  <2>3. CASE n > 0
    <3>1. Converted(iss, l) = Append(Written(e), <<>>)
      BY <2>1, <2>2, <2>3, EmptySeq, AppendIsConcat DEF Rows
    <3> QED BY <1>1, <2>1, <3>1, AlikeAppendEmpty DEF e
  <2>4. CASE ~(n > 0)
    <3>1. Converted(iss, l) = Written(e)
      BY <2>1, <2>2, <2>4, ConcatEmptySeq
    <3> QED BY <1>1, <2>1, <3>1 DEF e
  <2> QED BY <2>3, <2>4
<1> QED BY <1>6, <1>7

\* What a verdict on two complete logs says of the executions.
LEMMA PassesExecutions ==
  ASSUME NEW c1 \in Seq(Rows), NEW c2 \in Seq(Rows), NEW e1 \in Seq(Rows), NEW e2 \in Seq(Rows),
         Alike(c1, e1), Alike(c2, e2)
  PROVE  /\ e1 = e2 => Passes(c1, c2)
         /\ ~SameChanges(e1, e2) => ~Passes(c1, c2)
<1>1. Alike(e1, c1) /\ Alike(e2, c2)
  BY AlikeSymmetric
<1>2. ASSUME e1 = e2 PROVE Passes(c1, c2)
  <2>1. SameChanges(e1, e2)
    BY <1>2, AlikeItself DEF Alike
  <2>2. SameChanges(c1, c2)
    BY <1>1, <2>1, AlikeTransfers
  <2>3. Rank(c1, Len(c1)) = Rank(c2, Len(c2))
    BY <1>2 DEF Alike
  <2> QED BY <2>2, <2>3 DEF Passes
<1>3. ASSUME Passes(c1, c2) PROVE SameChanges(e1, e2)
  <2>1. SameChanges(c1, c2)
    BY <1>3 DEF Passes
  <2> QED BY <2>1, AlikeTransfers
<1> QED BY <1>2, <1>3

LEMMA JudgedByExecutions ==
  ASSUME Ends, PhaseInv, ReportInv, ValuesInv, [Next]_vars, NEW j \in Jobs, Judged(j), ~Unsure(j),
         LogsOf(j)[1].prog = LogsOf(j)[2].prog,
         LogsOf(j)[1].rows = Len(Executed(IssList[1], LogsOf(j)[1].prog)),
         LogsOf(j)[2].rows = Len(Executed(IssList[2], LogsOf(j)[2].prog))
  PROVE  LET e1 == Executed(IssList[1], LogsOf(j)[1].prog)
             e2 == Executed(IssList[2], LogsOf(j)[2].prog)
             passed == report'[Len(report')].kind = "PASSED"
         IN  /\ e1 = e2 => passed
             /\ ~SameChanges(e1, e2) => ~passed
<1> DEFINE l1 == LogsOf(j)[1]
           l2 == LogsOf(j)[2]
<1>1. phase = "cmp" /\ todo # <<>> /\ j = Head(todo) /\ Len(report') > Len(report)
  BY DEF Judged
<1>2. report \in Seq(AllJudgements) /\ Len(report) \in Nat /\ ~(Len(report) > Len(report))
  <2>1. report \in Seq(AllJudgements)
    BY <1>1 DEF ReportInv, JudgedInOrder
  <2> QED BY <2>1, LenProperties
<1>3. IssCmp
  <2>1. report' # report
    BY <1>1, <1>2
  <2>2. phase = "cmp" /\ todo # <<>>
    BY <1>1
  <2>3. CASE NextStep
    BY <2>2, <2>3 DEF NextStep
  <2>4. CASE Interrupt \/ ChildGenerates \/ ChildSimulates \/ ChildEnds
    BY <2>1, <2>4 DEF Interrupt, ChildGenerates, ChildSimulates, ChildEnds, files
  <2> QED BY <2>1, <2>2, <2>3, <2>4
          DEF Next, vars, Invoke, RunDirected, Compile, DrawSeeds, GenerateBatch, SaveSeeds,
              GccCompile, IssSim, ClearReport, Summarise, Finish, files
<1>4. Readable(j) /\ report' = Append(report, Verdict(j, Compared(l1, l2)))
  <2>1. \/ /\ Readable(j)
           /\ \E passed \in BOOLEAN :
                /\ Unsure(j) \/ passed = Compared(l1, l2)
                /\ report' = Append(report, Verdict(j, passed))
        \/ report' = report
    BY <1>1, <1>3, Zenon DEF IssCmp
  <2> QED BY <1>1, <1>2, <2>1, Zenon
<1>5. report'[Len(report')] = Verdict(j, Compared(l1, l2))
  <2> DEFINE v == Verdict(j, Compared(l1, l2))
  <2>1. report' = Append(report, v)
    BY <1>4
  <2> HIDE DEF v
  <2>2. \E S : report \in Seq(S) /\ v \in S
    <3>1. report \in Seq(AllJudgements \cup {v})
      BY <1>2, SeqMonotonic
    <3> QED BY <3>1
  <2>3. Len(report') = Len(report) + 1 /\ report'[Len(report) + 1] = v
    BY <2>1, <2>2, AppendProperties
  <2> QED BY <2>3 DEF v
<1>6. report'[Len(report')].kind = "PASSED" <=> Passes(Converted(IssList[1], l1), Converted(IssList[2], l2))
  BY <1>5 DEF Verdict, Compared
<1>7. Len(IssList) = 2 /\ IssList[1] \in Sims /\ IssList[2] \in Sims
  <2>1. Len(IssList) = 2
    BY <1>1 DEF PhaseInv, CmpSteps, Comparing
  <2>2. DOMAIN IssList = 1 .. 2
    BY <2>1, OptionsAssumption, LenProperties
  <2> QED BY <2>1, <2>2 DEF Sims, Range
<1>8. /\ l1 = log[<<IssList[1], j>>] /\ l2 = log[<<IssList[2], j>>]
      /\ l1 # None /\ l2 # None /\ ~Unusable(IssList[1], l1) /\ ~Unusable(IssList[2], l2)
  <2>1. 1 \in 1 .. 2 /\ 2 \in 1 .. 2
    OBVIOUS
  <2> QED BY <1>4, <2>1 DEF Readable, Unsure, LogsOf
<1>9. /\ l1.prog = None \/ l1.prog \in Programs
      /\ l2.prog = None \/ l2.prog \in Programs
  <2>1. <<IssList[1], j>> \in Sims \X Jobs /\ <<IssList[2], j>> \in Sims \X Jobs
    BY <1>7
  <2> HIDE DEF l1, l2
  <2> QED BY <1>8, <2>1 DEF ValuesInv, FilesTyped, IsLog, FileOf, IsProgram
<1> HIDE DEF l1, l2
<1>10. /\ Converted(IssList[1], l1) \in Seq(Rows) /\ Executed(IssList[1], l1.prog) \in Seq(Rows)
       /\ Alike(Converted(IssList[1], l1), Executed(IssList[1], l1.prog))
  BY <1>7, <1>8, <1>9, ConvertedAlike DEF l1
<1>11. /\ Converted(IssList[2], l2) \in Seq(Rows) /\ Executed(IssList[2], l2.prog) \in Seq(Rows)
       /\ Alike(Converted(IssList[2], l2), Executed(IssList[2], l2.prog))
  BY <1>7, <1>8, <1>9, ConvertedAlike DEF l2
<1> QED BY <1>6, <1>10, <1>11, PassesExecutions DEF l1, l2

(* On complete logs of one program equal executions pass, and executions that *)
(* change the registers differently fail: neither the rows the converters     *)
(* drop nor leftover files of other programs decide a verdict.                *)
THEOREM VerdictsOfExecutions ==
  ASSUME Ends
  PROVE  Spec => VerdictOfExecutions
<1> DEFINE A == \A j \in Jobs :
                  LET l1 == LogsOf(j)[1]
                      l2 == LogsOf(j)[2]
                      e1 == Executed(IssList[1], l1.prog)
                      e2 == Executed(IssList[2], l2.prog)
                      passed == report'[Len(report')].kind = "PASSED"
                  IN  Judged(j) /\ ~Unsure(j) /\ l1.prog = l2.prog
                        /\ l1.rows = Len(e1) /\ l2.rows = Len(e2) =>
                        /\ e1 = e2 => passed
                        /\ ~SameChanges(e1, e2) => ~passed
           I == PhaseInv /\ ReportInv /\ FilesInv /\ ChildrenInv /\ ValuesInv
<1>1. Init => I
  BY InitReport, InitFiles, InitValues
<1>2. I /\ [Next]_vars => I'
  BY PhaseStep, ReportStep, FilesStep, ValuesStep
<1>3. I /\ [Next]_vars => A
  BY JudgedByExecutions
<1> HIDE DEF A, I
<1>4. Spec => [][A]_vars
  BY <1>1, <1>2, <1>3, PTL DEF Spec
<1> QED BY <1>4 DEF A, VerdictOfExecutions
=============================================================================
