------------------------------ MODULE TraceRows ------------------------------
(* Instruction traces as instr_trace_compare.py reads them: a trace is a      *)
(* sequence of rows, one per instruction, and a row lists the register        *)
(* writes <<register, value>> of the instruction.  A row counts only when it  *)
(* changes a register; the definitions below say which rows those are without *)
(* walking through the trace, so that they can judge the walk of              *)
(* TraceCompare.                                                              *)
EXTENDS Naturals, Sequences, FiniteSets

CONSTANTS Regs,     \* register names
          Values    \* values a trace may hold; registers start at 0

ASSUME ValuesAssumption == 0 \in Values

Rows == Seq(Regs \X Values)

Latest(S) == CHOOSE n \in S : \A m \in S : m =< n

(* The registers after the first k writes of a row.  The code has no entry    *)
(* for a register never written, and a first write of 0 is no change to it:   *)
(* it might as well hold 0.                                                   *)
AfterWrites(row, k, gpr) ==
  [r \in Regs |-> LET W == {n \in 1..k : row[n][1] = r}
                  IN  IF W = {} THEN gpr[r] ELSE row[Latest(W)][2]]

Updated(row, gpr) == AfterWrites(row, Len(row), gpr)

(* One of the row's writes finds another value in its register.               *)
Changes(row, gpr) ==
  \E k \in DOMAIN row : row[k][2] # AfterWrites(row, k - 1, gpr)[row[k][1]]

-----------------------------------------------------------------------------
(* The register file as row n finds it: each register holds the value its     *)
(* latest earlier write left.                                                 *)
Writers(t, n, r) == {m \in 1..(n - 1) : \E k \in DOMAIN t[m] : t[m][k][1] = r}

Zero == [r \in Regs |-> 0]

Before(t, n) ==
  [r \in Regs |-> LET W == Writers(t, n, r)
                  IN  IF W = {} THEN 0 ELSE Updated(t[Latest(W)], Zero)[r]]

ChangedRows(t) == {n \in DOMAIN t : Changes(t[n], Before(t, n))}

(* How many rows among the first n change a register.                         *)
Rank(t, n) == Cardinality(ChangedRows(t) \cap 1..n)

(* Traces agree as far as both go: the k-th change of one is the k-th change  *)
(* of the other.                                                              *)
SameChanges(t1, t2) ==
  \A n1 \in ChangedRows(t1), n2 \in ChangedRows(t2) :
    Rank(t1, n1) = Rank(t2, n2) => t1[n1] = t2[n2]

(* Which pairs of traces the comparison passes.  It is not symmetric: a       *)
(* second trace that stops short passes when its last row is a change.        *)
Passes(t1, t2) ==
  LET total1 == Rank(t1, Len(t1))
      total2 == Rank(t2, Len(t2))
  IN  /\ SameChanges(t1, t2)
      /\ \/ total1 = total2
         \/ total2 < total1 /\ Len(t2) \in ChangedRows(t2)
==============================================================================
