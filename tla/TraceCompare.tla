---------------------------- MODULE TraceCompare -----------------------------
(* compare_trace_csv of instr_trace_compare.py, in the in-order mode run.py   *)
(* uses: for every row of trace 1 that changes a register the next such row   *)
(* of trace 2 is looked up, and the two rows must list the same writes.       *)
EXTENDS TraceRows

CONSTANT Traces

ASSUME TracesAssumption == Traces \subseteq Seq(Rows)

VARIABLES t1, t2,                 \* instr_trace_1, instr_trace_2
          i1, i2,                 \* trace_1_index, trace_2_index
          gpr1, gpr2,             \* gpr_val_1, gpr_val_2
          matched_cnt, mismatch_cnt,
          loop                    \* which loop runs

compareVars == <<t1, t2, i1, i2, gpr1, gpr2, matched_cnt, mismatch_cnt, loop>>

CompareInit ==
  /\ t1 \in Traces /\ t2 \in Traces
  /\ i1 = 0 /\ i2 = 0
  /\ gpr1 = Zero /\ gpr2 = Zero
  /\ matched_cnt = 0 /\ mismatch_cnt = 0
  /\ loop = "next"

(* The outer loop: the next row of trace 1, skipped when it changes nothing.  *)
NextRow ==
  /\ loop = "next"
  /\ i1 < Len(t1)
  /\ i1' = i1 + 1
  /\ gpr1' = Updated(t1[i1'], gpr1)
  /\ loop' = IF Changes(t1[i1'], gpr1) THEN "seek" ELSE "next"
  /\ UNCHANGED <<t1, t2, i2, gpr2, matched_cnt, mismatch_cnt>>

(* Mutant: both traces are walked with one register file.                     *)
SeekRowOneState ==
  /\ loop = "seek"
  /\ i2 < Len(t2)
  /\ i2' = i2 + 1
  /\ gpr2' = Updated(t2[i2'], gpr1)
  /\ LET changed == Changes(t2[i2'], gpr1)
         same    == t1[i1] = t2[i2']
     IN  /\ matched_cnt' = IF changed /\ same THEN matched_cnt + 1 ELSE matched_cnt
         /\ mismatch_cnt' = IF changed /\ ~same THEN mismatch_cnt + 1 ELSE mismatch_cnt
         /\ loop' = IF ~changed THEN "seek"
                     ELSE IF i2' = Len(t2) THEN "done" ELSE "next"
  /\ UNCHANGED <<t1, t2, i1, gpr1>>

(* The inner loop: move trace 2 forward until one of its rows changes a       *)
(* register and compare the writes.  The outer loop ends with trace 2.        *)
SeekRow ==
  /\ loop = "seek"
  /\ i2 < Len(t2)
  /\ i2' = i2 + 1
  /\ gpr2' = Updated(t2[i2'], gpr2)
  /\ LET changed == Changes(t2[i2'], gpr2)
         same    == t1[i1] = t2[i2']
     IN  /\ matched_cnt' = IF changed /\ same THEN matched_cnt + 1 ELSE matched_cnt
         /\ mismatch_cnt' = IF changed /\ ~same THEN mismatch_cnt + 1 ELSE mismatch_cnt
         /\ loop' = IF ~changed THEN "seek"
                     ELSE IF i2' = Len(t2) THEN "done" ELSE "next"
  /\ UNCHANGED <<t1, t2, i1, gpr1>>

(* Trace 2 has no change left for this row.                                   *)
SeekEnd ==
  /\ loop = "seek"
  /\ i2 = Len(t2)
  /\ mismatch_cnt' = mismatch_cnt + 1
  /\ loop' = "done"
  /\ UNCHANGED <<t1, t2, i1, i2, gpr1, gpr2, matched_cnt>>

LoopEnd ==
  /\ loop = "next"
  /\ i1 = Len(t1)
  /\ loop' = "rest"
  /\ UNCHANGED <<t1, t2, i1, i2, gpr1, gpr2, matched_cnt, mismatch_cnt>>

(* A change left in trace 2 fails the comparison: every row from it on is     *)
(* counted.                                                                   *)
RestRow ==
  /\ loop = "rest"
  /\ i2 < Len(t2)
  /\ gpr2' = Updated(t2[i2 + 1], gpr2)
  /\ IF Changes(t2[i2 + 1], gpr2)
     THEN /\ mismatch_cnt' = mismatch_cnt + (Len(t2) - i2)
          /\ loop' = "done"
          /\ UNCHANGED i2
     ELSE /\ i2' = i2 + 1
          /\ UNCHANGED <<mismatch_cnt, loop>>
  /\ UNCHANGED <<t1, t2, i1, gpr1, matched_cnt>>

RestEnd ==
  /\ loop = "rest"
  /\ i2 = Len(t2)
  /\ loop' = "done"
  /\ UNCHANGED <<t1, t2, i1, i2, gpr1, gpr2, matched_cnt, mismatch_cnt>>

CompareNext == NextRow \/ SeekRow \/ SeekEnd \/ LoopEnd \/ RestRow \/ RestEnd

CompareSpec == CompareInit /\ [][CompareNext]_compareVars

-----------------------------------------------------------------------------
CompareTypeOK ==
  /\ t1 \in Traces /\ t2 \in Traces
  /\ i1 \in 0..Len(t1) /\ i2 \in 0..Len(t2)
  /\ gpr1 \in [Regs -> Values] /\ gpr2 \in [Regs -> Values]
  /\ matched_cnt \in Nat /\ mismatch_cnt \in Nat
  /\ loop \in {"next", "seek", "rest", "done"}

(* The verdict ([PASSED] when no mismatch was counted) is that of the         *)
(* definition, which looks at both traces as a whole: the walk skips, pairs   *)
(* and drops no row wrongly, and a pass matches every change of trace 2.      *)
VerdictExact ==
  loop = "done" =>
    /\ mismatch_cnt = 0 <=> Passes(t1, t2)
    /\ mismatch_cnt = 0 => matched_cnt = Rank(t2, Len(t2))
==============================================================================
