----------------------------- MODULE CoverPoints -----------------------------
(***************************************************************************)
(* The points and bins of the coverage model of the random instruction     *)
(* generator (riscv_instr_cover_group.py).  A point reads one field of the *)
(* instruction that is sampled and sorts its value into bins.  A point     *)
(* without a name of its own is called like its field (the source writes   *)
(* cp_<field>).  Values are numbers, as the members of the source's        *)
(* IntEnums are: a value falls in the bin that has its number, whatever    *)
(* the bin is called.                                                      *)
(***************************************************************************)
EXTENDS Integers, Sequences

\* The enumerations of riscv_instr_pkg.py and riscv_cov_instr.py that serve as bins.
riscv_reg_t ==
  [ZERO |-> 0, RA |-> 1, SP |-> 2, GP |-> 3, TP |-> 4, T0 |-> 5, T1 |-> 6, T2 |-> 7,
   S0 |-> 8, S1 |-> 9, A0 |-> 10, A1 |-> 11, A2 |-> 12, A3 |-> 13, A4 |-> 14, A5 |-> 15,
   A6 |-> 16, A7 |-> 17, S2 |-> 18, S3 |-> 19, S4 |-> 20, S5 |-> 21, S6 |-> 22, S7 |-> 23,
   S8 |-> 24, S9 |-> 25, S10 |-> 26, S11 |-> 27, T3 |-> 28, T4 |-> 29, T5 |-> 30, T6 |-> 31]
riscv_fpr_t ==
  [FT0 |-> 0, FT1 |-> 1, FT2 |-> 2, FT3 |-> 3, FT4 |-> 4, FT5 |-> 5, FT6 |-> 6, FT7 |-> 7,
   FS0 |-> 8, FS1 |-> 9, FA0 |-> 10, FA1 |-> 11, FA2 |-> 12, FA3 |-> 13, FA4 |-> 14,
   FA5 |-> 15, FA6 |-> 16, FA7 |-> 17, FS2 |-> 18, FS3 |-> 19, FS4 |-> 20, FS5 |-> 21,
   FS6 |-> 22, FS7 |-> 23, FS8 |-> 24, FS9 |-> 25, FS10 |-> 26, FS11 |-> 27, FT8 |-> 28,
   FT9 |-> 29, FT10 |-> 30, FT11 |-> 31]
Members(enum, names) == [n \in names |-> enum[n]]
compressed_gpr == Members(riscv_reg_t, {"S0", "S1", "A0", "A1", "A2", "A3", "A4", "A5"})
riscv_reg_ex_zero_sp_t ==
  Members(riscv_reg_t, DOMAIN riscv_reg_t \ {"ZERO", "SP"})
riscv_reg_ex_zero_t == Members(riscv_reg_t, DOMAIN riscv_reg_t \ {"ZERO"})
jalr_riscv_reg_t == [RA |-> 0, T1 |-> 1]
hazard_e == [NO_HAZARD |-> 0, RAW_HAZARD |-> 1, WAR_HAZARD |-> 2, WAW_HAZARD |-> 3]
branch_hazard_e == [NO_HAZARD |-> 0, RAW_HAZARD |-> 1]
store_lsu_hazard_e == [NO_HAZARD |-> 0, WAR_HAZARD |-> 1, WAW_HAZARD |-> 2]
rv32i_misc_instrs ==
  [FENCE |-> 0, FENCE_I |-> 1, EBREAK |-> 2, ECALL |-> 3, MRET |-> 4]
operand_sign_e == [POSITIVE |-> 0, NEGATIVE |-> 1]
div_result_e == [DIV_NORMAL |-> 0, DIV_BY_ZERO |-> 1, DIV_OVERFLOW |-> 2]
div_result_ex_overflow_e == [DIV_NORMAL |-> 0, DIV_BY_ZERO |-> 1]
logical_similarity_e == [IDENTICAL |-> 0, OPPOSITE |-> 1, SIMILAR |-> 2, DIFFERENT |-> 3]
Flag == [Unset |-> 0, Set |-> 1]
LowBits == [Zero |-> 0, One |-> 1, Two |-> 2, Three |-> 3]
EvenLowBits == [Zero |-> 0, Two |-> 2]
\* Bins that are ranges or bit patterns; the values inside are not told apart.
Patterns(names) == [n \in names |-> 0]
-----------------------------------------------------------------------------
\* A point that reads a field under another name, and the points that read the
\* fields under their own names.
At(point, field, bins) == [point |-> point, field |-> field, bins |-> bins, weight |-> 1]
On(fields, bins) == {At(f, f, bins) : f \in fields}
Signs(fields) == On(fields, operand_sign_e)
Hazard == On({"gpr_hazard"}, hazard_e)
\* A cross reads no field: its bins are the combinations of the crossed points.
Cross(name, points) == {At(name, "cross", Patterns(points))}
SignCross(points) == Cross("sign_cross", points)
Matching(patterns) == {At(p, "binary", Patterns({p})) : p \in patterns}

\* The special and the subnormal values of a floating-point operand, once read
\* as single and once as double precision.  precision is 1 for single: the
\* points of the other precision get weight 0 and do not count.  The source adds the
\* name of the operand to that of the point; here it is the point's field.
SinglePoints == {"sfp_special_values_on", "sfp_subnormal_on"}
DoublePoints == {"dfp_special_values_on", "dfp_subnormal_on"}
FpPoints(fields, points, weight) ==
  {[point |-> k, field |-> f, weight |-> weight,
    bins |-> Patterns({"infinity", "largest", "zeros", "NaN"})] : f \in fields, k \in points}
\* Mutant: the weights of the two precisions swapped.
FpValues_Swapped(fields, precision) ==
  FpPoints(fields, SinglePoints, 1 - precision) \cup FpPoints(fields, DoublePoints, precision)
FpValues(fields, precision) ==
  FpPoints(fields, SinglePoints, precision) \cup FpPoints(fields, DoublePoints, 1 - precision)
FpValuesOfBoth(fields) == FpPoints(fields, SinglePoints \cup DoublePoints, 1)
=============================================================================
