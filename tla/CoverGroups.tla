----------------------------- MODULE CoverGroups -----------------------------
(***************************************************************************)
(* The functional coverage model: the covergroups of                       *)
(* riscv_instr_cover_group.py, one per format and one per instruction.  A  *)
(* covergroup is a set of points.                                          *)
(***************************************************************************)
EXTENDS CoverPoints

-----------------------------------------------------------------------------
\* The covergroups of the instruction formats.

r_instr_cg ==
  On({"rs1", "rs2", "rd"}, riscv_reg_t) \cup Signs({"rs1_sign", "rs2_sign", "rd_sign"})
    \cup Hazard
i_instr_cg ==
  On({"rs1", "rd"}, riscv_reg_t) \cup Signs({"rs1_sign", "rd_sign", "imm_sign"}) \cup Hazard
u_instr_cg == On({"rd"}, riscv_reg_t) \cup Signs({"rd_sign"}) \cup Hazard
cmp_instr_cg ==
  On({"rs1", "rd"}, riscv_reg_t) \cup Signs({"rs1_sign"}) \cup Hazard
    \cup {At("result", "rd_value", Flag)}
sb_instr_cg ==
  On({"rs1", "rs2"}, riscv_reg_t) \cup Signs({"rs1_sign", "rs2_sign", "imm_sign"})
    \cup On({"gpr_hazard"}, branch_hazard_e) \cup {At("branch_hit", "branch_hit", Flag)}
    \cup SignCross({"rs1_sign", "rs2_sign"})
j_instr_cg ==
  Signs({"imm_sign"}) \cup On({"rd"}, riscv_reg_t) \cup {At("rd_align", "rd_value", Flag)}
load_instr_cg ==
  On({"rs1"}, riscv_reg_ex_zero_t) \cup On({"rd"}, riscv_reg_t) \cup Signs({"imm_sign"})
    \cup Hazard \cup {At("lsu_hazard", "gpr_hazard", branch_hazard_e)}
store_instr_cg ==
  On({"rs1"}, riscv_reg_ex_zero_t) \cup On({"rs2"}, riscv_reg_t) \cup Signs({"imm_sign"})
    \cup On({"gpr_hazard"}, branch_hazard_e) \cup On({"lsu_hazard"}, store_lsu_hazard_e)

\* Points that several covergroups have in common.
ShiftImm == Hazard \cup On({"rd", "rs1"}, riscv_reg_t) \cup Signs({"rd_sign", "rs1_sign"})
FpLoad(precision) ==
  On({"fd"}, riscv_fpr_t) \cup Hazard \cup Signs({"imm_sign"})
    \cup On({"lsu_hazard"}, branch_hazard_e) \cup On({"rs1"}, riscv_reg_ex_zero_t)
    \cup FpValues({"fd_value"}, precision)
FpStore(precision) ==
  On({"fs2"}, riscv_reg_t) \cup Hazard \cup Signs({"imm_sign"})
    \cup On({"lsu_hazard"}, store_lsu_hazard_e) \cup On({"rs1"}, riscv_reg_ex_zero_t)
    \cup FpValues({"fs2_value"}, precision)
IntToFp ==
  On({"fd"}, riscv_fpr_t) \cup Signs({"fd_sign", "rs1_sign"}) \cup Hazard
    \cup On({"rs1"}, riscv_reg_t)
FpToInt == On({"fs1", "rd"}, riscv_reg_t) \cup Signs({"fs1_sign", "rd_sign"}) \cup Hazard
FpConvert == On({"fd", "fs1"}, riscv_fpr_t) \cup Signs({"fd_sign", "fs1_sign"}) \cup Hazard
FpBinary(precision) ==
  On({"fd", "fs1", "fs2"}, riscv_fpr_t) \cup Signs({"fd_sign", "fs1_sign", "fs2_sign"})
    \cup Hazard \cup FpValues({"fd_value", "fs1_value", "fs2_value"}, precision)
FpFused(precision) ==
  On({"fd", "fs1", "fs2", "fs3"}, riscv_fpr_t)
    \cup Signs({"fd_sign", "fs1_sign", "fs2_sign", "fs3_sign"}) \cup Hazard
    \cup SignCross({"fs1_sign", "fs2_sign", "fs3_sign", "fd_sign"})
    \cup FpValues({"fd_value", "fs1_value", "fs2_value", "fs3_value"}, precision)
FpCompare(precision) ==
  On({"fs1", "fs2", "rd"}, riscv_reg_t) \cup Signs({"fs1_sign", "fs2_sign"}) \cup Hazard
    \cup FpValues({"fs1_value", "fs2_value"}, precision)
CompressedRR == Hazard \cup On({"rd", "rs2"}, compressed_gpr)
CompressedLoad ==
  Hazard \cup On({"lsu_hazard"}, branch_hazard_e) \cup On({"rd", "rs1"}, compressed_gpr)
CompressedStore ==
  On({"gpr_hazard"}, branch_hazard_e) \cup On({"lsu_hazard"}, store_lsu_hazard_e)
    \cup On({"rs1", "rs2"}, compressed_gpr)
CompressedImm == On({"gpr_hazard"}, store_lsu_hazard_e) \cup Signs({"imm_sign"})
-----------------------------------------------------------------------------
\* One covergroup per instruction, in the order of the source.
mulw_cg == r_instr_cg \cup SignCross({"rs1_sign", "rs2_sign"})
divw_cg ==
  r_instr_cg \cup On({"div_result"}, div_result_e)
    \cup SignCross({"rs1_sign", "rs2_sign", "rd_sign"})
divuw_cg ==
  r_instr_cg \cup On({"div_result"}, div_result_e)
    \cup SignCross({"rs1_sign", "rs2_sign", "rd_sign"})
remw_cg ==
  r_instr_cg \cup On({"div_result"}, div_result_e) \cup SignCross({"rs1_sign", "rs2_sign"})
remuw_cg ==
  r_instr_cg \cup On({"div_result"}, div_result_e) \cup SignCross({"rs1_sign", "rs2_sign"})
c_ld_cg == CompressedLoad
c_ldsp_cg == On({"rd"}, compressed_gpr)
c_sd_cg == CompressedStore
c_sdsp_cg == On({"rs2"}, compressed_gpr)
c_addiw_cg == CompressedImm \cup On({"rd"}, riscv_reg_ex_zero_t)
c_subw_cg == CompressedRR
c_addw_cg == CompressedRR
lwu_cg == load_instr_cg
ld_cg == load_instr_cg
sd_cg == store_instr_cg
sraw_cg == r_instr_cg \cup SignCross({"rs1_sign", "rs2_sign", "rd_sign"})
sllw_cg == r_instr_cg \cup SignCross({"rs1_sign", "rs2_sign", "rd_sign"})
srlw_cg == r_instr_cg \cup SignCross({"rs1_sign", "rs2_sign"})
srai64_cg == CompressedImm
slli64_cg == CompressedImm
srli64_cg == CompressedImm
sraiw_cg == ShiftImm
slliw_cg == ShiftImm
srliw_cg == ShiftImm
addw_cg == r_instr_cg \cup SignCross({"rs1_sign", "rs2_sign", "rd_sign"})
subw_cg == r_instr_cg \cup SignCross({"rs1_sign", "rs2_sign", "rd_sign"})
addiw_cg ==
  i_instr_cg \cup {At("logical", "logical_similarity", logical_similarity_e)}
    \cup SignCross({"rs1_sign", "imm_sign"})
lb_cg == load_instr_cg
lh_cg == load_instr_cg \cup {At("align", "unaligned_mem_access", Flag)}
lw_cg == load_instr_cg \cup {At("align", "unaligned_mem_access", Flag)}
lbu_cg == load_instr_cg
lhu_cg == load_instr_cg \cup {At("align", "unaligned_mem_access", Flag)}
sb_cg == store_instr_cg
sh_cg == store_instr_cg \cup {At("misalign", "unaligned_mem_access", Flag)}
sw_cg == store_instr_cg \cup {At("misalign", "unaligned_mem_access", Flag)}
sll_cg == r_instr_cg \cup SignCross({"rs1_sign", "rs2_sign"})
slli_cg == ShiftImm
srl_cg == r_instr_cg \cup SignCross({"rs1_sign", "rs2_sign"})
srli_cg == ShiftImm
sra_cg == r_instr_cg \cup SignCross({"rs1_sign", "rs2_sign"})
srai_cg == ShiftImm
add_cg == r_instr_cg \cup SignCross({"rs1_sign", "rs2_sign", "rd_sign"})
addi_cg ==
  On({"rs1"}, riscv_reg_t) \cup On({"rd"}, riscv_reg_ex_zero_t)
    \cup Signs({"rs1_sign", "rd_sign", "imm_sign"}) \cup Hazard
    \cup SignCross({"rs1_sign", "imm_sign", "rd_sign"})
sub_cg == r_instr_cg \cup SignCross({"rs1_sign", "rs2_sign", "rd_sign"})
lui_cg == u_instr_cg
auipc_cg == u_instr_cg
xor_cg ==
  r_instr_cg \cup {At("logical", "logical_similarity", logical_similarity_e)}
    \cup SignCross({"rs1_sign", "rs2_sign"})
xori_cg ==
  i_instr_cg \cup {At("logical", "logical_similarity", logical_similarity_e)}
    \cup SignCross({"rs1_sign", "imm_sign"})
or_cg ==
  r_instr_cg \cup {At("logical", "logical_similarity", logical_similarity_e)}
    \cup SignCross({"rs1_sign", "rs2_sign"})
ori_cg ==
  i_instr_cg \cup {At("logical", "logical_similarity", logical_similarity_e)}
    \cup SignCross({"rs1_sign", "imm_sign"})
and_cg ==
  r_instr_cg \cup {At("logical", "logical_similarity", logical_similarity_e)}
    \cup SignCross({"rs1_sign", "rs2_sign"})
andi_cg ==
  i_instr_cg \cup {At("logical", "logical_similarity", logical_similarity_e)}
    \cup SignCross({"rs1_sign", "imm_sign"})
slt_cg ==
  cmp_instr_cg \cup On({"rs2"}, riscv_reg_t) \cup Signs({"rs2_sign"})
    \cup SignCross({"rs1_sign", "rs2_sign"})
slti_cg == cmp_instr_cg \cup Signs({"imm_sign"}) \cup SignCross({"rs1_sign", "imm_sign"})
sltu_cg ==
  cmp_instr_cg \cup On({"rs2"}, riscv_reg_t) \cup Signs({"rs2_sign"})
    \cup SignCross({"rs1_sign", "rs2_sign"})
sltiu_cg == cmp_instr_cg \cup Signs({"imm_sign"}) \cup SignCross({"rs1_sign", "imm_sign"})
beq_cg == sb_instr_cg
bne_cg == sb_instr_cg
blt_cg == sb_instr_cg
bge_cg == sb_instr_cg
bltu_cg == sb_instr_cg
bgeu_cg == sb_instr_cg
jal_cg == j_instr_cg \cup {At("imm_align", "imm", Flag)}
jalr_cg ==
  j_instr_cg
    \cup {At("rs1_link", "rs1", jalr_riscv_reg_t), At("rd_link", "rd", jalr_riscv_reg_t), At("imm_align", "imm", LowBits), At("rs1_align", "rs1_value", LowBits)}
    \cup Cross("align", {"imm_align", "rs1_align"}) \cup Cross("ras", {"rs1_link", "rd_link"})
mul_cg == r_instr_cg \cup SignCross({"rs1_sign", "rs2_sign", "rd_sign"})
mulh_cg == r_instr_cg \cup SignCross({"rs1_sign", "rs2_sign", "rd_sign"})
mulhsu_cg == r_instr_cg \cup SignCross({"rs1_sign", "rs2_sign", "rd_sign"})
mulhu_cg == r_instr_cg \cup SignCross({"rs1_sign", "rs2_sign", "rd_sign"})
div_cg ==
  r_instr_cg \cup On({"div_result"}, div_result_e)
    \cup SignCross({"rs1_sign", "rs2_sign", "rd_sign"})
divu_cg ==
  r_instr_cg \cup On({"div_result"}, div_result_ex_overflow_e)
    \cup SignCross({"rs1_sign", "rs2_sign", "rd_sign"})
rem_cg ==
  r_instr_cg \cup On({"div_result"}, div_result_e)
    \cup SignCross({"rs1_sign", "rs2_sign", "rd_sign"})
remu_cg ==
  r_instr_cg \cup On({"div_result"}, div_result_ex_overflow_e)
    \cup SignCross({"rs1_sign", "rs2_sign", "rd_sign"})
csrrw_cg == On({"rd", "rs1"}, riscv_reg_t) \cup Hazard
opcode_cg == {At("opcode", "binary", Patterns({"a"}))}
rv32i_misc_cg == {At("misc", "instr", rv32i_misc_instrs)}
mepc_alignment_cg == {At("align", "rd_value", EvenLowBits)}
hint_cg == Matching({"addi", "li", "lui", "srli64", "srai64", "slli", "slli64", "mv", "add"})
illegal_compressed_instr_cg ==

    Matching({"c_illegal", "c_addi4spn", "c_addiw", "c_addi16sp", "c_lui", "c_reserv_0", "c_reserv_1", "c_jr", "c_lwsp", "c_lqsp", "c_ldsp"})
c_lw_cg == CompressedLoad
c_lwsp_cg == On({"rd"}, compressed_gpr)
c_sw_cg == CompressedStore
c_swsp_cg == On({"rs2"}, compressed_gpr)
c_addi4spn_cg == On({"rd"}, compressed_gpr) \cup On({"gpr_hazard"}, store_lsu_hazard_e)
c_addi_cg == CompressedImm \cup On({"rd"}, riscv_reg_ex_zero_t)
c_addi16sp_cg == CompressedImm
c_li_cg == CompressedImm \cup On({"rd"}, riscv_reg_ex_zero_t)
c_lui_cg == On({"rd"}, riscv_reg_ex_zero_sp_t)
c_sub_cg == CompressedRR
c_add_cg == On({"rs2", "rd"}, riscv_reg_ex_zero_t) \cup Signs({"rs2_sign"}) \cup Hazard
c_mv_cg == On({"rs2", "rd"}, riscv_reg_ex_zero_t) \cup Signs({"rs2_sign"}) \cup Hazard
c_andi_cg ==
  On({"rs1"}, compressed_gpr) \cup On({"gpr_hazard"}, branch_hazard_e) \cup Signs({"imm_sign"})
c_xor_cg == CompressedRR
c_or_cg == CompressedRR
c_and_cg == CompressedRR
c_beqz_cg ==
  On({"rs1"}, compressed_gpr) \cup On({"gpr_hazard"}, branch_hazard_e) \cup Signs({"imm_sign"})
c_bnez_cg ==
  On({"rs1"}, compressed_gpr) \cup On({"gpr_hazard"}, branch_hazard_e) \cup Signs({"imm_sign"})
c_srli_cg == On({"rs1"}, compressed_gpr) \cup On({"gpr_hazard"}, branch_hazard_e)
c_srai_cg == On({"rs1"}, compressed_gpr) \cup On({"gpr_hazard"}, branch_hazard_e)
c_slli_cg == On({"rd"}, riscv_reg_ex_zero_t) \cup On({"gpr_hazard"}, branch_hazard_e)
c_j_cg == Signs({"imm_sign"})
c_jal_cg == Signs({"imm_sign"})
c_jr_cg == On({"rs1"}, riscv_reg_ex_zero_t) \cup {At("rs1_align", "rs1_value", LowBits)}
c_jalr_cg ==
  On({"rs1"}, riscv_reg_ex_zero_t)
    \cup {At("rs1_align", "rs1_value", LowBits), At("rd_align", "rd_value", Flag)}
flw_cg(precision) == FpLoad(precision)
fld_cg(precision) == FpLoad(precision)
fsw_cg(precision) == FpStore(precision)
fsd_cg(precision) == FpStore(precision)
fadd_s_cg(precision) == FpBinary(precision)
fadd_d_cg(precision) == FpBinary(precision) \cup SignCross({"fs1_sign", "fs2_sign", "fd_sign"})
fsub_s_cg(precision) == FpBinary(precision) \cup SignCross({"fs1_sign", "fs2_sign", "fd_sign"})
fsub_d_cg(precision) == FpBinary(precision) \cup SignCross({"fs1_sign", "fs2_sign", "fd_sign"})
fmul_s_cg(precision) == FpBinary(precision) \cup SignCross({"fs1_sign", "fs2_sign"})
fmul_d_cg(precision) == FpBinary(precision) \cup SignCross({"fs1_sign", "fs2_sign"})
fdiv_s_cg(precision) == FpBinary(precision) \cup SignCross({"fs1_sign", "fs2_sign"})
fdiv_d_cg(precision) == FpBinary(precision) \cup SignCross({"fs1_sign", "fs2_sign"})
fsqrt_s_cg(precision) == FpConvert \cup FpValues({"fs1_value", "fd_value"}, precision)
fsqrt_d_cg(precision) == FpConvert \cup FpValues({"fs1_value", "fd_value"}, precision)
fmin_s_cg(precision) == FpBinary(precision) \cup SignCross({"fs1_sign", "fs2_sign"})
fmin_d_cg(precision) == FpBinary(precision) \cup SignCross({"fs1_sign", "fs2_sign"})
fmax_s_cg(precision) == FpBinary(precision) \cup SignCross({"fs1_sign", "fs2_sign"})
fmax_d_cg(precision) == FpBinary(precision) \cup SignCross({"fs1_sign", "fs2_sign"})
fmadd_s_cg(precision) == FpFused(precision)
fmadd_d_cg(precision) == FpFused(precision)
fnmadd_s_cg(precision) == FpFused(precision)
fnmadd_d_cg(precision) ==
  On({"fs1", "fs2", "fs3"}, riscv_fpr_t) \cup On({"fd"}, riscv_reg_t)
    \cup Signs({"fs1_sign", "fs2_sign", "fs3_sign", "fd_sign"}) \cup Hazard
    \cup FpValues({"fs1_value", "fs2_value", "fs3_value", "fd_value"}, precision)
fmsub_s_cg(precision) == FpFused(precision)
fmsub_d_cg(precision) == FpFused(precision)
fnmsub_s_cg(precision) == FpFused(precision)
fnmsub_d_cg(precision) == FpFused(precision)
fcvt_s_d_cg == FpConvert \cup FpValuesOfBoth({"fd_value"})
fcvt_d_s_cg == FpConvert \cup FpValuesOfBoth({"fd_value"})
fcvt_w_s_cg(precision) == FpToInt \cup FpValues({"fs1_value"}, precision)
fcvt_wu_s_cg(precision) == FpToInt \cup FpValues({"fs1_value"}, precision)
fcvt_l_s_cg == FpToInt \cup FpValuesOfBoth({"fs1_value"})
fcvt_lu_s_cg == FpToInt \cup FpValuesOfBoth({"fs1_value"})
fcvt_l_d_cg == FpToInt \cup FpValuesOfBoth({"fd_value"})
fcvt_lu_d_cg == FpToInt \cup FpValuesOfBoth({"fd_value"})
fcvt_w_d_cg(precision) == FpToInt \cup FpValues({"fs1_value"}, precision)
fcvt_wu_d_cg(precision) == FpToInt \cup FpValues({"fs1_value"}, precision)
fcvt_s_w_cg == IntToFp
fcvt_s_wu_cg == IntToFp
fcvt_s_l_cg == IntToFp
fcvt_d_l_cg == IntToFp \cup FpValuesOfBoth({"fd_value"})
fcvt_s_lu_cg == IntToFp
fcvt_d_w_cg == IntToFp
fcvt_d_lu_cg ==
  On({"rs1", "fd"}, riscv_reg_t) \cup Signs({"rs1_sign", "fd_sign"}) \cup Hazard
    \cup FpValuesOfBoth({"fd_value"})
fcvt_d_wu_cg == IntToFp
fsgnj_s_cg(precision) == FpBinary(precision) \cup SignCross({"fs1_sign", "fs2_sign", "fd_sign"})
fsgnj_d_cg(precision) == FpBinary(precision) \cup SignCross({"fs1_sign", "fs2_sign", "fd_sign"})
fsgnjn_s_cg(precision) == FpBinary(precision) \cup SignCross({"fs1_sign", "fs2_sign", "fd_sign"})
fsgnjn_d_cg(precision) == FpBinary(precision) \cup SignCross({"fs1_sign", "fs2_sign", "fd_sign"})
fsgnjx_s_cg(precision) == FpBinary(precision)
fsgnjx_d_cg(precision) == FpBinary(precision) \cup SignCross({"fs1_sign", "fs2_sign", "fd_sign"})
fmv_x_w_cg(precision) == FpToInt \cup FpValues({"fs1_value"}, precision)
fmv_x_d_cg == FpToInt \cup FpValuesOfBoth({"fs1_value"})
fmv_w_x_cg == IntToFp
fmv_d_x_cg == IntToFp
feq_s_cg(precision) == FpCompare(precision)
feq_d_cg(precision) == FpCompare(precision)
flt_s_cg(precision) == FpCompare(precision)
flt_d_cg(precision) == FpCompare(precision)
fle_s_cg(precision) == FpCompare(precision)
fle_d_cg(precision) == FpCompare(precision)
fclass_s_cg(precision) ==
  On({"fs1", "rd"}, riscv_reg_t) \cup Signs({"fs1_sign", "rd_value"}) \cup Hazard
    \cup FpValues({"fs1_value"}, precision)
fclass_d_cg(precision) ==
  On({"fs1", "rd"}, riscv_reg_t) \cup Signs({"fs1_sign", "rd_value"}) \cup Hazard
    \cup FpValues({"fs1_value"}, precision)
-----------------------------------------------------------------------------
\* cg_instantiation: the instance an instruction is sampled into is looked up by
\* its name.  fsw_cg_i is assigned twice and keeps the second instance.  The rest
\* of the covergroups above have no instance.
cg_instantiation ==
  [opcode_cg |-> opcode_cg, CSRRW |-> csrrw_cg, rv32i_misc_cg |-> rv32i_misc_cg,
   mepc_alignment_cg |-> mepc_alignment_cg, BEQ |-> beq_cg, JAL |-> jal_cg, LUI |-> lui_cg,
   ADDI |-> addi_cg, AUIPC |-> auipc_cg, ORI |-> ori_cg, ADD |-> add_cg, SUB |-> sub_cg,
   SRA |-> sra_cg, ANDI |-> andi_cg, SRLI |-> srli_cg, AND |-> and_cg, SRL |-> srl_cg,
   SLL |-> sll_cg, XOR |-> xor_cg, OR |-> or_cg, SLTU |-> sltu_cg, SLTIU |-> sltiu_cg,
   XORI |-> xori_cg, SLTI |-> slti_cg, SRAI |-> srai_cg, SLT |-> slt_cg, SLLI |-> slli_cg,
   MUL |-> mul_cg, MULH |-> mulh_cg, MULHSU |-> mulhsu_cg, MULHU |-> mulhu_cg, DIV |-> div_cg,
   DIVU |-> divu_cg, REM |-> rem_cg, REMU |-> remu_cg, C_LW |-> c_lw_cg, C_LWSP |-> c_lwsp_cg,
   C_SW |-> c_sw_cg, C_SWSP |-> c_swsp_cg, C_ADDI4SPN |-> c_addi4spn_cg, C_ADDI |-> c_addi_cg,
   C_ADDI16SP |-> c_addi16sp_cg, C_LI |-> c_li_cg, C_LUI |-> c_lui_cg, C_SUB |-> c_sub_cg,
   C_ADD |-> c_add_cg, C_MV |-> c_mv_cg, C_ANDI |-> c_andi_cg, C_XOR |-> c_xor_cg,
   C_OR |-> c_or_cg, C_AND |-> c_and_cg, C_BEQZ |-> c_beqz_cg, C_BNEZ |-> c_bnez_cg,
   C_SRLI |-> c_srli_cg, C_SRAI |-> c_srai_cg, C_SLLI |-> c_slli_cg, C_J |-> c_j_cg,
   C_JAL |-> c_jal_cg, C_JR |-> c_jr_cg, C_JALR |-> c_jalr_cg, hint_cg |-> hint_cg,
   illegal_compressed_instr_cg |-> illegal_compressed_instr_cg, FLW |-> flw_cg(1),
   FLD |-> fld_cg(0), FSW |-> fsw_cg(0), FADD_S |-> fadd_s_cg(1), FADD_D |-> fadd_d_cg(0),
   FSUB_S |-> fsub_s_cg(1), FSUB_D |-> fsub_d_cg(0), FMUL_S |-> fmul_s_cg(1),
   FMUL_D |-> fmul_d_cg(0), FDIV_S |-> fdiv_s_cg(1), FDIV_D |-> fdiv_d_cg(0),
   FSQRT_S |-> fsqrt_s_cg(1), FSQRT_D |-> fsqrt_d_cg(0), FMIN_S |-> fmin_s_cg(1),
   FMIN_D |-> fmin_d_cg(0), FMAX_S |-> fmax_s_cg(1), FMAX_D |-> fmax_d_cg(0),
   FMADD_S |-> fmadd_s_cg(1), FMADD_D |-> fmadd_d_cg(0), FNMADD_S |-> fnmadd_s_cg(1),
   FNMADD_D |-> fnmadd_d_cg(0), FMSUB_S |-> fmsub_s_cg(1), FMSUB_D |-> fmsub_d_cg(0),
   FNMSUB_S |-> fnmsub_s_cg(1), FNMSUB_D |-> fnmsub_d_cg(0), FCVT_S_D |-> fcvt_s_d_cg,
   FCVT_D_S |-> fcvt_d_s_cg, FCVT_W_S |-> fcvt_w_s_cg(1), FCVT_WU_S |-> fcvt_wu_s_cg(1),
   FCVT_L_S |-> fcvt_l_s_cg, FCVT_LU_S |-> fcvt_lu_s_cg, FCVT_L_D |-> fcvt_l_d_cg,
   FCVT_LU_D |-> fcvt_lu_d_cg, FCVT_W_D |-> fcvt_w_d_cg(0), FCVT_WU_D |-> fcvt_wu_d_cg(0),
   FCVT_S_W |-> fcvt_s_w_cg, FCVT_S_WU |-> fcvt_s_wu_cg, FCVT_S_L |-> fcvt_s_l_cg,
   FCVT_D_L |-> fcvt_d_l_cg, FCVT_S_LU |-> fcvt_s_lu_cg, FCVT_D_W |-> fcvt_d_w_cg,
   FCVT_D_LU |-> fcvt_d_lu_cg, FCVT_D_WU |-> fcvt_d_wu_cg, FSGNJ_S |-> fsgnj_s_cg(1),
   FSGNJ_D |-> fsgnj_d_cg(0), FSGNJN_S |-> fsgnjn_s_cg(1), FSGNJN_D |-> fsgnjn_d_cg(0),
   FSGNJX_S |-> fsgnjx_s_cg(1), FSGNJX_D |-> fsgnjx_d_cg(0), FMV_X_W |-> fmv_x_w_cg(1),
   FMV_X_D |-> fmv_x_d_cg, FMV_W_X |-> fmv_w_x_cg, FMV_D_X |-> fmv_d_x_cg, FEQ_S |-> feq_s_cg(1),
   FEQ_D |-> feq_d_cg(0), FLT_S |-> flt_s_cg(1), FLT_D |-> flt_d_cg(0), FLE_S |-> fle_s_cg(1),
   FLE_D |-> fle_d_cg(0), FCLASS_S |-> fclass_s_cg(1), FCLASS_D |-> fclass_d_cg(0),
   MULW |-> mulw_cg, DIVW |-> divw_cg, DIVUW |-> divuw_cg, REMW |-> remw_cg, REMUW |-> remuw_cg,
   C_ADDIW |-> c_addiw_cg, C_SUBW |-> c_subw_cg, C_ADDW |-> c_addw_cg, C_LD |-> c_ld_cg,
   C_SD |-> c_sd_cg, C_LDSP |-> c_ldsp_cg, C_SDSP |-> c_sdsp_cg, LWU |-> lwu_cg, LD |-> ld_cg,
   SD |-> sd_cg, ADDIW |-> addiw_cg, SLLIW |-> slliw_cg, SRLIW |-> srliw_cg, SRAIW |-> sraiw_cg,
   ADDW |-> addw_cg, SUBW |-> subw_cg, SLLW |-> sllw_cg, SRLW |-> srlw_cg, SRAW |-> sraw_cg]
Points(cg) == IF cg \in DOMAIN cg_instantiation THEN cg_instantiation[cg] ELSE {}
=============================================================================
